-------------------------- MODULE DecisionDelivery --------------------------
(***************************************************************************)
(* What carrying out decisions promises, seen from outside: a decision is  *)
(* claimed before the broker sees it, the broker accepts it before anybody *)
(* acts on it, it is applied once, and the case records it as carried out  *)
(* only when the broker has it.  Nothing here knows about handlers,        *)
(* leases, audit rows or messages.                                         *)
(***************************************************************************)
CONSTANTS
  Decisions,  \* the approvals of the case
  Overtaken   \* a handler may be overtaken by a second one and report late

VARIABLES
  claimed,    \* somebody started to carry it out
  accepted,   \* the broker has it
  applied,    \* the receiver has acted on it
  recorded    \* the case says it was carried out

state == <<claimed, accepted, applied, recorded>>

Init == claimed = {} /\ accepted = {} /\ applied = {} /\ recorded = {}

Claim(d) == /\ d \notin claimed
            /\ claimed' = claimed \cup {d}
            /\ UNCHANGED <<accepted, applied, recorded>>

Accept(d) == /\ d \in claimed \ accepted
             /\ accepted' = accepted \cup {d}
             /\ UNCHANGED <<claimed, applied, recorded>>

Apply(d) == /\ d \in accepted \ applied
            /\ applied' = applied \cup {d}
            /\ UNCHANGED <<claimed, accepted, recorded>>

Record(d) == /\ d \in accepted \ recorded
             /\ recorded' = recorded \cup {d}
             /\ UNCHANGED <<claimed, accepted, applied>>

\* A failure reported by a handler that was overtaken takes the record back.  It
\* never takes back the decision: what is accepted stays accepted and applied.
Retract(d) == /\ Overtaken
              /\ d \in recorded
              /\ recorded' = recorded \ {d}
              /\ UNCHANGED <<claimed, accepted, applied>>

Next == \E d \in Decisions : Claim(d) \/ Accept(d) \/ Apply(d) \/ Record(d) \/ Retract(d)

Spec == Init /\ [][Next]_state

\* Whatever the broker has is applied in the end.
FairSpec == Spec /\ \A d \in Decisions : WF_state(Apply(d))

=============================================================================
