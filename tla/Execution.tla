----------------------------- MODULE Execution ------------------------------
(***************************************************************************)
(* Carrying out an approved decision: evidence.execute_approval (claim,    *)
(* send, confirm), tools.publish_decision with the audit trail and the     *)
(* sent ledger it consults, evidence.reconcile_publish_audits, and the     *)
(* receiver that applies what the broker delivers.                         *)
(*                                                                         *)
(* Each member of Executors is one request handler.  Between any two of    *)
(* its steps another handler, the broker or the clock may act, and it may  *)
(* be killed.  `Faults` names what the environment may do:                 *)
(*   "crash"   a handler is killed (or cancelled) between two steps        *)
(*   "slow"    a handler outlives the lease of its own claim               *)
(*   "late"    a message the sender gave up on is accepted afterwards      *)
(*   "store"   an audit row of the attempt cannot be read or written       *)
(*   "save"    the record of a publish cannot be saved                     *)
(*   "ledger"  the sent ledger cannot be read                              *)
(*   "miss"    a pull of the sent ledger leaves out messages it holds      *)
(* The single-service deployment is modelled (EXECUTOR_URL unset).         *)
(***************************************************************************)
EXTENDS CaseDocument

CONSTANTS
  Executors,     \* the calls that execute approvals or reconcile the trail
  NoApproval,    \* an idle call works on no approval
  Ledger,        \* SENT_LEDGER_SUBSCRIPTION is set
  Faults,
  MaxMessages,   \* bound: messages handed to the broker
  MaxExecutions  \* bound: entries of verification.executions

ASSUME ExecutorsAreCalls == Executors \subseteq Calls
ASSUME LedgerIsASwitch   == Ledger \in BOOLEAN
ASSUME NamedFaults       == Faults \subseteq {"crash", "slow", "late", "store", "save", "ledger", "miss"}
ASSUME BoundsAreNumbers  == MaxMessages \in Nat /\ MaxExecutions \in Nat
ASSUME SentinelsApart    == NoMessage \notin Nat /\ NoApproval \notin Approvals /\ NoDoc \notin CaseDoc

VARIABLES
  call,       \* [Executors -> where each handler is and what it knows]
  expired,    \* executions whose claim_expires_epoch has passed
  submitted,  \* how many messages were handed to the broker client so far
  inflight,   \* messages handed over, not yet accepted or lost
  topic,      \* messages the broker accepted
  ledger,     \* the unacknowledged part of the sent ledger
  pushed,     \* messages the receiver's push subscription still has to deliver
  trail,      \* publish_decision rows that carry a message id
  disposed,   \* approvals with a release_shipment / hold_shipment row
  applied     \* [Approvals -> first_message_id of the applied decision]

brokerVars == <<submitted, inflight, topic, ledger, pushed>>
auditVars  == <<trail, disposed>>
execVars   == <<call, expired, brokerVars, auditVars, applied>>
vars       == <<docVars, execVars>>

-----------------------------------------------------------------------------

Message == [id : Nat, approval : Approvals]

\* The audit id is derived from the idempotency key exec-<approval_id>; the
\* store refuses a second row under the same id.
Row == [audit_id : Approvals, approval : Approvals, message : Nat \cup {NoMessage}]

Sending  == {"tool", "lookup", "ledger", "relookup", "publish", "sending",
             "save", "append", "confirm", "confirming"}
Phases   == {"idle", "loaded", "reconcile", "clear"} \cup Sending
Outcomes == {"none", "done", "unsaved", "unknown", "failed"}

\* `outcome` is the publish receipt: "none" when an exception left no receipt,
\* "unsaved" when the message was accepted but its row could not be saved.
CallRec == [phase    : Phases,
            approval : Approvals \cup {NoApproval},
            exe      : Nat,
            after    : BOOLEAN,
            message  : Nat \cup {NoMessage},
            outcome  : Outcomes,
            timed    : BOOLEAN]

Idle == [phase |-> "idle", approval |-> NoApproval, exe |-> 0, after |-> FALSE,
         message |-> NoMessage, outcome |-> "none", timed |-> FALSE]

TypeOK == /\ DocTypeOK
          /\ call \in [Executors -> CallRec]
          /\ expired \subseteq Nat
          /\ submitted \in Nat
          /\ inflight \subseteq Message
          /\ topic \subseteq Message
          /\ ledger \subseteq Message
          /\ pushed \subseteq Message
          /\ trail \subseteq Row
          /\ disposed \subseteq Approvals
          /\ applied \in [Approvals -> Nat \cup {NoMessage}]

\* A case somebody has approved and nobody has executed yet.  Every approval in
\* Approvals is standing: the loop can give a second one while the first is
\* still VALID (request documents, re-evaluate, cancel the request, approve).
ApprovedDoc(actionOf) ==
  [state        |-> "APPROVED",
   version      |-> 0,
   resume       |-> NoState,
   requests     |-> [r \in Requests |-> NoRequest],
   documents    |-> {},
   evaluation   |-> [version |-> 0, status |-> "missing"],
   approvals    |-> [a \in Approvals |->
                       [status |-> "VALID", action |-> actionOf[a], version |-> 0,
                        waiver |-> FALSE]],
   executions   |-> <<>>,
   auditPending |-> FALSE]

ExecInit == /\ call      = [e \in Executors |-> Idle]
            /\ expired   = {}
            /\ submitted = 0
            /\ inflight  = {}
            /\ topic     = {}
            /\ ledger    = {}
            /\ pushed    = {}
            /\ trail     = {}
            /\ disposed  = {}
            /\ applied   = [a \in Approvals |-> NoMessage]

Init == /\ \E actionOf \in [Approvals -> Actions] : doc = ApprovedDoc(actionOf)
        /\ snap  = [c \in Calls |-> NoDoc]
        /\ fresh = {}
        /\ ExecInit

-----------------------------------------------------------------------------
(* CLAIM                                                                    *)

\* Mutant: neither an interrupted claim nor a failed send can be taken up again.
executable_once(d, a) == d.approvals[a].status = "VALID" /\ d.state = "APPROVED"

approval_is_executable(d, a) ==
  /\ \/ d.approvals[a].status = "VALID" /\ d.state \in {"APPROVED", "EXECUTION_FAILED"}
     \/ d.approvals[a].status = "CLAIMING" /\ d.state = "EXECUTING"
  /\ d.approvals[a].version = d.version
  /\ open_requests(d) = {}

claims(d, a) == {i \in DOMAIN d.executions : /\ d.executions[i].approval = a
                                             /\ d.executions[i].status = "claiming"}

\* The newest claim of the approval: the one a Resume takes over.
newest(is) == CHOOSE i \in is : \A j \in is : j <= i

resumable(d, a) == d.state = "EXECUTING" /\ claims(d, a) # {}

execution(a, status) ==
  [approval |-> a, status |-> status, message |-> NoMessage, pending |-> FALSE]

Goto(e, phase) == call' = [call EXCEPT ![e].phase = phase]

\* Phase 2 starts.  `after` is state_before # APPROVED.
StartSend(e, i) ==
  call' = [call EXCEPT ![e] = [Idle EXCEPT !.phase    = "tool",
                                           !.approval = call[e].approval,
                                           !.exe      = i,
                                           !.after    = snap[e].state # "APPROVED"]]

Begin(e, a) == /\ call[e].phase = "idle"
               /\ Get(e)
               /\ call' = [call EXCEPT ![e] = [Idle EXCEPT !.phase = "loaded", !.approval = a]]
               /\ UNCHANGED <<expired, brokerVars, auditVars, applied>>

\* A refused attempt is recorded on the case.  At the bound it still writes the
\* case, without one more entry.
Deny(e) == LET a == call[e].approval IN
  /\ call[e].phase = "loaded"
  /\ ~approval_is_executable(snap[e], a)
  /\ Put(e, [snap[e] EXCEPT !.executions = IF Len(@) < MaxExecutions
                                          THEN Append(@, execution(a, "denied")) ELSE @])
  /\ call' = [call EXCEPT ![e] = Idle]
  /\ UNCHANGED <<expired, brokerVars, auditVars, applied>>

\* Mutant: the send starts although the claim was never written.
ClaimUnwritten(e) ==
  /\ call[e].phase = "loaded"
  /\ approval_is_executable(snap[e], call[e].approval)
  /\ Drop(e)
  /\ StartSend(e, Len(snap[e].executions) + 1)
  /\ UNCHANGED <<expired, brokerVars, auditVars, applied>>

Claim(e) == LET a == call[e].approval IN
  /\ call[e].phase = "loaded"
  /\ approval_is_executable(snap[e], a)
  /\ ~resumable(snap[e], a)
  /\ Len(snap[e].executions) < MaxExecutions
  /\ Put(e, [snap[e] EXCEPT !.executions          = Append(@, execution(a, "claiming")),
                            !.approvals[a].status = "CLAIMING",
                            !.state               = "EXECUTING"])
  /\ StartSend(e, Len(snap[e].executions) + 1)
  /\ UNCHANGED <<expired, brokerVars, auditVars, applied>>

\* Mutant: the lease of the claim is not looked at.
ResumeInsideLease(e) ==
  /\ call[e].phase = "loaded"
  /\ approval_is_executable(snap[e], call[e].approval)
  /\ resumable(snap[e], call[e].approval)
  /\ Put(e, snap[e])
  /\ StartSend(e, newest(claims(snap[e], call[e].approval)))
  /\ UNCHANGED <<expired, brokerVars, auditVars, applied>>

\* An interrupted claim is taken over under its own execution_id, and only once
\* its lease has run out; the new lease is what takes it out of `expired`.
Resume(e) == LET a == call[e].approval
                 i == newest(claims(snap[e], a)) IN
  /\ call[e].phase = "loaded"
  /\ approval_is_executable(snap[e], a)
  /\ resumable(snap[e], a)
  /\ i \in expired
  /\ Put(e, snap[e])
  /\ StartSend(e, i)
  /\ expired' = expired \ {i}
  /\ UNCHANGED <<brokerVars, auditVars, applied>>

\* 409: the claim's lease is still running.
LeaseRefused(e) == LET a == call[e].approval IN
  /\ call[e].phase = "loaded"
  /\ approval_is_executable(snap[e], a)
  /\ resumable(snap[e], a)
  /\ newest(claims(snap[e], a)) \notin expired
  /\ Drop(e)
  /\ call' = [call EXCEPT ![e] = Idle]
  /\ UNCHANGED <<expired, brokerVars, auditVars, applied>>

\* 409: somebody wrote the case between this call's read and its write.
Conflict(e) ==
  /\ call[e].phase \in {"loaded", "confirming", "clear"}
  /\ e \notin fresh
  /\ Drop(e)
  /\ call' = [call EXCEPT ![e] = Idle]
  /\ UNCHANGED <<expired, brokerVars, auditVars, applied>>

-----------------------------------------------------------------------------
(* SEND                                                                     *)

\* _earlier_publish: only a row that carries a message id proves a publish.
rows(a) == {r \in trail : r.approval = a /\ r.message # NoMessage}

\* Mutant: a row is appended whatever the trail holds under its id.
AuditAlways(new) == trail \cup new

\* add_audit_once: create under the fixed id, or leave the row that is there.
AuditOnce(new) ==
  trail \cup {r \in new : \A q \in trail : q.audit_id # r.audit_id}

publish_row(a, m) == [audit_id |-> a, approval |-> a, message |-> m]

Receipt(e, outcome, m) ==
  call' = [call EXCEPT ![e].phase = "confirm", ![e].outcome = outcome, ![e].message = m]

\* A row of an earlier attempt proves its publish: its receipt is used again.
UseEarlier(e) == \E r \in rows(call[e].approval) : Receipt(e, "done", r.message)

\* release_shipment / hold_shipment: one audit row, again on every attempt.
Tool(e) == /\ call[e].phase = "tool"
           /\ disposed' = disposed \cup {call[e].approval}
           /\ Goto(e, "lookup")
           /\ UNCHANGED <<docVars, expired, brokerVars, trail, applied>>

\* The store refuses a row or a query: the exception ends the send phase and
\* leaves no publish receipt.
StoreFails(e) == /\ "store" \in Faults
                 /\ call[e].phase \in {"tool", "lookup", "relookup"}
                 /\ Receipt(e, "none", NoMessage)
                 /\ UNCHANGED <<docVars, expired, brokerVars, auditVars, applied>>

\* Mutant: a retry does not read the sent ledger.
LookupOnly(e) ==
  /\ call[e].phase = "lookup"
  /\ UseEarlier(e) \/ (rows(call[e].approval) = {} /\ Goto(e, "publish"))
  /\ UNCHANGED <<docVars, expired, brokerVars, auditVars, applied>>

Lookup(e) == LET a == call[e].approval IN
  /\ call[e].phase = "lookup"
  /\ \/ UseEarlier(e)
     \/ rows(a) = {} /\ Goto(e, IF call[e].after /\ Ledger THEN "ledger" ELSE "publish")
  /\ UNCHANGED <<docVars, expired, brokerVars, auditVars, applied>>

\* The rows a pulled batch may leave: one per key, of whichever message of that
\* key the subscription handed over first.
settled(batch) ==
  {new \in SUBSET {publish_row(m.approval, m.id) : m \in batch} :
     /\ {r.approval : r \in new} = {m.approval : m \in batch}
     /\ \A r, q \in new : r.approval = q.approval => r = q}

\* _settle_from_ledger: a row for every message pulled whose key has none, and
\* only then the acknowledgement.
Settle(e) == \E batch \in SUBSET ledger : \E new \in settled(batch) :
  /\ call[e].phase = "ledger"
  /\ "miss" \in Faults \/ batch = ledger
  /\ trail'  = AuditOnce(new)
  /\ ledger' = ledger \ batch
  /\ Goto(e, "relookup")
  /\ UNCHANGED <<docVars, expired, submitted, inflight, topic, pushed, disposed, applied>>

\* The read fails, perhaps after some rows were saved; nothing is acknowledged
\* and nothing is sent.  The "unknown" record of this may itself fail to save.
LedgerUnreadable(e) == \E batch \in SUBSET ledger : \E new \in settled(batch) :
  /\ "ledger" \in Faults
  /\ call[e].phase = "ledger"
  /\ trail' = AuditOnce(new)
  /\ \/ Receipt(e, "unknown", NoMessage)
     \/ "store" \in Faults /\ Receipt(e, "none", NoMessage)
  /\ UNCHANGED <<docVars, expired, brokerVars, disposed, applied>>

Relookup(e) == LET a == call[e].approval IN
  /\ call[e].phase = "relookup"
  /\ \/ UseEarlier(e)
     \/ rows(a) = {} /\ Goto(e, "publish")
  /\ UNCHANGED <<docVars, expired, brokerVars, auditVars, applied>>

Submit(e) ==
  /\ call[e].phase = "publish"
  /\ submitted < MaxMessages
  /\ submitted' = submitted + 1
  /\ inflight'  = inflight \cup {[id |-> submitted + 1, approval |-> call[e].approval]}
  /\ call' = [call EXCEPT ![e].phase = "sending", ![e].message = submitted + 1]
  /\ UNCHANGED <<docVars, expired, topic, ledger, pushed, auditVars, applied>>

BrokerAccepts(m) == /\ inflight' = inflight \ {m}
                    /\ topic'    = topic \cup {m}
                    /\ ledger'   = IF Ledger THEN ledger \cup {m} ELSE ledger
                    /\ pushed'   = pushed \cup {m}
                    /\ UNCHANGED submitted

BrokerLoses(m) == inflight' = inflight \ {m} /\ UNCHANGED <<submitted, topic, ledger, pushed>>

\* What may have become of a message whose sender stopped waiting for it.
Abandoned(m) == \/ BrokerAccepts(m)
                \/ BrokerLoses(m)
                \/ "late" \in Faults /\ UNCHANGED brokerVars

outgoing(e) == {m \in inflight : m.id = call[e].message}

Accepted(e) == /\ call[e].phase = "sending"
               /\ \E m \in outgoing(e) : BrokerAccepts(m)
               /\ Goto(e, "save")
               /\ UNCHANGED <<docVars, expired, auditVars, applied>>

\* No answer within 15 s.  The "unknown" record may itself fail to save; the
\* exception then replaces the receipt.
TimedOut(e) ==
  /\ call[e].phase = "sending"
  /\ \E m \in outgoing(e) : Abandoned(m)
  /\ \E outcome \in {"unknown"} \cup (IF "save" \in Faults THEN {"none"} ELSE {}) :
       call' = [call EXCEPT ![e].phase = "confirm", ![e].outcome = outcome,
                            ![e].message = NoMessage, ![e].timed = TRUE]
  /\ UNCHANGED <<docVars, expired, auditVars, applied>>

\* Mutant: a refused message is recorded like an accepted one.
RejectedIsRecorded(e) ==
  /\ call[e].phase = "sending"
  /\ \E m \in outgoing(e) : BrokerLoses(m)
  /\ Goto(e, "save")
  /\ UNCHANGED <<docVars, expired, auditVars, applied>>

\* An error that means the message was not taken.
Rejected(e) ==
  /\ call[e].phase = "sending"
  /\ \E m \in outgoing(e) : BrokerLoses(m)
  /\ Receipt(e, "failed", NoMessage)
  /\ UNCHANGED <<docVars, expired, auditVars, applied>>

\* The record of an accepted publish: look for a row under the key, then create
\* one under the fixed id; whoever lost the race takes the row that is there.
SaveLookup(e) ==
  /\ call[e].phase = "save"
  /\ \/ UseEarlier(e)
     \/ rows(call[e].approval) = {} /\ Goto(e, "append")
  /\ UNCHANGED <<docVars, expired, brokerVars, auditVars, applied>>

Save(e) == LET a == call[e].approval IN
  /\ call[e].phase = "append"
  /\ trail' = AuditOnce({publish_row(a, call[e].message)})
  /\ LET kept == {r \in trail' : r.approval = a /\ r.message # NoMessage} IN
       \/ \E r \in kept : Receipt(e, "done", r.message)
       \/ kept = {} /\ Receipt(e, "done", call[e].message)
  /\ UNCHANGED <<docVars, expired, brokerVars, disposed, applied>>

\* Mutant: the receipt does not say that the row is missing.
SaveFailsSilently(e) ==
  /\ "save" \in Faults
  /\ call[e].phase = "append"
  /\ Receipt(e, "done", call[e].message)
  /\ UNCHANGED <<docVars, expired, brokerVars, auditVars, applied>>

\* Both tries failed: the receipt keeps the message id with audit_saved = False.
SaveFails(e) ==
  /\ "save" \in Faults
  /\ call[e].phase = "append"
  /\ Receipt(e, "unsaved", call[e].message)
  /\ UNCHANGED <<docVars, expired, brokerVars, auditVars, applied>>

-----------------------------------------------------------------------------
(* CONFIRM                                                                  *)

Reread(e) == /\ call[e].phase = "confirm"
             /\ Get(e)
             /\ Goto(e, "confirming")
             /\ UNCHANGED <<expired, brokerVars, auditVars, applied>>

\* Mutant: a publish that timed out counts as one that went out.
published_or_unknown(e) == call[e].outcome \in {"done", "unsaved", "unknown"}

published(e) == call[e].outcome \in {"done", "unsaved"}

\* Mutant: the placeholder of the exception path is taken for the outcome.
outcome_is_action(d, a) == d.approvals[a].action

outcome_of(d, a) ==
  IF d.approvals[a].action = "release" THEN "RELEASED_BY_HUMAN" ELSE "BLOCKED_BY_HUMAN"

\* Mutant: a failed send does not give the approval back.
confirmed_unreset(d, e) == LET i == call[e].exe IN
  IF published(e)
  THEN [d EXCEPT !.executions[i] = [@ EXCEPT !.status  = "sent",
                                             !.message = call[e].message],
                 !.approvals[call[e].approval].status = "EXECUTED",
                 !.state = outcome_of(d, call[e].approval)]
  ELSE [d EXCEPT !.executions[i].status = "send_failed", !.state = "EXECUTION_FAILED"]

\* What phase 3 writes over the case it has just read again.  It does not look
\* at the state, the approval's status or the execution's status it finds.
confirmed(d, e) == LET a       == call[e].approval
                       i       == call[e].exe
                       unsaved == call[e].outcome = "unsaved" IN
  IF published(e)
  THEN [d EXCEPT !.executions[i] = [@ EXCEPT !.status  = "sent",
                                             !.message = call[e].message,
                                             !.pending = d.executions[i].pending \/ unsaved],
                 !.approvals[a].status = "EXECUTED",
                 !.state               = outcome_of(d, a),
                 !.auditPending        = d.auditPending \/ unsaved]
  ELSE [d EXCEPT !.executions[i] = [@ EXCEPT !.status  = IF call[e].outcome = "unknown"
                                                         THEN "send_unknown" ELSE "send_failed",
                                             !.message = NoMessage],
                 !.approvals[a].status = "VALID",
                 !.state               = "EXECUTION_FAILED"]

Confirm(e) == /\ call[e].phase = "confirming"
              /\ Put(e, confirmed(snap[e], e))
              /\ call' = [call EXCEPT ![e] = Idle]
              /\ UNCHANGED <<expired, brokerVars, auditVars, applied>>

-----------------------------------------------------------------------------
(* Reconciliation of the audit trail                                        *)

\* One gap of reconcile_publish_audits.  The list of gaps (executed cases whose
\* audit_pending is set) is made earlier; what counts when the case is read
\* again is only that execution i still lacks its row.  The row is written
\* first, then the gap is cleared under the lock.
ReconcileBegin(e) == /\ call[e].phase = "idle"
                     /\ Get(e)
                     /\ \E i \in DOMAIN doc.executions :
                          /\ doc.executions[i].pending
                          /\ call' = [call EXCEPT ![e] = [Idle EXCEPT
                                        !.phase = "reconcile", !.exe = i,
                                        !.approval = doc.executions[i].approval,
                                        !.message  = doc.executions[i].message]]
                     /\ UNCHANGED <<expired, brokerVars, auditVars, applied>>

ReconcileRow(e) == LET a == call[e].approval IN
  /\ call[e].phase = "reconcile"
  /\ trail' = IF rows(a) # {} THEN trail ELSE AuditOnce({publish_row(a, call[e].message)})
  /\ Goto(e, "clear")
  /\ UNCHANGED <<docVars, expired, brokerVars, disposed, applied>>

cleared(d, i) ==
  [d EXCEPT !.executions[i].pending = FALSE,
            !.auditPending = \E j \in DOMAIN d.executions : j # i /\ d.executions[j].pending]

ReconcileClear(e) == /\ call[e].phase = "clear"
                     /\ Put(e, cleared(snap[e], call[e].exe))
                     /\ call' = [call EXCEPT ![e] = Idle]
                     /\ UNCHANGED <<expired, brokerVars, auditVars, applied>>

ReconcileFails(e) == /\ "save" \in Faults
                     /\ call[e].phase = "reconcile"
                     /\ Drop(e)
                     /\ call' = [call EXCEPT ![e] = Idle]
                     /\ UNCHANGED <<expired, brokerVars, auditVars, applied>>

-----------------------------------------------------------------------------
(* The environment: crashes, the clock, the broker, the receiver            *)

Crash(e) == /\ "crash" \in Faults
            /\ call[e].phase # "idle"
            /\ Drop(e)
            /\ call' = [call EXCEPT ![e] = Idle]
            /\ IF call[e].phase = "sending"
               THEN \E m \in outgoing(e) : Abandoned(m)
               ELSE UNCHANGED brokerVars
            /\ UNCHANGED <<expired, auditVars, applied>>

\* 300 s pass.  Without the "slow" fault a handler is done (or dead) by then.
LeaseExpires(i) ==
  /\ i \in DOMAIN doc.executions \ expired
  /\ doc.executions[i].status = "claiming"
  /\ "slow" \in Faults \/ \A e \in Executors : ~(call[e].phase \in Sending /\ call[e].exe = i)
  /\ expired' = expired \cup {i}
  /\ UNCHANGED <<docVars, call, brokerVars, auditVars, applied>>

\* A message nobody waits for any more reaches the broker, or is lost.
Straggler(m) ==
  /\ m \in inflight
  /\ \A e \in Executors : ~(call[e].phase = "sending" /\ call[e].message = m.id)
  /\ BrokerAccepts(m) \/ BrokerLoses(m)
  /\ UNCHANGED <<docVars, call, expired, auditVars, applied>>

\* Mutant: acknowledged before it is applied.
DeliverAckFirst(m) ==
  /\ m \in pushed
  /\ applied' \in {applied, [applied EXCEPT ![m.approval] = m.id]}
  /\ pushed' = pushed \ {m}
  /\ UNCHANGED <<docVars, call, expired, submitted, inflight, topic, ledger, auditVars>>

\* decision_receiver.receive and apply_decision_once: the create that claims the
\* key is the application; a repeat changes nothing but its delivery count.  The
\* acknowledgement can be lost, and the message then comes again.
Deliver(m) ==
  /\ m \in pushed
  /\ applied' = IF applied[m.approval] = NoMessage
                THEN [applied EXCEPT ![m.approval] = m.id] ELSE applied
  /\ pushed' \in {pushed, pushed \ {m}}
  /\ UNCHANGED <<docVars, call, expired, submitted, inflight, topic, ledger, auditVars>>

-----------------------------------------------------------------------------

ClaimStep(e)   == (\E a \in Approvals : Begin(e, a)) \/ Deny(e) \/ Claim(e) \/ Resume(e)
                  \/ LeaseRefused(e) \/ Conflict(e)
SendStep(e)    == Tool(e) \/ StoreFails(e) \/ Lookup(e) \/ Settle(e) \/ LedgerUnreadable(e)
                  \/ Relookup(e) \/ Submit(e) \/ Accepted(e) \/ TimedOut(e) \/ Rejected(e)
                  \/ SaveLookup(e) \/ Save(e) \/ SaveFails(e)
ConfirmStep(e) == Reread(e) \/ Confirm(e)
Reconcile(e)   == ReconcileBegin(e) \/ ReconcileRow(e) \/ ReconcileClear(e) \/ ReconcileFails(e)

ExecNext == \/ \E e \in Executors : ClaimStep(e) \/ SendStep(e) \/ ConfirmStep(e)
                                    \/ Reconcile(e) \/ Crash(e)
            \/ \E i \in 1..MaxExecutions : LeaseExpires(i)
            \/ \E m \in inflight : Straggler(m)
            \/ \E m \in pushed : Deliver(m)

Next == ExecNext

Spec == Init /\ [][Next]_vars

\* A call that has started goes on to its end: every await in it ends, with a
\* result, an error or a timeout.  The clock moves and the broker pushes what it
\* accepted.  Nobody has to start a call.
Continue(e) == Deny(e) \/ Claim(e) \/ Resume(e) \/ LeaseRefused(e) \/ Conflict(e)
               \/ SendStep(e) \/ ConfirmStep(e)
               \/ ReconcileRow(e) \/ ReconcileClear(e) \/ ReconcileFails(e)

FairSpec == /\ Spec
            /\ \A e \in Executors : WF_vars(Continue(e))
            /\ \A i \in 1..MaxExecutions : WF_vars(LeaseExpires(i))
            /\ \A a \in Approvals : WF_vars(\E m \in pushed : m.approval = a /\ Deliver(m))

-----------------------------------------------------------------------------
(* Safety                                                                   *)

\* An execution recorded as sent names a message the broker really accepted for
\* that approval: whichever way its id came back (the broker's answer, a row of
\* an earlier attempt, the sent ledger), EXECUTED is never claimed of a
\* decision that is not on the topic (execute_approval phase 3, N02).
SentWasAccepted ==
  \A i \in DOMAIN doc.executions :
    doc.executions[i].status = "sent" =>
      \E m \in topic : /\ m.id = doc.executions[i].message
                       /\ m.approval = doc.executions[i].approval

\* A publish row that carries a message id is proof: the message is on the topic
\* under the row's own key.  A retry stops on such a row without sending.
RowProvesPublish ==
  \A r \in trail : r.message # NoMessage =>
    \E m \in topic : m.id = r.message /\ m.approval = r.approval

\* The execution, a retry, the sent ledger and the reconciliation all write the
\* publish row; between them the trail holds at most one per approval.
OneRowPerKey == \A r, q \in trail : r.approval = q.approval => r = q

\* Nothing is handed to the broker for an approval nobody claimed, nor for one
\* that newer evidence has superseded; so the receiver applies nothing else.
NoSendWithoutClaim ==
  \A m \in inflight \cup topic :
    /\ doc.approvals[m.approval].status \in {"VALID", "CLAIMING", "EXECUTED"}
    /\ \E i \in DOMAIN doc.executions : /\ doc.executions[i].approval = m.approval
                                        /\ doc.executions[i].status # "denied"

\* However an execution was interrupted, the case is not stranded: while it is
\* approved, being executed or failed, some approval can be executed, resumed or
\* retried, and an EXECUTING case has a claim to resume.
NeverStranded ==
  /\ doc.state \in {"APPROVED", "EXECUTING", "EXECUTION_FAILED"} =>
       \E a \in Approvals : approval_is_executable(doc, a)
  /\ doc.state = "EXECUTING" =>
       \E a \in Approvals : doc.approvals[a].status = "CLAIMING" /\ resumable(doc, a)

\* The append-only trail agrees with the case: an executed approval has its
\* publish row unless the case says that the row is still missing.
TrailComplete ==
  \A a \in Approvals :
    doc.approvals[a].status = "EXECUTED" /\ ~doc.auditPending => rows(a) # {}

\* Inside a lease nobody else works on the approval: two handlers are never in
\* the send or confirm phase together.
OneSender ==
  \A e, f \in Executors :
    e # f => ~(call[e].phase \in Sending /\ call[f].phase \in Sending)

\* With the sent ledger a retry or a resume never publishes a decision the broker
\* already accepted, wherever the earlier attempt was interrupted.
AtMostOneMessage ==
  \A m, n \in inflight \cup topic : m.approval = n.approval => m = n

\* An executed case keeps its outcome.  The state diagram of the loop has no
\* transition out of RELEASED_BY_HUMAN or BLOCKED_BY_HUMAN.
KeepsOutcome == doc.state \in Executed => doc'.state = doc.state

ExecutedIsFinal == [][KeepsOutcome]_vars

-----------------------------------------------------------------------------
(* Liveness                                                                 *)

\* Somebody keeps pressing Execute on every approval, and handlers are killed
\* finitely often.  A call that ends in a refusal leaves the same state behind as
\* one that was killed there, hence the second conjunct.
Killed(e) == Crash(e) /\ ~Continue(e)

OperatorRetries == \A a \in Approvals : []<><<\E e \in Executors : Begin(e, a)>>_vars
CrashesEnd      == <>[][\A e \in Executors : ~Killed(e)]_vars

\* An execution never stays open: whatever was killed and wherever, the lease runs
\* out and the next attempt finishes it or fails it.  The model gives up when its
\* bound of messages is used up.
ExecutionSettles ==
  OperatorRetries /\ CrashesEnd =>
    (doc.state = "EXECUTING" ~> doc.state # "EXECUTING" \/ submitted = MaxMessages)

-----------------------------------------------------------------------------
(* What it implements                                                       *)

tried == {i \in DOMAIN doc.executions : doc.executions[i].status # "denied"}

Delivery == INSTANCE DecisionDelivery WITH
  Decisions <- Approvals,
  Overtaken <- "slow" \in Faults,
  claimed   <- {doc.executions[i].approval : i \in tried},
  accepted  <- {m.approval : m \in topic},
  applied   <- {a \in Approvals : applied[a] # NoMessage},
  recorded  <- {a \in Approvals : doc.approvals[a].status = "EXECUTED"}

\* Execution, with its handlers, leases and ledgers, carries out decisions the way
\* DecisionDelivery promises, and what the broker accepted is always applied.
ImplementsDelivery == Delivery!FairSpec

\* The same without the promise that it is applied in the end: this one holds of
\* handlers that outlive their lease, too.
KeepsDelivery == Delivery!Spec

-----------------------------------------------------------------------------
(* What the documentation says and the code does not keep                   *)

\* A publish that timed out is not recorded as one that was not sent.
TimeoutIsUnknown ==
  [][\A e \in Executors :
       call[e].timed /\ call[e].phase = "confirming" /\ doc' # doc /\ call'[e].phase = "idle"
         => doc'.executions[call[e].exe].status # "send_failed"]_vars

=============================================================================
