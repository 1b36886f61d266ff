---------------------------- MODULE DecisionLoop ----------------------------
(***************************************************************************)
(* The verification loop as one system: reviewers and shippers at the desk *)
(* (EvidenceLoop) and the executors of approved decisions (Execution) work *)
(* on the same stored case.                                                *)
(***************************************************************************)
EXTENDS EvidenceLoop, Execution

ASSUME DeskExecutesNothing == Desk \cap Executors = {}

decisionVars == <<docVars, execVars, acked>>

DecisionInit == LoopInit /\ ExecInit

DecisionNext == \/ DeskNext /\ UNCHANGED execVars
                \/ ExecNext /\ UNCHANGED acked

DecisionSpec == DecisionInit /\ [][DecisionNext]_decisionVars

-----------------------------------------------------------------------------

\* From the claim of a decision on, the evidence it rests on does not move: no
\* request is opened, no paper arrives and nothing is evaluated or approved.
KeepsEvidence ==
  doc.state \in InExecution =>
    /\ doc'.version = doc.version
    /\ doc'.requests = doc.requests
    /\ doc'.documents = doc.documents
    /\ doc'.evaluation = doc.evaluation

EvidenceFrozen == [][KeepsEvidence]_decisionVars

\* Every decision handed to the broker, whether its answer ever came or not, was
\* approved on the evidence that is still the evidence on file; no approval that
\* newer evidence has superseded is ever published.
PublishedOnCurrentEvidence ==
  \A m \in inflight \cup topic :
    /\ doc.approvals[m.approval].status # "SUPERSEDED"
    /\ doc.approvals[m.approval].version = doc.version

\* What the receiver applies as a release was backed: the papers were in hand, or
\* the approval names what it waives, and an evaluation of them is on record.
AppliedReleaseIsBacked ==
  \A a \in Approvals :
    applied[a] # NoMessage /\ doc.approvals[a].action = "release" =>
      /\ evaluated(doc)
      /\ doc.approvals[a].waiver \/ in_hand(doc) = DocTypes

=============================================================================
