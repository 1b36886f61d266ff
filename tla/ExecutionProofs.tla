-------------------------- MODULE ExecutionProofs --------------------------
(***************************************************************************)
(* What Execution proves to the outside, for every set of handlers and     *)
(* approvals and every bound: receipts, rows and cases tell the truth      *)
(* about the broker whatever goes wrong; handlers inside their leases work *)
(* one at a time; with the sent ledger no decision is published twice; and *)
(* seen from outside, execution does what DecisionDelivery promises.       *)
(***************************************************************************)
EXTENDS Execution, CaseDocumentProofs, SequenceTheorems, FiniteSetTheorems

-----------------------------------------------------------------------------
(* Types.  TypeOK alone is not inductive: an action that files a message, a *)
(* row or an execution under call[e].approval needs to know that a call     *)
(* under way has one, and one that writes its copy needs to know that the   *)
(* copy is the stored case.                                                 *)

BusyHasApproval == \A e \in Executors : call[e].phase # "idle" => call[e].approval \in Approvals

CallsOK  == call \in [Executors -> CallRec] /\ BusyHasApproval
BrokerOK == /\ submitted \in Nat
            /\ inflight \subseteq Message
            /\ topic \subseteq Message
            /\ ledger \subseteq Message
            /\ pushed \subseteq Message
AuditOK  == trail \subseteq Row /\ disposed \subseteq Approvals
RestOK   == expired \subseteq Nat /\ applied \in [Approvals -> Nat \cup {NoMessage}]

TypeInv == DocInv /\ CallsOK /\ BrokerOK /\ AuditOK /\ RestOK

LEMMA TypeInvIsTyped == TypeInv => TypeOK /\ FreshCopyIsCurrent
BY DEF TypeInv, DocInv, CallsOK, BrokerOK, AuditOK, RestOK, TypeOK

LEMMA UnchangedDoc == ASSUME DocInv, UNCHANGED docVars PROVE DocInv'
BY DEF DocInv, DocTypeOK, FreshCopyIsCurrent, docVars

LEMMA UnchangedBroker == ASSUME BrokerOK, UNCHANGED brokerVars PROVE BrokerOK'
BY DEF BrokerOK, brokerVars

LEMMA UnchangedAudit == ASSUME AuditOK, UNCHANGED auditVars PROVE AuditOK'
BY DEF AuditOK, auditVars

LEMMA UnchangedRest == ASSUME RestOK, UNCHANGED <<expired, applied>> PROVE RestOK'
BY DEF RestOK

\* The ways a call moves on.
LEMMA CallMoves ==
  ASSUME CallsOK, NEW e \in Executors, NEW rec \in CallRec,
         rec.phase # "idle" => rec.approval \in Approvals,
         call' = [call EXCEPT ![e] = rec]
  PROVE  CallsOK'
BY DEF CallsOK, BusyHasApproval

LEMMA CallEnds ==
  ASSUME CallsOK, NEW e \in Executors, call' = [call EXCEPT ![e] = Idle]
  PROVE  CallsOK'
<1>1. Idle \in CallRec /\ Idle.phase = "idle" BY DEF Idle, CallRec, Phases, Outcomes
<1> QED BY <1>1, CallMoves

LEMMA CallGoesTo ==
  ASSUME CallsOK, NEW e \in Executors, NEW phase \in Phases,
         call[e].phase # "idle", Goto(e, phase)
  PROVE  CallsOK'
<1> DEFINE rec == [call[e] EXCEPT !.phase = phase]
<1>1. call[e] \in CallRec /\ call[e].approval \in Approvals BY DEF CallsOK, BusyHasApproval
<1>2. rec \in CallRec /\ rec.approval = call[e].approval BY <1>1 DEF CallRec
<1>3. call' = [call EXCEPT ![e] = rec] BY DEF Goto
<1> QED BY <1>1, <1>2, <1>3, CallMoves

LEMMA CallHasReceipt ==
  ASSUME CallsOK, NEW e \in Executors, NEW outcome \in Outcomes,
         NEW m \in Nat \cup {NoMessage}, call[e].phase # "idle", Receipt(e, outcome, m)
  PROVE  CallsOK'
<1> DEFINE rec == [call[e] EXCEPT !.phase = "confirm", !.outcome = outcome, !.message = m]
<1>1. call[e] \in CallRec /\ call[e].approval \in Approvals BY DEF CallsOK, BusyHasApproval
<1>2. rec \in CallRec /\ rec.approval = call[e].approval BY <1>1 DEF CallRec, Phases, Sending
<1>3. call' = [call EXCEPT ![e] = rec] BY DEF Receipt
<1> QED BY <1>1, <1>2, <1>3, CallMoves

LEMMA CallStartsSend ==
  ASSUME CallsOK, NEW e \in Executors, NEW i \in Nat, call[e].phase # "idle", StartSend(e, i)
  PROVE  CallsOK'
<1> DEFINE rec == [Idle EXCEPT !.phase = "tool", !.approval = call[e].approval, !.exe = i,
                               !.after = snap[e].state # "APPROVED"]
<1>1. call[e].approval \in Approvals BY DEF CallsOK, BusyHasApproval
<1>2. rec \in CallRec /\ rec.approval = call[e].approval
  BY <1>1 DEF CallRec, Idle, Phases, Sending, Outcomes
<1>3. call' = [call EXCEPT ![e] = rec] BY DEF StartSend
<1> QED BY <1>1, <1>2, <1>3, CallMoves

-----------------------------------------------------------------------------
(* One step of a handler.                                                   *)

LEMMA DeniedDoc ==
  ASSUME NEW d \in CaseDoc, NEW a \in Approvals
  PROVE  [d EXCEPT !.executions = IF Len(@) < MaxExecutions
                                  THEN Append(@, execution(a, "denied")) ELSE @] \in CaseDoc
<1>1. d.executions \in Seq(ExecutionRec) BY DEF CaseDoc
<1>2. execution(a, "denied") \in ExecutionRec BY DEF execution, ExecutionRec
<1>3. Append(d.executions, execution(a, "denied")) \in Seq(ExecutionRec) BY <1>1, <1>2
<1> QED BY <1>1, <1>3 DEF CaseDoc

LEMMA ClaimedDoc ==
  ASSUME NEW d \in CaseDoc, NEW a \in Approvals
  PROVE  [d EXCEPT !.executions          = Append(@, execution(a, "claiming")),
                   !.approvals[a].status = "CLAIMING",
                   !.state               = "EXECUTING"] \in CaseDoc
<1>1. d.executions \in Seq(ExecutionRec) BY DEF CaseDoc
<1>2. execution(a, "claiming") \in ExecutionRec BY DEF execution, ExecutionRec
<1>3. Append(d.executions, execution(a, "claiming")) \in Seq(ExecutionRec) BY <1>1, <1>2
<1>4. [d.approvals EXCEPT ![a].status = "CLAIMING"] \in [Approvals -> ApprovalRec]
  BY DEF CaseDoc, ApprovalRec
<1>5. "EXECUTING" \in CaseStates BY DEF CaseStates, InExecution
<1> QED BY <1>3, <1>4, <1>5 DEF CaseDoc

LEMMA ClaimStepTyped ==
  ASSUME TypeInv, NEW e \in Executors, ClaimStep(e)
  PROVE  TypeInv'
<1> USE DEF TypeInv
<1>a. e \in Calls BY ExecutorsAreCalls
<1>1. CASE \E a \in Approvals : Begin(e, a)
  <2> PICK a \in Approvals : Begin(e, a) BY <1>1
  <2>1. DocInv' BY <1>a, GetKeepsDocInv DEF Begin
  <2> DEFINE rec == [Idle EXCEPT !.phase = "loaded", !.approval = a]
  <2>2. rec \in CallRec /\ rec.approval = a BY DEF CallRec, Idle, Phases, Outcomes
  <2>3. call' = [call EXCEPT ![e] = rec] BY DEF Begin
  <2>4. CallsOK' BY <2>2, <2>3, CallMoves
  <2> QED BY <2>1, <2>4, UnchangedBroker, UnchangedAudit, UnchangedRest DEF Begin
<1>2. CASE Deny(e)
  <2> DEFINE a == call[e].approval
             new == [snap[e] EXCEPT !.executions = IF Len(@) < MaxExecutions
                                     THEN Append(@, execution(a, "denied")) ELSE @]
  <2>1. Put(e, new) /\ call[e].phase = "loaded" BY <1>2 DEF Deny
  <2>2. a \in Approvals BY <2>1 DEF CallsOK, BusyHasApproval
  <2>3. snap[e] \in CaseDoc BY <2>1, <1>a, WriterHoldsDoc
  <2>4. new \in CaseDoc BY <2>2, <2>3, DeniedDoc
  <2>5. DocInv' BY <2>1, <2>4, <1>a, PutKeepsDocInv
  <2> QED BY <1>2, <2>5, CallEnds, UnchangedBroker, UnchangedAudit, UnchangedRest DEF Deny
<1>3. CASE Claim(e)
  <2> DEFINE a == call[e].approval
             new == [snap[e] EXCEPT !.executions          = Append(@, execution(a, "claiming")),
                                    !.approvals[a].status = "CLAIMING",
                                    !.state               = "EXECUTING"]
  <2>1. Put(e, new) /\ call[e].phase = "loaded" BY <1>3 DEF Claim
  <2>2. a \in Approvals BY <2>1 DEF CallsOK, BusyHasApproval
  <2>3. snap[e] \in CaseDoc BY <2>1, <1>a, WriterHoldsDoc
  <2>4. new \in CaseDoc BY <2>2, <2>3, ClaimedDoc
  <2>5. DocInv' BY <2>1, <2>4, <1>a, PutKeepsDocInv
  <2>6. Len(snap[e].executions) + 1 \in Nat BY <2>3 DEF CaseDoc
  <2>7. CallsOK' BY <1>3, <2>1, <2>6, CallStartsSend DEF Claim
  <2> QED BY <1>3, <2>5, <2>7, UnchangedBroker, UnchangedAudit, UnchangedRest DEF Claim
<1>4. CASE Resume(e)
  <2> DEFINE i == newest(claims(snap[e], call[e].approval))
  <2>1. Put(e, snap[e]) /\ call[e].phase = "loaded" /\ i \in expired /\ StartSend(e, i)
    BY <1>4 DEF Resume
  <2>2. snap[e] \in CaseDoc BY <2>1, <1>a, WriterHoldsDoc
  <2>3. DocInv' BY <2>1, <2>2, <1>a, PutKeepsDocInv
  <2>4. CallsOK' BY <2>1, CallStartsSend DEF RestOK
  <2>5. RestOK' BY <1>4 DEF Resume, RestOK
  <2> QED BY <1>4, <2>3, <2>4, <2>5, UnchangedBroker, UnchangedAudit DEF Resume
<1>5. CASE LeaseRefused(e)
  BY <1>5, <1>a, DropKeepsDocInv, CallEnds, UnchangedBroker, UnchangedAudit, UnchangedRest
     DEF LeaseRefused
<1>6. CASE Conflict(e)
  BY <1>6, <1>a, DropKeepsDocInv, CallEnds, UnchangedBroker, UnchangedAudit, UnchangedRest
     DEF Conflict
<1> QED BY <1>1, <1>2, <1>3, <1>4, <1>5, <1>6 DEF ClaimStep

LEMMA RowsAreRows == ASSUME AuditOK, NEW a \in Approvals, NEW r \in rows(a)
                     PROVE  r \in trail /\ r.message \in Nat /\ r.approval = a
BY DEF AuditOK, rows, Row

LEMMA PublishRowTyped == ASSUME NEW a \in Approvals, NEW m \in Nat \cup {NoMessage}
                         PROVE  publish_row(a, m) \in Row
BY DEF publish_row, Row

LEMMA AuditOnceTyped == ASSUME AuditOK, NEW new \in SUBSET Row PROVE AuditOnce(new) \subseteq Row
BY DEF AuditOK, AuditOnce

LEMMA LedgerRowsTyped ==
  ASSUME NEW batch \in SUBSET Message, NEW new \in settled(batch) PROVE new \in SUBSET Row
<1>1. \A m \in batch : publish_row(m.approval, m.id) \in Row BY DEF Message, publish_row, Row
<1> QED BY <1>1 DEF settled

LEMMA EarlierReceiptTyped ==
  ASSUME CallsOK, AuditOK, NEW e \in Executors, call[e].phase # "idle", UseEarlier(e)
  PROVE  CallsOK'
<1>1. call[e].approval \in Approvals BY DEF CallsOK, BusyHasApproval
<1>2. PICK r \in rows(call[e].approval) : Receipt(e, "done", r.message) BY DEF UseEarlier
<1>3. r.message \in Nat BY <1>1, RowsAreRows
<1> QED BY <1>2, <1>3, CallHasReceipt DEF Outcomes

LEMMA BrokerAcceptsTyped ==
  ASSUME BrokerOK, NEW m \in inflight, BrokerAccepts(m) PROVE BrokerOK'
BY DEF BrokerOK, BrokerAccepts

LEMMA BrokerLosesTyped ==
  ASSUME BrokerOK, NEW m, BrokerLoses(m) PROVE BrokerOK'
BY DEF BrokerOK, BrokerLoses

LEMMA AbandonedTyped ==
  ASSUME BrokerOK, NEW m \in inflight, Abandoned(m) PROVE BrokerOK'
BY BrokerAcceptsTyped, BrokerLosesTyped, UnchangedBroker DEF Abandoned

LEMMA SendStepTyped ==
  ASSUME TypeInv, NEW e \in Executors, SendStep(e)
  PROVE  TypeInv'
<1> USE DEF TypeInv
<1> DEFINE a == call[e].approval
<1>a. /\ call[e].phase # "idle" => a \in Approvals
      /\ call[e].message \in Nat \cup {NoMessage}
  BY DEF CallsOK, BusyHasApproval, CallRec
<1>b. {"lookup", "ledger", "relookup", "publish", "save", "append"} \subseteq Phases
  BY DEF Phases, Sending
<1>c. {"none", "done", "unsaved", "unknown", "failed"} \subseteq Outcomes BY DEF Outcomes
<1>d. outgoing(e) \subseteq inflight BY DEF outgoing
<1>1. CASE Tool(e)
  <2>1. CallsOK' BY <1>1, <1>b, CallGoesTo DEF Tool
  <2>2. AuditOK' BY <1>1, <1>a DEF Tool, AuditOK
  <2> QED BY <1>1, <2>1, <2>2, UnchangedDoc, UnchangedBroker, UnchangedRest DEF Tool
<1>2. CASE StoreFails(e)
  <2>1. CallsOK' BY <1>2, <1>c, CallHasReceipt DEF StoreFails
  <2> QED BY <1>2, <2>1, UnchangedDoc, UnchangedBroker, UnchangedAudit, UnchangedRest DEF StoreFails
<1>3. CASE Lookup(e)
  <2>1. CASE UseEarlier(e) BY <1>3, <2>1, EarlierReceiptTyped, UnchangedDoc, UnchangedBroker,
                              UnchangedAudit, UnchangedRest DEF Lookup
  <2>2. CASE ~UseEarlier(e)
    <3>1. PICK phase \in {"ledger", "publish"} : Goto(e, phase) BY <1>3, <2>2 DEF Lookup
    <3>2. CallsOK' BY <1>3, <1>b, <3>1, CallGoesTo DEF Lookup
    <3> QED BY <1>3, <3>2, UnchangedDoc, UnchangedBroker, UnchangedAudit, UnchangedRest DEF Lookup
  <2> QED BY <2>1, <2>2
<1>4. CASE Settle(e)
  <2> PICK batch \in SUBSET ledger :
         /\ \E new \in settled(batch) : trail' = AuditOnce(new)
         /\ ledger' = ledger \ batch
    BY <1>4 DEF Settle
  <2> PICK new \in settled(batch) : trail' = AuditOnce(new) OBVIOUS
  <2>1. batch \in SUBSET Message BY DEF BrokerOK
  <2>2. trail' \subseteq Row BY <2>1, LedgerRowsTyped, AuditOnceTyped
  <2>3. AuditOK' BY <1>4, <2>2 DEF Settle, AuditOK
  <2>4. BrokerOK' BY <1>4 DEF Settle, BrokerOK
  <2>5. CallsOK' BY <1>4, <1>b, CallGoesTo DEF Settle
  <2> QED BY <1>4, <2>3, <2>4, <2>5, UnchangedDoc, UnchangedRest DEF Settle
<1>5. CASE LedgerUnreadable(e)
  <2> PICK batch \in SUBSET ledger : \E new \in settled(batch) : trail' = AuditOnce(new)
    BY <1>5 DEF LedgerUnreadable
  <2> PICK new \in settled(batch) : trail' = AuditOnce(new) OBVIOUS
  <2>1. batch \in SUBSET Message BY DEF BrokerOK
  <2>2. trail' \subseteq Row BY <2>1, LedgerRowsTyped, AuditOnceTyped
  <2>3. AuditOK' BY <1>5, <2>2 DEF LedgerUnreadable, AuditOK
  <2>4. PICK outcome \in {"unknown", "none"} : Receipt(e, outcome, NoMessage)
    BY <1>5 DEF LedgerUnreadable
  <2>5. CallsOK' BY <1>5, <2>4, <1>c, CallHasReceipt DEF LedgerUnreadable
  <2> QED BY <1>5, <2>3, <2>5, UnchangedDoc, UnchangedBroker, UnchangedRest DEF LedgerUnreadable
<1>6. CASE Relookup(e)
  <2>1. CASE UseEarlier(e) BY <1>6, <2>1, EarlierReceiptTyped, UnchangedDoc, UnchangedBroker,
                              UnchangedAudit, UnchangedRest DEF Relookup
  <2>2. CASE Goto(e, "publish") BY <1>6, <2>2, <1>b, CallGoesTo, UnchangedDoc, UnchangedBroker,
                                   UnchangedAudit, UnchangedRest DEF Relookup
  <2> QED BY <1>6, <2>1, <2>2 DEF Relookup
<1>7. CASE Submit(e)
  <2> DEFINE rec == [call[e] EXCEPT !.phase = "sending", !.message = submitted + 1]
  <2>1. a \in Approvals /\ submitted \in Nat BY <1>7, <1>a DEF Submit, BrokerOK
  <2>0. call[e] \in CallRec /\ submitted + 1 \in Nat BY <2>1 DEF CallsOK
  <2>2. rec \in CallRec /\ rec.approval = a BY <2>0 DEF CallRec, Phases, Sending
  <2>3. call' = [call EXCEPT ![e] = rec] BY <1>7 DEF Submit
  <2>4. CallsOK' BY <2>1, <2>2, <2>3, CallMoves
  <2>5. [id |-> submitted + 1, approval |-> a] \in Message BY <2>1 DEF Message
  <2>6. BrokerOK' BY <1>7, <2>1, <2>5 DEF Submit, BrokerOK
  <2> QED BY <1>7, <2>4, <2>6, UnchangedDoc, UnchangedAudit, UnchangedRest DEF Submit
<1>8. CASE Accepted(e)
  <2>1. CallsOK' BY <1>8, <1>b, CallGoesTo DEF Accepted
  <2>2. BrokerOK' BY <1>8, <1>d, BrokerAcceptsTyped DEF Accepted
  <2> QED BY <1>8, <2>1, <2>2, UnchangedDoc, UnchangedAudit, UnchangedRest DEF Accepted
<1>9. CASE TimedOut(e)
  <2>1. PICK outcome \in {"unknown", "none"} :
          call' = [call EXCEPT ![e].phase = "confirm", ![e].outcome = outcome,
                               ![e].message = NoMessage, ![e].timed = TRUE]
    BY <1>9 DEF TimedOut
  <2> DEFINE rec == [call[e] EXCEPT !.phase = "confirm", !.outcome = outcome,
                                    !.message = NoMessage, !.timed = TRUE]
  <2>2. rec \in CallRec /\ rec.approval = a BY <1>c DEF CallsOK, CallRec, Phases, Sending
  <2>3. call' = [call EXCEPT ![e] = rec] BY <2>1
  <2>4. CallsOK' BY <1>9, <1>a, <2>2, <2>3, CallMoves DEF TimedOut
  <2>5. BrokerOK' BY <1>9, <1>d, AbandonedTyped DEF TimedOut
  <2> QED BY <1>9, <2>4, <2>5, UnchangedDoc, UnchangedAudit, UnchangedRest DEF TimedOut
<1>10. CASE Rejected(e)
  <2>1. CallsOK' BY <1>10, <1>c, CallHasReceipt DEF Rejected
  <2>2. BrokerOK' BY <1>10, BrokerLosesTyped DEF Rejected
  <2> QED BY <1>10, <2>1, <2>2, UnchangedDoc, UnchangedAudit, UnchangedRest DEF Rejected
<1>11. CASE SaveLookup(e)
  <2>1. CASE UseEarlier(e) BY <1>11, <2>1, EarlierReceiptTyped, UnchangedDoc, UnchangedBroker,
                              UnchangedAudit, UnchangedRest DEF SaveLookup
  <2>2. CASE Goto(e, "append") BY <1>11, <2>2, <1>b, CallGoesTo, UnchangedDoc, UnchangedBroker,
                                  UnchangedAudit, UnchangedRest DEF SaveLookup
  <2> QED BY <1>11, <2>1, <2>2 DEF SaveLookup
<1>12. CASE Save(e)
  <2>1. a \in Approvals /\ call[e].phase # "idle" BY <1>12, <1>a DEF Save
  <2>2. trail' \subseteq Row
    BY <1>12, <1>a, <2>1, PublishRowTyped, AuditOnceTyped DEF Save
  <2>3. AuditOK' BY <1>12, <2>2 DEF Save, AuditOK
  <2>4. PICK m \in Nat \cup {NoMessage} : Receipt(e, "done", m)
    BY <1>12, <1>a, <2>2 DEF Save, Row
  <2>5. CallsOK' BY <1>c, <2>1, <2>4, CallHasReceipt
  <2> QED BY <1>12, <2>3, <2>5, UnchangedDoc, UnchangedBroker, UnchangedRest DEF Save
<1>13. CASE SaveFails(e)
  <2>1. CallsOK' BY <1>13, <1>a, <1>c, CallHasReceipt DEF SaveFails
  <2> QED BY <1>13, <2>1, UnchangedDoc, UnchangedBroker, UnchangedAudit, UnchangedRest DEF SaveFails
<1> QED BY <1>1, <1>2, <1>3, <1>4, <1>5, <1>6, <1>7, <1>8, <1>9, <1>10, <1>11, <1>12, <1>13
        DEF SendStep

\* Replacing one execution leaves a list of executions.
LEMMA OneReplaced ==
  ASSUME NEW s \in Seq(ExecutionRec), NEW i, NEW x, i \in DOMAIN s => x \in ExecutionRec
  PROVE  [s EXCEPT ![i] = x] \in Seq(ExecutionRec)
<1>1. CASE i \in DOMAIN s BY <1>1, ExceptSeq
<1>2. CASE i \notin DOMAIN s
  <2>1. [s EXCEPT ![i] = x] = s BY <1>2
  <2> QED BY <2>1
<1> QED BY <1>1, <1>2

LEMMA ConfirmedDoc ==
  ASSUME TypeInv, NEW d \in CaseDoc, NEW e \in Executors
  PROVE  confirmed(d, e) \in CaseDoc
<1> DEFINE a == call[e].approval
           i == call[e].exe
           m == call[e].message
<1>1. /\ d.executions \in Seq(ExecutionRec)
      /\ d.approvals \in [Approvals -> ApprovalRec]
      /\ m \in Nat \cup {NoMessage}
      /\ d.auditPending \in BOOLEAN
  BY DEF CaseDoc, TypeInv, CallsOK, CallRec
<1>2. /\ outcome_of(d, a) \in CaseStates
      /\ "EXECUTION_FAILED" \in CaseStates
  BY DEF outcome_of, CaseStates, InExecution, Executed
<1>3. CASE published(e)
  <2> DEFINE was == d.executions[i]
             x   == [was EXCEPT !.status = "sent", !.message = m,
                                !.pending = was.pending \/ call[e].outcome = "unsaved"]
             exe == [d.executions EXCEPT ![i] = x]
             apr == [d.approvals EXCEPT ![a].status = "EXECUTED"]
             pnd == d.auditPending \/ call[e].outcome = "unsaved"
  <2>1. exe \in Seq(ExecutionRec)
    <3>1. i \in DOMAIN d.executions => was \in ExecutionRec BY <1>1
    <3>2. i \in DOMAIN d.executions => x \in ExecutionRec BY <1>1, <3>1 DEF ExecutionRec
    <3> HIDE DEF x
    <3> QED BY <1>1, <3>2, OneReplaced
  <2>2. apr \in [Approvals -> ApprovalRec] BY <1>1 DEF ApprovalRec
  <2>3. pnd \in BOOLEAN OBVIOUS
  <2>4. confirmed(d, e) = [d EXCEPT !.executions = exe, !.approvals = apr,
                                    !.state = outcome_of(d, a), !.auditPending = pnd]
    BY <1>3 DEF confirmed, CaseDoc
  <2> HIDE DEF was, x, exe, apr, pnd
  <2> QED BY <1>2, <2>1, <2>2, <2>3, <2>4 DEF CaseDoc
<1>4. CASE ~published(e)
  <2> DEFINE st  == IF call[e].outcome = "unknown" THEN "send_unknown" ELSE "send_failed"
             exe == [d.executions EXCEPT ![i] = [@ EXCEPT !.status = st, !.message = NoMessage]]
             apr == [d.approvals EXCEPT ![a].status = "VALID"]
  <2>1. exe \in Seq(ExecutionRec)
    <3>1. i \in DOMAIN d.executions => d.executions[i] \in ExecutionRec BY <1>1
    <3>2. i \in DOMAIN d.executions =>
            [d.executions[i] EXCEPT !.status = st, !.message = NoMessage] \in ExecutionRec
      BY <1>1, <3>1 DEF ExecutionRec
    <3> QED BY <1>1, <3>2, OneReplaced
  <2>2. apr \in [Approvals -> ApprovalRec] BY <1>1 DEF ApprovalRec
  <2>3. confirmed(d, e) = [d EXCEPT !.executions = exe, !.approvals = apr,
                                    !.state = "EXECUTION_FAILED"]
    BY <1>4 DEF confirmed, CaseDoc
  <2> HIDE DEF exe, apr
  <2> QED BY <1>2, <2>1, <2>2, <2>3 DEF CaseDoc
<1> QED BY <1>3, <1>4

LEMMA ClearedDoc ==
  ASSUME NEW d \in CaseDoc, NEW i \in Nat PROVE cleared(d, i) \in CaseDoc
<1> DEFINE exe == [d.executions EXCEPT ![i] = [@ EXCEPT !.pending = FALSE]]
           pnd == \E j \in DOMAIN d.executions : j # i /\ d.executions[j].pending
<1>1. d.executions \in Seq(ExecutionRec) BY DEF CaseDoc
<1>2. exe \in Seq(ExecutionRec)
  <2>1. i \in DOMAIN d.executions => d.executions[i] \in ExecutionRec BY <1>1
  <2>2. i \in DOMAIN d.executions =>
          [d.executions[i] EXCEPT !.pending = FALSE] \in ExecutionRec
    BY <2>1 DEF ExecutionRec
  <2> QED BY <1>1, <2>2, OneReplaced
<1>3. pnd \in BOOLEAN OBVIOUS
<1>4. cleared(d, i) = [d EXCEPT !.executions = exe, !.auditPending = pnd]
  BY DEF cleared, CaseDoc
<1> HIDE DEF exe, pnd
<1> QED BY <1>2, <1>3, <1>4 DEF CaseDoc

LEMMA ConfirmStepTyped ==
  ASSUME TypeInv, NEW e \in Executors, ConfirmStep(e)
  PROVE  TypeInv'
<1> USE DEF TypeInv
<1>a. e \in Calls BY ExecutorsAreCalls
<1>1. CASE Reread(e)
  <2>1. CallsOK' BY <1>1, CallGoesTo DEF Reread, Phases, Sending
  <2> QED BY <1>1, <1>a, <2>1, GetKeepsDocInv, UnchangedBroker, UnchangedAudit, UnchangedRest
          DEF Reread
<1>2. CASE Confirm(e)
  <2>1. Put(e, confirmed(snap[e], e)) BY <1>2 DEF Confirm
  <2>2. snap[e] \in CaseDoc BY <2>1, <1>a, WriterHoldsDoc
  <2>3. confirmed(snap[e], e) \in CaseDoc BY <2>2, ConfirmedDoc
  <2>4. DocInv' BY <1>a, <2>1, <2>3, PutKeepsDocInv
  <2> QED BY <1>2, <2>4, CallEnds, UnchangedBroker, UnchangedAudit, UnchangedRest DEF Confirm
<1> QED BY <1>1, <1>2 DEF ConfirmStep

LEMMA ReconcileTyped ==
  ASSUME TypeInv, NEW e \in Executors, Reconcile(e)
  PROVE  TypeInv'
<1> USE DEF TypeInv
<1>a. e \in Calls BY ExecutorsAreCalls
<1>1. CASE ReconcileBegin(e)
  <2>1. PICK i \in DOMAIN doc.executions :
          call' = [call EXCEPT ![e] = [Idle EXCEPT
                    !.phase = "reconcile", !.exe = i,
                    !.approval = doc.executions[i].approval,
                    !.message  = doc.executions[i].message]]
    BY <1>1 DEF ReconcileBegin
  <2>2. doc.executions \in Seq(ExecutionRec) BY DEF DocInv, DocTypeOK, CaseDoc
  <2>3. i \in Nat /\ doc.executions[i] \in ExecutionRec BY <2>2
  <2> DEFINE rec == [Idle EXCEPT !.phase = "reconcile", !.exe = i,
                                 !.approval = doc.executions[i].approval,
                                 !.message  = doc.executions[i].message]
  <2>4. rec \in CallRec /\ rec.approval \in Approvals
    BY <2>3 DEF CallRec, ExecutionRec, Idle, Phases, Outcomes
  <2>5. CallsOK' BY <2>1, <2>4, CallMoves
  <2> QED BY <1>1, <1>a, <2>5, GetKeepsDocInv, UnchangedBroker, UnchangedAudit, UnchangedRest
          DEF ReconcileBegin
<1>2. CASE ReconcileRow(e)
  <2>1. call[e].approval \in Approvals /\ call[e].message \in Nat \cup {NoMessage}
    BY <1>2 DEF ReconcileRow, CallsOK, BusyHasApproval, CallRec
  <2>2. trail' \subseteq Row
    BY <1>2, <2>1, PublishRowTyped, AuditOnceTyped DEF ReconcileRow, AuditOK
  <2>3. AuditOK' BY <1>2, <2>2 DEF ReconcileRow, AuditOK
  <2>4. CallsOK' BY <1>2, CallGoesTo DEF ReconcileRow, Phases
  <2> QED BY <1>2, <2>3, <2>4, UnchangedDoc, UnchangedBroker, UnchangedRest DEF ReconcileRow
<1>3. CASE ReconcileClear(e)
  <2>1. Put(e, cleared(snap[e], call[e].exe)) BY <1>3 DEF ReconcileClear
  <2>2. snap[e] \in CaseDoc BY <2>1, <1>a, WriterHoldsDoc
  <2>3. call[e].exe \in Nat BY DEF CallsOK, CallRec
  <2>4. DocInv' BY <1>a, <2>1, <2>2, <2>3, ClearedDoc, PutKeepsDocInv
  <2> QED BY <1>3, <2>4, CallEnds, UnchangedBroker, UnchangedAudit, UnchangedRest
          DEF ReconcileClear
<1>4. CASE ReconcileFails(e)
  BY <1>4, <1>a, DropKeepsDocInv, CallEnds, UnchangedBroker, UnchangedAudit, UnchangedRest
     DEF ReconcileFails
<1> QED BY <1>1, <1>2, <1>3, <1>4 DEF Reconcile

-----------------------------------------------------------------------------
(* One step of the environment.                                             *)

LEMMA EnvironmentTyped ==
  ASSUME TypeInv,
         \/ \E e \in Executors : Crash(e)
         \/ \E i \in 1..MaxExecutions : LeaseExpires(i)
         \/ \E m \in inflight : Straggler(m)
         \/ \E m \in pushed : Deliver(m)
  PROVE  TypeInv'
<1> USE DEF TypeInv
<1>1. ASSUME NEW e \in Executors, Crash(e) PROVE TypeInv'
  <2>1. e \in Calls BY ExecutorsAreCalls
  <2>2. BrokerOK' BY <1>1, AbandonedTyped, UnchangedBroker DEF Crash, outgoing
  <2> QED BY <1>1, <2>1, <2>2, DropKeepsDocInv, CallEnds, UnchangedAudit, UnchangedRest DEF Crash
<1>2. ASSUME NEW i \in 1..MaxExecutions, LeaseExpires(i) PROVE TypeInv'
  <2>1. RestOK' BY <1>2, BoundsAreNumbers DEF LeaseExpires, RestOK
  <2>2. CallsOK' BY <1>2 DEF LeaseExpires, CallsOK, BusyHasApproval
  <2> QED BY <1>2, <2>1, <2>2, UnchangedDoc, UnchangedBroker, UnchangedAudit DEF LeaseExpires
<1>3. ASSUME NEW m \in inflight, Straggler(m) PROVE TypeInv'
  <2>1. CallsOK' BY <1>3 DEF Straggler, CallsOK, BusyHasApproval
  <2> QED BY <1>3, <2>1, BrokerAcceptsTyped, BrokerLosesTyped, UnchangedDoc, UnchangedAudit,
             UnchangedRest DEF Straggler
<1>4. ASSUME NEW m \in pushed, Deliver(m) PROVE TypeInv'
  <2>1. m.id \in Nat /\ m.approval \in Approvals BY DEF BrokerOK, Message
  <2>2. RestOK' BY <1>4, <2>1 DEF Deliver, RestOK
  <2>3. BrokerOK' BY <1>4 DEF Deliver, BrokerOK
  <2>4. CallsOK' BY <1>4 DEF Deliver, CallsOK, BusyHasApproval
  <2> QED BY <1>4, <2>2, <2>3, <2>4, UnchangedDoc, UnchangedAudit DEF Deliver
<1> QED BY <1>1, <1>2, <1>3, <1>4

-----------------------------------------------------------------------------

LEMMA InitTyped == Init => TypeInv
<1> SUFFICES ASSUME Init PROVE TypeInv OBVIOUS
<1>1. DocInv
  <2>1. PICK actionOf \in [Approvals -> Actions] : doc = ApprovedDoc(actionOf) BY DEF Init
  <2>2. [r \in Requests |-> NoRequest] \in [Requests -> RequestRec]
    BY DEF NoRequest, RequestRec
  <2>3. [a \in Approvals |-> [status |-> "VALID", action |-> actionOf[a], version |-> 0,
                              waiver |-> FALSE]] \in [Approvals -> ApprovalRec]
    BY DEF ApprovalRec
  <2>4. <<>> \in Seq(ExecutionRec) OBVIOUS
  <2>5. [version |-> 0, status |-> "missing"] \in EvaluationRec BY DEF EvaluationRec
  <2>6. doc \in CaseDoc
    BY <2>1, <2>2, <2>3, <2>4, <2>5 DEF ApprovedDoc, CaseDoc, CaseStates
  <2> QED BY <2>6 DEF DocInv, DocTypeOK, FreshCopyIsCurrent, Init
<1>2. CallsOK
  BY DEF Init, ExecInit, CallsOK, BusyHasApproval, Idle, CallRec, Phases, Outcomes
<1>3. BrokerOK /\ AuditOK /\ RestOK BY DEF Init, ExecInit, BrokerOK, AuditOK, RestOK
<1> QED BY <1>1, <1>2, <1>3 DEF TypeInv

LEMMA NextTyped == TypeInv /\ [Next]_vars => TypeInv'
<1> SUFFICES ASSUME TypeInv, [Next]_vars PROVE TypeInv' OBVIOUS
<1>1. CASE UNCHANGED vars
  BY <1>1, UnchangedDoc, UnchangedBroker, UnchangedAudit, UnchangedRest
     DEF TypeInv, vars, execVars, CallsOK, BusyHasApproval
<1>2. CASE ExecNext
  BY <1>2, ClaimStepTyped, SendStepTyped, ConfirmStepTyped, ReconcileTyped, EnvironmentTyped
     DEF ExecNext
<1> QED BY <1>1, <1>2 DEF Next

\* Every variable keeps its type, and what may be written back is the stored case,
\* through every interleaving of handlers, crashes and lost messages.
THEOREM Typed == Spec => []TypeInv
BY InitTyped, NextTyped, PTL DEF Spec

THEOREM TypeCorrect == Spec => []TypeOK
BY Typed, TypeInvIsTyped, PTL

-----------------------------------------------------------------------------
(* Under any faults.  T, I, d and n stand for topic, inflight, doc and      *)
(* submitted, k for the record of one call.                                 *)

On(T, m, a) == \E x \in T : x.id = m /\ x.approval = a

Attempted(d, i, a) == /\ i \in DOMAIN d.executions
                      /\ d.executions[i].approval = a
                      /\ d.executions[i].status # "denied"

\* What a call knows of the broker is true, and the execution it works on is
\* on the case.
Knows(k, T) ==
  /\ k.phase \in {"save", "append"} => On(T, k.message, k.approval)
  /\ k.phase \in {"confirm", "confirming"} /\ k.outcome \in {"done", "unsaved"} =>
       On(T, k.message, k.approval)
  /\ k.phase = "reconcile" /\ k.message # NoMessage => On(T, k.message, k.approval)

Sends(k, I, n) == k.phase = "sending" =>
  /\ k.message \in Nat /\ k.message <= n
  /\ \A m \in I : m.id = k.message => m.approval = k.approval

Works(k, d) == k.phase \in Sending => Attempted(d, k.exe, k.approval)

CallSound(k, T, I, d, n) == Knows(k, T) /\ Sends(k, I, n) /\ Works(k, d)

DocSound(d, T) ==
  /\ \A i \in DOMAIN d.executions :
       /\ d.executions[i].status = "sent" => d.executions[i].message # NoMessage
       /\ d.executions[i].message # NoMessage =>
            On(T, d.executions[i].message, d.executions[i].approval)
  /\ \A a \in Approvals : d.approvals[a].status \in {"VALID", "CLAIMING", "EXECUTED"}

TrailSound(tr, T) ==
  /\ \A r \in tr : /\ r.audit_id = r.approval
                   /\ r.message # NoMessage => On(T, r.message, r.approval)
  /\ \A r, q \in tr : r.approval = q.approval => r = q

BrokerSound(T, I, L, P, d, n) ==
  /\ L \subseteq T /\ P \subseteq T
  /\ \A m \in I \cup T : \E i \in DOMAIN d.executions : Attempted(d, i, m.approval)
  /\ \A m \in I : m.id <= n

CallsSound == \A e \in Executors : CallSound(call[e], topic, inflight, doc, submitted)

SoundInv == /\ TypeInv
            /\ CallsSound
            /\ DocSound(doc, topic)
            /\ TrailSound(trail, topic)
            /\ BrokerSound(topic, inflight, ledger, pushed, doc, submitted)


-----------------------------------------------------------------------------
(* How those facts carry over a step.                                       *)

Extends(d, n) == \A i, a : Attempted(d, i, a) => Attempted(n, i, a)

LEMMA OnStays == ASSUME NEW T, NEW T2, T \subseteq T2, NEW m, NEW a, On(T, m, a)
                 PROVE  On(T2, m, a)
BY DEF On

LEMMA CallStaysSound ==
  ASSUME NEW k, NEW T, NEW T2, NEW I, NEW I2, NEW d, NEW d2, NEW n \in Nat, NEW n2 \in Nat,
         CallSound(k, T, I, d, n), T \subseteq T2, n <= n2, Extends(d, d2),
         \A m \in I2 : m \in I \/ m.id > n
  PROVE  CallSound(k, T2, I2, d2, n2)
<1>1. Knows(k, T2) BY OnStays DEF CallSound, Knows
<1>2. Sends(k, I2, n2) BY DEF CallSound, Sends
<1>3. Works(k, d2) BY DEF CallSound, Works, Extends
<1> QED BY <1>1, <1>2, <1>3 DEF CallSound

LEMMA DocStaysSound ==
  ASSUME NEW d, NEW T, NEW T2, T \subseteq T2, DocSound(d, T) PROVE DocSound(d, T2)
BY OnStays DEF DocSound

LEMMA TrailStaysSound ==
  ASSUME NEW tr, NEW T, NEW T2, T \subseteq T2, TrailSound(tr, T) PROVE TrailSound(tr, T2)
BY OnStays DEF TrailSound

LEMMA SameExtends == \A d : Extends(d, d)
BY DEF Extends

\* A step of one call that leaves broker, trail and case alone.
LEMMA QuietStep ==
  ASSUME SoundInv, TypeInv', NEW e \in Executors,
         \A f \in Executors : f # e => call'[f] = call[f],
         CallSound(call'[e], topic, inflight, doc, submitted),
         UNCHANGED <<brokerVars, trail, doc>>
  PROVE  SoundInv'
BY DEF SoundInv, CallsSound, brokerVars

\* A step of one call that writes the case.
LEMMA WritingStep ==
  ASSUME SoundInv, TypeInv', NEW e \in Executors,
         \A f \in Executors : f # e => call'[f] = call[f],
         Extends(doc, doc'), DocSound(doc', topic),
         CallSound(call'[e], topic, inflight, doc', submitted),
         UNCHANGED <<brokerVars, trail>>
  PROVE  SoundInv'
<1>1. /\ UNCHANGED <<topic, inflight, ledger, pushed, submitted>>
      /\ submitted \in Nat
  BY DEF brokerVars, SoundInv, TypeInv, BrokerOK
<1>2. ASSUME NEW f \in Executors, f # e PROVE CallSound(call[f], topic, inflight, doc', submitted)
  BY <1>1, CallStaysSound DEF SoundInv, CallsSound
<1>3. CallsSound' BY <1>1, <1>2 DEF CallsSound
<1>4. BrokerSound(topic, inflight, ledger, pushed, doc', submitted)
  BY DEF SoundInv, BrokerSound, Extends, Attempted
<1> QED BY <1>1, <1>3, <1>4 DEF SoundInv

\* A step of one call that writes the trail and may acknowledge the ledger.
LEMMA BookingStep ==
  ASSUME SoundInv, TypeInv', NEW e \in Executors,
         \A f \in Executors : f # e => call'[f] = call[f],
         ledger' \subseteq ledger, TrailSound(trail', topic),
         CallSound(call'[e], topic, inflight, doc, submitted),
         UNCHANGED <<submitted, inflight, topic, pushed, doc>>
  PROVE  SoundInv'
BY DEF SoundInv, CallsSound, BrokerSound

\* What happens at the broker: messages are handed over, accepted or lost.
LEMMA BrokerStep ==
  ASSUME SoundInv, TypeInv',
         NEW E \in SUBSET Executors,
         \A f \in Executors \ E : call'[f] = call[f],
         \A f \in E : CallSound(call'[f], topic', inflight', doc, submitted'),
         topic \subseteq topic', topic' \subseteq topic \cup inflight,
         ledger' \subseteq ledger \cup topic', pushed' \subseteq pushed \cup topic',
         submitted <= submitted',
         \A m \in inflight' \ inflight : /\ m.id > submitted /\ m.id <= submitted'
                                         /\ \E i \in DOMAIN doc.executions :
                                              Attempted(doc, i, m.approval),
         UNCHANGED <<trail, doc>>
  PROVE  SoundInv'
<1>1. submitted \in Nat /\ submitted' \in Nat BY DEF SoundInv, TypeInv, BrokerOK
<1>2. ASSUME NEW f \in Executors \ E PROVE CallSound(call[f], topic', inflight', doc, submitted')
  BY <1>1, CallStaysSound, SameExtends DEF SoundInv, CallsSound
<1>3. CallsSound' BY <1>2 DEF CallsSound
<1>4. BrokerSound(topic', inflight', ledger', pushed', doc, submitted')
  <2>1. \A m \in inflight' : m.id <= submitted'
    <3>1. \A m \in inflight : m.id \in Nat /\ m.id <= submitted
      BY DEF SoundInv, TypeInv, BrokerOK, Message, BrokerSound
    <3> QED BY <1>1, <3>1
  <2> QED BY <2>1 DEF SoundInv, BrokerSound
<1> QED BY <1>3, <1>4, DocStaysSound, TrailStaysSound DEF SoundInv

\* A message that was handed over is accepted, or lost, or still on its way.
LEMMA BrokerTakes ==
  ASSUME SoundInv, TypeInv', NEW e \in Executors,
         \A f \in Executors \ {e} : call'[f] = call[f],
         CallSound(call'[e], topic', inflight', doc, submitted'),
         NEW m \in inflight, BrokerAccepts(m) \/ BrokerLoses(m) \/ UNCHANGED brokerVars,
         UNCHANGED <<trail, doc>>
  PROVE  SoundInv'
<1>1. /\ topic \subseteq topic' /\ topic' \subseteq topic \cup inflight
      /\ ledger' \subseteq ledger \cup topic' /\ pushed' \subseteq pushed \cup topic'
      /\ inflight' \ inflight = {} /\ submitted' = submitted
  BY DEF BrokerAccepts, BrokerLoses, brokerVars
<1>2. submitted <= submitted' BY <1>1 DEF SoundInv, TypeInv, BrokerOK
<1> DEFINE E == {e}
<1>3. E \in SUBSET Executors /\ \A f \in Executors \ E : call'[f] = call[f] OBVIOUS
<1>4. \A f \in E : CallSound(call'[f], topic', inflight', doc, submitted') OBVIOUS
<1> HIDE DEF E
<1> QED BY <1>1, <1>2, <1>3, <1>4, BrokerStep

-----------------------------------------------------------------------------
(* The entries of a case.                                                   *)

\* Of finitely many executions one is the newest.
LEMMA FiniteHasLargest ==
  ASSUME NEW S \in SUBSET Nat, NEW n \in Nat, \A s \in S : s <= n, S # {}
  PROVE  \E x \in S : \A y \in S : y <= x
<1> DEFINE Above(v) == {z \in S : v <= z}
           Family   == {Above(v) : v \in S}
<1>1. IsFiniteSet(S) BY FS_BoundedSetOfNaturals
<1>2. IsWellFoundedOn(StrictSubsetOrdering(S), SUBSET S)
  BY <1>1, FS_FiniteSubsetsOfFinite, FS_StrictSubsetOrderingWellFounded
<1>3. Family \subseteq SUBSET S /\ Family # {} OBVIOUS
<1>4. PICK U \in Family : \A V \in Family : <<V, U>> \notin StrictSubsetOrdering(S)
  <2> HIDE DEF Family
  <2> QED BY <1>2, <1>3, WFMin
<1>5. PICK x \in S : U = Above(x) OBVIOUS
<1>6. ASSUME NEW y \in S, ~(y <= x) PROVE FALSE
  <2>0. x \in Nat /\ y \in Nat /\ x < y /\ \A z \in S : z \in Nat BY <1>6
  <2>1. Above(y) \subseteq Above(x) /\ x \in Above(x) /\ x \notin Above(y)
    <3> HIDE DEF Family
    <3>1. \A z \in Above(y) : z \in S /\ x <= z BY <2>0
    <3>2. x \in Above(x) BY <2>0
    <3>3. x \notin Above(y) BY <2>0
    <3> QED BY <3>1, <3>2, <3>3
  <2>2. Above(y) \in Family /\ Above(x) \in SUBSET S /\ Above(y) \in SUBSET S OBVIOUS
  <2>3. <<Above(y), U>> \in StrictSubsetOrdering(S)
    BY <1>5, <2>1, <2>2 DEF StrictSubsetOrdering
  <2> QED BY <1>4, <2>2, <2>3
<1> QED BY <1>6

LEMMA NewestIsAClaim ==
  ASSUME NEW d \in CaseDoc, NEW a \in Approvals, claims(d, a) # {}
  PROVE  newest(claims(d, a)) \in claims(d, a)
<1>1. d.executions \in Seq(ExecutionRec) BY DEF CaseDoc
<1>2. Len(d.executions) \in Nat /\ DOMAIN d.executions = 1..Len(d.executions) BY <1>1
<1>3. claims(d, a) \subseteq 1..Len(d.executions) BY <1>2 DEF claims
<1>4. claims(d, a) \in SUBSET Nat /\ \A s \in claims(d, a) : s <= Len(d.executions)
  BY <1>2, <1>3
<1>5. \E x \in claims(d, a) : \A y \in claims(d, a) : y <= x
  BY <1>2, <1>4, FiniteHasLargest
<1> QED BY <1>5 DEF newest

LEMMA ClaimIsAttempt ==
  ASSUME NEW d, NEW a, NEW i \in claims(d, a) PROVE Attempted(d, i, a)
BY DEF claims, Attempted

\* One more entry: a claim or a refusal.
LEMMA EntryAdded ==
  ASSUME NEW d \in CaseDoc, NEW T, DocSound(d, T), NEW a \in Approvals,
         NEW st \in {"claiming", "denied"}, NEW n,
         n.executions = Append(d.executions, execution(a, st)),
         \A b \in Approvals : n.approvals[b].status \in {"VALID", "CLAIMING", "EXECUTED"}
  PROVE  /\ Extends(d, n)
         /\ DocSound(n, T)
         /\ st # "denied" => Attempted(n, Len(d.executions) + 1, a)
<1> DEFINE x == execution(a, st)
           k == Len(d.executions)
<1>1. d.executions \in Seq(ExecutionRec) /\ k \in Nat /\ DOMAIN d.executions = 1..k
  BY DEF CaseDoc
<1>2. x \in ExecutionRec /\ x.status = st /\ x.message = NoMessage /\ x.approval = a
  BY DEF execution, ExecutionRec
<1> HIDE DEF x
<1>3. /\ DOMAIN n.executions = 1..(k + 1)
      /\ \A i \in 1..k : n.executions[i] = d.executions[i]
      /\ n.executions[k + 1] = x
  BY <1>1, <1>2 DEF x
<1>4. DOMAIN d.executions \subseteq DOMAIN n.executions BY <1>1, <1>3
<1>5. Extends(d, n) BY <1>1, <1>3, <1>4 DEF Extends, Attempted
<1>6. \A i \in DOMAIN n.executions : i \in DOMAIN d.executions \/ i = k + 1 BY <1>1, <1>3
<1>7. DocSound(n, T) BY <1>1, <1>2, <1>3, <1>6 DEF DocSound
<1>8. Attempted(n, k + 1, a) \/ st = "denied"
  BY <1>1, <1>2, <1>3 DEF Attempted
<1> QED BY <1>5, <1>7, <1>8

\* An entry rewritten in place stays the same attempt.
LEMMA EntryRewritten ==
  ASSUME NEW d, NEW T, DocSound(d, T), NEW i, NEW n,
         DOMAIN n.executions = DOMAIN d.executions,
         \A j \in DOMAIN d.executions : j # i => n.executions[j] = d.executions[j],
         i \in DOMAIN d.executions =>
           /\ n.executions[i].approval = d.executions[i].approval
           /\ n.executions[i].status = "denied" => d.executions[i].status = "denied"
           /\ n.executions[i].status = "sent" => n.executions[i].message # NoMessage
           /\ n.executions[i].message # NoMessage =>
                On(T, n.executions[i].message, n.executions[i].approval),
         \A b \in Approvals : n.approvals[b].status \in {"VALID", "CLAIMING", "EXECUTED"}
  PROVE  Extends(d, n) /\ DocSound(n, T)
<1>1. Extends(d, n) BY DEF Extends, Attempted
<1>2. DocSound(n, T) BY DEF DocSound
<1> QED BY <1>1, <1>2

-----------------------------------------------------------------------------
(* One step of a handler.                                                   *)

\* A call that has only read, or is over, claims to know nothing.
LEMMA KnowsNothing ==
  ASSUME NEW k, k.phase \in {"idle", "loaded", "clear"}, NEW T, NEW I, NEW d, NEW n
  PROVE  CallSound(k, T, I, d, n)
BY DEF CallSound, Knows, Sends, Works, Sending

LEMMA IdleSound == \A T, I, d, n : CallSound(Idle, T, I, d, n)
BY KnowsNothing DEF Idle

\* A call before its send, or one whose receipt names no message.
LEMMA OnlyWorks ==
  ASSUME NEW k, \/ k.phase \in {"tool", "lookup", "ledger", "relookup", "publish"}
                \/ k.phase \in {"confirm", "confirming"} /\ k.outcome \notin {"done", "unsaved"},
         NEW T, NEW I, NEW d, NEW n, Attempted(d, k.exe, k.approval)
  PROVE  CallSound(k, T, I, d, n)
BY DEF CallSound, Knows, Sends, Works

LEMMA EndedCall ==
  ASSUME SoundInv, NEW e \in Executors, call' = [call EXCEPT ![e] = Idle]
  PROVE  /\ \A f \in Executors : f # e => call'[f] = call[f]
         /\ \A T, I, d, n : CallSound(call'[e], T, I, d, n)
BY IdleSound DEF SoundInv, TypeInv, CallsOK

LEMMA ClaimStepSound ==
  ASSUME SoundInv, TypeInv', NEW e \in Executors, ClaimStep(e)
  PROVE  SoundInv'
<1>a. e \in Calls /\ DocInv /\ call \in [Executors -> CallRec]
  BY ExecutorsAreCalls DEF SoundInv, TypeInv, CallsOK
<1>b. call[e].phase # "idle" => call[e].approval \in Approvals
  BY DEF SoundInv, TypeInv, CallsOK, BusyHasApproval
<1>1. ASSUME NEW a \in Approvals, Begin(e, a) PROVE SoundInv'
  <2>1. call'[e].phase = "loaded" /\ \A f \in Executors : f # e => call'[f] = call[f]
    BY <1>1, <1>a DEF Begin, Idle
  <2>2. CallSound(call'[e], topic, inflight, doc, submitted) BY <2>1, KnowsNothing
  <2> QED BY <1>1, <2>1, <2>2, QuietStep DEF Begin, Get, auditVars
<1>2. CASE Deny(e)
  <2> DEFINE a == call[e].approval
  <2>1. /\ Put(e, [snap[e] EXCEPT !.executions = IF Len(@) < MaxExecutions
                                  THEN Append(@, execution(a, "denied")) ELSE @])
        /\ call[e].phase = "loaded"
    BY <1>2 DEF Deny
  <2>2. snap[e] = doc /\ doc \in CaseDoc BY <1>a, <2>1, WriterHoldsDoc
  <2>3. /\ doc'.executions = Append(doc.executions, execution(a, "denied")) \/ doc' = doc
        /\ doc'.approvals = doc.approvals
    BY <2>1, <2>2 DEF Put, CaseDoc
  <2>4. DocSound(doc, topic) BY DEF SoundInv
  <2>5. Extends(doc, doc') /\ DocSound(doc', topic)
    <3>1. \A b \in Approvals : doc'.approvals[b].status \in {"VALID", "CLAIMING", "EXECUTED"}
      BY <2>3, <2>4 DEF DocSound
    <3>2. CASE doc' = doc BY <3>2, <2>4 DEF Extends
    <3>3. CASE doc'.executions = Append(doc.executions, execution(a, "denied"))
      BY <1>b, <2>1, <2>2, <2>4, <3>1, <3>3, EntryAdded
    <3> QED BY <2>3, <3>2, <3>3
  <2> QED BY <1>2, <2>5, EndedCall, WritingStep DEF Deny, auditVars
<1>3. CASE Claim(e)
  <2> DEFINE a == call[e].approval
             k == Len(snap[e].executions) + 1
  <2>1. /\ Put(e, [snap[e] EXCEPT !.executions          = Append(@, execution(a, "claiming")),
                                  !.approvals[a].status = "CLAIMING",
                                  !.state               = "EXECUTING"])
        /\ call[e].phase = "loaded" /\ StartSend(e, k)
    BY <1>3 DEF Claim
  <2>2. snap[e] = doc /\ doc \in CaseDoc /\ a \in Approvals BY <1>a, <1>b, <2>1, WriterHoldsDoc
  <2>3. /\ doc'.executions = Append(doc.executions, execution(a, "claiming"))
        /\ doc'.approvals = [doc.approvals EXCEPT ![a].status = "CLAIMING"]
    BY <2>1, <2>2 DEF Put, CaseDoc
  <2>4. DocSound(doc, topic) BY DEF SoundInv
  <2>5. \A b \in Approvals : doc'.approvals[b].status \in {"VALID", "CLAIMING", "EXECUTED"}
    BY <2>2, <2>3, <2>4 DEF DocSound, CaseDoc, ApprovalRec
  <2>6. Extends(doc, doc') /\ DocSound(doc', topic) /\ Attempted(doc', k, a)
    BY <2>2, <2>3, <2>4, <2>5, EntryAdded
  <2>7. /\ call'[e].phase = "tool" /\ call'[e].exe = k /\ call'[e].approval = a
        /\ \A f \in Executors : f # e => call'[f] = call[f]
    BY <1>a, <2>1 DEF StartSend, Idle
  <2>8. CallSound(call'[e], topic, inflight, doc', submitted) BY <2>6, <2>7, OnlyWorks
  <2> QED BY <1>3, <2>6, <2>7, <2>8, WritingStep DEF Claim, auditVars
<1>4. CASE Resume(e)
  <2> DEFINE a == call[e].approval
             i == newest(claims(snap[e], a))
  <2>1. /\ Put(e, snap[e]) /\ call[e].phase = "loaded" /\ StartSend(e, i)
        /\ claims(snap[e], a) # {}
    BY <1>4 DEF Resume, resumable
  <2>2. snap[e] = doc /\ doc \in CaseDoc /\ a \in Approvals /\ doc' = doc
    BY <1>a, <1>b, <2>1, WriterHoldsDoc
  <2>3. Attempted(doc, i, a) BY <2>1, <2>2, NewestIsAClaim, ClaimIsAttempt
  <2>4. /\ call'[e].phase = "tool" /\ call'[e].exe = i /\ call'[e].approval = a
        /\ \A f \in Executors : f # e => call'[f] = call[f]
    BY <1>a, <2>1 DEF StartSend, Idle
  <2>5. CallSound(call'[e], topic, inflight, doc, submitted) BY <2>3, <2>4, OnlyWorks
  <2> QED BY <1>4, <2>2, <2>4, <2>5, QuietStep DEF Resume, auditVars
<1>5. CASE LeaseRefused(e)
  BY <1>5, EndedCall, QuietStep DEF LeaseRefused, Drop, auditVars
<1>6. CASE Conflict(e)
  BY <1>6, EndedCall, QuietStep DEF Conflict, Drop, auditVars
<1> QED BY <1>1, <1>2, <1>3, <1>4, <1>5, <1>6 DEF ClaimStep

-----------------------------------------------------------------------------
(* Rows of the trail.                                                       *)

LEMMA RowsAreTrue ==
  ASSUME NEW a \in Approvals, TrailSound(trail, topic), NEW r \in rows(a)
  PROVE  On(topic, r.message, a)
BY DEF TrailSound, rows

\* A new row that tells the truth leaves the trail sound.
LEMMA AuditOnceSound ==
  ASSUME TrailSound(trail, topic), NEW new,
         \A r \in new : /\ r.audit_id = r.approval
                        /\ r.message # NoMessage => On(topic, r.message, r.approval),
         \A r, q \in new : r.approval = q.approval => r = q
  PROVE  TrailSound(AuditOnce(new), topic)
BY DEF TrailSound, AuditOnce

LEMMA OneRowSound ==
  ASSUME TrailSound(trail, topic), NEW a, NEW m, m # NoMessage => On(topic, m, a)
  PROVE  TrailSound(AuditOnce({publish_row(a, m)}), topic)
<1>1. publish_row(a, m).audit_id = a /\ publish_row(a, m).approval = a
      /\ publish_row(a, m).message = m
  BY DEF publish_row
<1> QED BY <1>1, AuditOnceSound

LEMMA LedgerRowsSound ==
  ASSUME SoundInv, NEW batch \in SUBSET ledger, NEW new \in settled(batch)
  PROVE  TrailSound(AuditOnce(new), topic)
<1>1. \A r \in new : \E m \in batch : r = publish_row(m.approval, m.id) BY DEF settled
<1>2. batch \subseteq topic BY DEF SoundInv, BrokerSound
<1>3. \A r \in new : r.audit_id = r.approval /\ On(topic, r.message, r.approval)
  BY <1>1, <1>2 DEF publish_row, On
<1>4. \A r, q \in new : r.approval = q.approval => r = q BY DEF settled
<1> QED BY <1>3, <1>4, AuditOnceSound DEF SoundInv

-----------------------------------------------------------------------------
(* The send.                                                                *)

LEMMA GoneTo ==
  ASSUME SoundInv, NEW e \in Executors, NEW phase, Goto(e, phase)
  PROVE  /\ \A f \in Executors : f # e => call'[f] = call[f]
         /\ call'[e].phase = phase /\ call'[e].exe = call[e].exe
         /\ call'[e].approval = call[e].approval /\ call'[e].message = call[e].message
         /\ call'[e].outcome = call[e].outcome /\ call'[e].after = call[e].after
BY DEF Goto, SoundInv, TypeInv, CallsOK, CallRec

LEMMA Received ==
  ASSUME SoundInv, NEW e \in Executors, NEW outcome, NEW m, Receipt(e, outcome, m)
  PROVE  /\ \A f \in Executors : f # e => call'[f] = call[f]
         /\ call'[e].phase = "confirm" /\ call'[e].exe = call[e].exe
         /\ call'[e].approval = call[e].approval /\ call'[e].message = m
         /\ call'[e].outcome = outcome
BY DEF Receipt, SoundInv, TypeInv, CallsOK, CallRec

LEMMA SenderWorks ==
  ASSUME SoundInv, NEW e \in Executors, call[e].phase \in Sending
  PROVE  /\ call[e].approval \in Approvals
         /\ Attempted(doc, call[e].exe, call[e].approval)
<1>1. call[e].phase # "idle" BY DEF Sending
<1> QED BY <1>1 DEF SoundInv, CallsSound, CallSound, Works, TypeInv, CallsOK, BusyHasApproval

\* A receipt that names a message, and the phases between answer and receipt.
LEMMA KnowsAndWorks ==
  ASSUME NEW k, k.phase \in {"save", "append", "confirm", "confirming"},
         NEW T, NEW I, NEW d, NEW n, Attempted(d, k.exe, k.approval),
         On(T, k.message, k.approval)
  PROVE  CallSound(k, T, I, d, n)
BY DEF CallSound, Knows, Sends, Works

LEMMA EarlierUsed ==
  ASSUME SoundInv, NEW e \in Executors, call[e].phase \in Sending, UseEarlier(e)
  PROVE  /\ \A f \in Executors : f # e => call'[f] = call[f]
         /\ CallSound(call'[e], topic, inflight, doc, submitted)
<1>1. PICK r \in rows(call[e].approval) : Receipt(e, "done", r.message) BY DEF UseEarlier
<1>2. On(topic, r.message, call[e].approval) BY SenderWorks, RowsAreTrue DEF SoundInv
<1> QED BY <1>1, <1>2, Received, SenderWorks, KnowsAndWorks

LEMMA SendStepSound ==
  ASSUME SoundInv, TypeInv', NEW e \in Executors, SendStep(e)
  PROVE  SoundInv'
<1> DEFINE a == call[e].approval
<1>0. call[e].phase \in Sending
  BY DEF SendStep, Tool, StoreFails, Lookup, Settle, LedgerUnreadable, Relookup, Submit,
         Accepted, TimedOut, Rejected, SaveLookup, Save, SaveFails, Sending
<1>a. a \in Approvals /\ Attempted(doc, call[e].exe, a) BY <1>0, SenderWorks
<1>b. call \in [Executors -> CallRec] /\ submitted \in Nat
  BY DEF SoundInv, TypeInv, CallsOK, BrokerOK
<1>c. Knows(call[e], topic) /\ Sends(call[e], inflight, submitted)
  BY DEF SoundInv, CallsSound, CallSound
<1>1. CASE Tool(e)
  BY <1>1, <1>a, GoneTo, OnlyWorks, QuietStep DEF Tool, docVars, brokerVars
<1>2. CASE StoreFails(e)
  BY <1>2, <1>a, Received, OnlyWorks, QuietStep DEF StoreFails, docVars, auditVars
<1>3. CASE Lookup(e)
  <2>1. CASE UseEarlier(e)
    BY <1>0, <1>3, <2>1, EarlierUsed, QuietStep DEF Lookup, docVars, auditVars
  <2>2. CASE ~UseEarlier(e)
    <3>1. PICK phase \in {"ledger", "publish"} : Goto(e, phase) BY <1>3, <2>2 DEF Lookup
    <3> QED BY <1>3, <1>a, <3>1, GoneTo, OnlyWorks, QuietStep DEF Lookup, docVars, auditVars
  <2> QED BY <2>1, <2>2
<1>4. CASE Settle(e)
  <2> PICK batch \in SUBSET ledger : \E new \in settled(batch) :
         trail' = AuditOnce(new) /\ ledger' = ledger \ batch
    BY <1>4 DEF Settle
  <2> PICK new \in settled(batch) : trail' = AuditOnce(new) OBVIOUS
  <2>1. TrailSound(trail', topic) BY LedgerRowsSound
  <2> QED BY <1>4, <1>a, <2>1, GoneTo, OnlyWorks, BookingStep DEF Settle, docVars
<1>5. CASE LedgerUnreadable(e)
  <2> PICK batch \in SUBSET ledger : \E new \in settled(batch) : trail' = AuditOnce(new)
    BY <1>5 DEF LedgerUnreadable
  <2> PICK new \in settled(batch) : trail' = AuditOnce(new) OBVIOUS
  <2>1. TrailSound(trail', topic) BY LedgerRowsSound
  <2>2. PICK outcome \in {"unknown", "none"} : Receipt(e, outcome, NoMessage)
    BY <1>5 DEF LedgerUnreadable
  <2> QED BY <1>5, <1>a, <2>1, <2>2, Received, OnlyWorks, BookingStep
          DEF LedgerUnreadable, docVars, brokerVars
<1>6. CASE Relookup(e)
  <2>1. CASE UseEarlier(e)
    BY <1>0, <1>6, <2>1, EarlierUsed, QuietStep DEF Relookup, docVars, auditVars
  <2>2. CASE Goto(e, "publish")
    BY <1>6, <1>a, <2>2, GoneTo, OnlyWorks, QuietStep DEF Relookup, docVars, auditVars
  <2> QED BY <1>6, <2>1, <2>2 DEF Relookup
<1>7. CASE Submit(e)
  <2> DEFINE new == [id |-> submitted + 1, approval |-> a]
  <2>1. /\ submitted' = submitted + 1 /\ inflight' = inflight \cup {new}
        /\ UNCHANGED <<topic, ledger, pushed, trail, doc>>
    BY <1>7 DEF Submit, docVars, auditVars
  <2>2. /\ call'[e].phase = "sending" /\ call'[e].message = submitted + 1
        /\ call'[e].approval = a /\ call'[e].exe = call[e].exe
        /\ \A f \in Executors : f # e => call'[f] = call[f]
    BY <1>7, <1>b DEF Submit, CallRec
  <2>3. \A m \in inflight : m.id \in Nat /\ m.id <= submitted
    BY DEF SoundInv, TypeInv, BrokerOK, Message, BrokerSound
  <2>4. CallSound(call'[e], topic', inflight', doc, submitted')
    <3>1. Knows(call'[e], topic') BY <2>2 DEF Knows
    <3>2. Sends(call'[e], inflight', submitted') BY <1>b, <2>1, <2>2, <2>3 DEF Sends
    <3>3. Works(call'[e], doc) BY <1>a, <2>2 DEF Works
    <3> QED BY <3>1, <3>2, <3>3 DEF CallSound
  <2>5. \E i \in DOMAIN doc.executions : Attempted(doc, i, a) BY <1>a DEF Attempted
  <2>6. \A m \in inflight' \ inflight : m = new BY <2>1
  <2>7. submitted <= submitted' /\ new.id > submitted /\ new.id <= submitted' BY <1>b, <2>1
  <2> QED
    <3> DEFINE E == {e}
    <3>1. E \in SUBSET Executors /\ \A f \in Executors \ E : call'[f] = call[f] BY <2>2
    <3>2. \A f \in E : CallSound(call'[f], topic', inflight', doc, submitted') BY <2>4
    <3> HIDE DEF E
    <3> QED BY <2>1, <2>5, <2>6, <2>7, <3>1, <3>2, BrokerStep
<1>8. CASE Accepted(e)
  <2> PICK m \in outgoing(e) : BrokerAccepts(m) BY <1>8 DEF Accepted
  <2>1. /\ call[e].phase = "sending" /\ Goto(e, "save")
        /\ m \in inflight /\ m.id = call[e].message /\ m.approval = a
    BY <1>8, <1>c DEF Accepted, outgoing, Sends
  <2>2. On(topic', call[e].message, a) BY <2>1 DEF On, BrokerAccepts
  <2>3. CallSound(call'[e], topic', inflight', doc, submitted')
    BY <1>a, <2>1, <2>2, GoneTo, KnowsAndWorks
  <2>4. \A f \in Executors \ {e} : call'[f] = call[f] BY <2>1, GoneTo
  <2> QED BY <1>8, <1>b, <2>1, <2>3, <2>4, BrokerTakes DEF Accepted, docVars, auditVars
<1>9. CASE TimedOut(e)
  <2>1. /\ call[e].phase = "sending"
        /\ \A f \in Executors : f # e => call'[f] = call[f]
        /\ call'[e].phase = "confirm" /\ call'[e].outcome \in {"unknown", "none"}
        /\ call'[e].exe = call[e].exe /\ call'[e].approval = a
    BY <1>9, <1>b DEF TimedOut, CallRec
  <2>2. CallSound(call'[e], topic', inflight', doc, submitted') BY <1>a, <2>1, OnlyWorks
  <2>3. \A f \in Executors \ {e} : call'[f] = call[f] BY <2>1
  <2> PICK m \in inflight : Abandoned(m) BY <1>9 DEF TimedOut, outgoing
  <2> QED BY <1>9, <2>2, <2>3, BrokerTakes DEF TimedOut, Abandoned, docVars, auditVars
<1>10. CASE Rejected(e)
  <2>1. Receipt(e, "failed", NoMessage) BY <1>10 DEF Rejected
  <2>2. CallSound(call'[e], topic', inflight', doc, submitted')
    BY <1>a, <2>1, Received, OnlyWorks
  <2>3. \A f \in Executors \ {e} : call'[f] = call[f] BY <2>1, Received
  <2> PICK m \in inflight : BrokerLoses(m) BY <1>10 DEF Rejected, outgoing
  <2> QED BY <1>10, <2>2, <2>3, BrokerTakes DEF Rejected, docVars, auditVars
<1>11. CASE SaveLookup(e)
  <2>1. CASE UseEarlier(e)
    BY <1>0, <1>11, <2>1, EarlierUsed, QuietStep DEF SaveLookup, docVars, auditVars
  <2>2. CASE Goto(e, "append")
    <3>1. On(topic, call[e].message, a) BY <1>11, <1>c DEF SaveLookup, Knows
    <3> QED BY <1>11, <1>a, <2>2, <3>1, GoneTo, KnowsAndWorks, QuietStep
            DEF SaveLookup, docVars, auditVars
  <2> QED BY <1>11, <2>1, <2>2 DEF SaveLookup
<1>12. CASE Save(e)
  <2>1. On(topic, call[e].message, a) BY <1>12, <1>c DEF Save, Knows
  <2>2. TrailSound(trail', topic) BY <1>12, <2>1, OneRowSound DEF Save, SoundInv
  <2>3. PICK m : Receipt(e, "done", m) /\ On(topic, m, a)
    BY <1>12, <2>1, <2>2 DEF Save, TrailSound
  <2> QED BY <1>12, <1>a, <2>2, <2>3, Received, KnowsAndWorks, BookingStep
          DEF Save, docVars, brokerVars
<1>13. CASE SaveFails(e)
  <2>1. On(topic, call[e].message, a) BY <1>13, <1>c DEF SaveFails, Knows
  <2> QED BY <1>13, <1>a, <2>1, Received, KnowsAndWorks, QuietStep
          DEF SaveFails, docVars, auditVars
<1> QED BY <1>1, <1>2, <1>3, <1>4, <1>5, <1>6, <1>7, <1>8, <1>9, <1>10, <1>11, <1>12, <1>13
        DEF SendStep

-----------------------------------------------------------------------------
(* Confirmation, reconciliation, environment.                               *)

\* What phase 3 writes, field by field.
LEMMA ConfirmedFields ==
  ASSUME NEW d \in CaseDoc, NEW e \in Executors, call[e].approval \in Approvals,
         call[e].exe \in DOMAIN d.executions
  PROVE  LET n == confirmed(d, e)
             i == call[e].exe
             a == call[e].approval
             x == n.executions[i] IN
    /\ n.executions = [d.executions EXCEPT ![i] = x]
    /\ x.approval = d.executions[i].approval
    /\ IF published(e)
       THEN /\ x.status = "sent" /\ x.message = call[e].message
            /\ x.pending = (d.executions[i].pending \/ call[e].outcome = "unsaved")
            /\ n.approvals[a].status = "EXECUTED"
            /\ n.state = outcome_of(d, a)
            /\ n.auditPending = (d.auditPending \/ call[e].outcome = "unsaved")
       ELSE /\ x.status \in {"send_unknown", "send_failed"} /\ x.message = NoMessage
            /\ x.pending = d.executions[i].pending
            /\ n.approvals[a].status = "VALID"
            /\ n.state = "EXECUTION_FAILED"
            /\ n.auditPending = d.auditPending
    /\ \A b \in Approvals \ {a} : n.approvals[b] = d.approvals[b]
    /\ \A b \in Approvals : n.approvals[b].version = d.approvals[b].version
    /\ n.version = d.version /\ n.requests = d.requests
<1> DEFINE a   == call[e].approval
           i   == call[e].exe
           was == d.executions[i]
           st  == IF call[e].outcome = "unknown" THEN "send_unknown" ELSE "send_failed"
           y   == [was EXCEPT !.status = "sent", !.message = call[e].message,
                              !.pending = was.pending \/ call[e].outcome = "unsaved"]
           z   == [was EXCEPT !.status = st, !.message = NoMessage]
           apr(s) == [d.approvals EXCEPT ![a].status = s]
<1>1. was \in ExecutionRec /\ d.executions \in Seq(ExecutionRec) BY DEF CaseDoc
<1>2. /\ y.approval = was.approval /\ y.status = "sent" /\ y.message = call[e].message
      /\ y.pending = (was.pending \/ call[e].outcome = "unsaved")
      /\ z.approval = was.approval /\ z.status = st /\ z.message = NoMessage
      /\ z.pending = was.pending
  BY <1>1 DEF ExecutionRec
<1>3. ASSUME NEW s PROVE /\ apr(s)[a].status = s
                         /\ \A b \in Approvals \ {a} : apr(s)[b] = d.approvals[b]
                         /\ \A b \in Approvals : apr(s)[b].version = d.approvals[b].version
  BY DEF CaseDoc, ApprovalRec
<1>4. CASE published(e)
  <2> DEFINE exe == [d.executions EXCEPT ![i] = y]
             pnd == d.auditPending \/ call[e].outcome = "unsaved"
  <2>1. confirmed(d, e) = [d EXCEPT !.executions = exe, !.approvals = apr("EXECUTED"),
                                    !.state = outcome_of(d, a), !.auditPending = pnd]
    BY <1>4 DEF confirmed, CaseDoc
  <2>2. /\ confirmed(d, e).executions = exe /\ confirmed(d, e).approvals = apr("EXECUTED")
        /\ confirmed(d, e).state = outcome_of(d, a) /\ confirmed(d, e).auditPending = pnd
        /\ confirmed(d, e).version = d.version /\ confirmed(d, e).requests = d.requests
    <3> HIDE DEF exe, pnd, apr
    <3> QED BY <2>1 DEF CaseDoc
  <2>3. confirmed(d, e).executions[i] = y BY <2>2
  <2> HIDE DEF y, z, apr
  <2> QED BY <1>2, <1>3, <1>4, <2>2, <2>3
<1>5. CASE ~published(e)
  <2> DEFINE exe == [d.executions EXCEPT ![i] = z]
  <2>1. confirmed(d, e) = [d EXCEPT !.executions = exe, !.approvals = apr("VALID"),
                                    !.state = "EXECUTION_FAILED"]
    BY <1>5 DEF confirmed, CaseDoc
  <2>2. /\ confirmed(d, e).executions = exe /\ confirmed(d, e).approvals = apr("VALID")
        /\ confirmed(d, e).state = "EXECUTION_FAILED"
        /\ confirmed(d, e).auditPending = d.auditPending
        /\ confirmed(d, e).version = d.version /\ confirmed(d, e).requests = d.requests
    <3> HIDE DEF exe, apr
    <3> QED BY <2>1 DEF CaseDoc
  <2>3. st \in {"send_unknown", "send_failed"} OBVIOUS
  <2>4. confirmed(d, e).executions[i] = z BY <2>2
  <2> HIDE DEF y, z, apr, st
  <2> QED BY <1>2, <1>3, <1>5, <2>2, <2>3, <2>4
<1> QED BY <1>4, <1>5

LEMMA ClearedFields ==
  ASSUME NEW d \in CaseDoc, NEW i \in DOMAIN d.executions
  PROVE  LET n == cleared(d, i)
             x == n.executions[i] IN
    /\ n.executions = [d.executions EXCEPT ![i] = x]
    /\ x.approval = d.executions[i].approval /\ x.status = d.executions[i].status
    /\ x.message = d.executions[i].message /\ x.pending = FALSE
    /\ n.auditPending = (\E j \in DOMAIN d.executions : j # i /\ d.executions[j].pending)
    /\ n.approvals = d.approvals /\ n.state = d.state
    /\ n.version = d.version /\ n.requests = d.requests
<1> DEFINE y   == [d.executions[i] EXCEPT !.pending = FALSE]
           exe == [d.executions EXCEPT ![i] = y]
           pnd == \E j \in DOMAIN d.executions : j # i /\ d.executions[j].pending
<1>1. d.executions[i] \in ExecutionRec BY DEF CaseDoc
<1>2. /\ y.approval = d.executions[i].approval /\ y.status = d.executions[i].status
      /\ y.message = d.executions[i].message /\ y.pending = FALSE
  BY <1>1 DEF ExecutionRec
<1>3. cleared(d, i) = [d EXCEPT !.executions = exe, !.auditPending = pnd]
  BY DEF cleared, CaseDoc
<1>4. /\ cleared(d, i).executions = exe /\ cleared(d, i).auditPending = pnd
      /\ cleared(d, i).approvals = d.approvals /\ cleared(d, i).state = d.state
      /\ cleared(d, i).version = d.version /\ cleared(d, i).requests = d.requests
  <2> HIDE DEF exe, pnd
  <2> QED BY <1>3 DEF CaseDoc
<1>5. exe[i] = y OBVIOUS
<1> HIDE DEF y
<1> QED BY <1>2, <1>4, <1>5

LEMMA ConfirmStepSound ==
  ASSUME SoundInv, TypeInv', NEW e \in Executors, ConfirmStep(e)
  PROVE  SoundInv'
<1> DEFINE a == call[e].approval
           i == call[e].exe
<1>0. call[e].phase \in Sending BY DEF ConfirmStep, Reread, Confirm, Sending
<1>a. a \in Approvals /\ Attempted(doc, i, a) /\ e \in Calls /\ DocInv
  BY <1>0, SenderWorks, ExecutorsAreCalls DEF SoundInv, TypeInv
<1>b. Knows(call[e], topic) BY DEF SoundInv, CallsSound, CallSound
<1>1. CASE Reread(e)
  <2>1. CASE call[e].outcome \in {"done", "unsaved"}
    <3>1. On(topic, call[e].message, a) BY <1>1, <1>b, <2>1 DEF Reread, Knows
    <3> QED BY <1>1, <1>a, <3>1, GoneTo, KnowsAndWorks, QuietStep DEF Reread, Get, auditVars
  <2>2. CASE call[e].outcome \notin {"done", "unsaved"}
    BY <1>1, <1>a, <2>2, GoneTo, OnlyWorks, QuietStep DEF Reread, Get, auditVars
  <2> QED BY <2>1, <2>2
<1>2. CASE Confirm(e)
  <2>1. Put(e, confirmed(snap[e], e)) /\ call[e].phase = "confirming" BY <1>2 DEF Confirm
  <2>2. doc \in CaseDoc /\ doc' = confirmed(doc, e) BY <1>a, <2>1, WriterHoldsDoc
  <2> DEFINE x == doc'.executions[i]
  <2>3. i \in DOMAIN doc.executions /\ doc.executions[i].approval = a BY <1>a DEF Attempted
  <2>4. /\ doc'.executions = [doc.executions EXCEPT ![i] = x] /\ x.approval = a
        /\ \/ published(e) /\ x.status = "sent" /\ x.message = call[e].message
           \/ x.status \in {"send_unknown", "send_failed"} /\ x.message = NoMessage
        /\ \A b \in Approvals \ {a} : doc'.approvals[b] = doc.approvals[b]
        /\ doc'.approvals[a].status \in {"EXECUTED", "VALID"}
    BY <1>a, <2>2, <2>3, ConfirmedFields
  <2>5. published(e) => On(topic, call[e].message, a) /\ call[e].message # NoMessage
    <3>1. published(e) => On(topic, call[e].message, a) BY <1>b, <2>1 DEF published, Knows
    <3> QED BY <3>1, SentinelsApart DEF On, SoundInv, TypeInv, BrokerOK, Message
  <2>6. \A b \in Approvals : doc'.approvals[b].status \in {"VALID", "CLAIMING", "EXECUTED"}
    BY <2>4 DEF SoundInv, DocSound
  <2>7. Extends(doc, doc') /\ DocSound(doc', topic)
    <3>1. /\ x.approval = doc.executions[i].approval /\ x.status # "denied"
          /\ x.status = "sent" => x.message # NoMessage
          /\ x.message # NoMessage => On(topic, x.message, x.approval)
      BY <2>3, <2>4, <2>5
    <3>2. DocSound(doc, topic) BY DEF SoundInv
    <3>3. /\ DOMAIN doc'.executions = DOMAIN doc.executions
          /\ \A j \in DOMAIN doc.executions : j # i => doc'.executions[j] = doc.executions[j]
      BY <2>4
    <3> QED BY <2>6, <3>1, <3>2, <3>3, EntryRewritten
  <2> QED BY <1>2, <2>7, EndedCall, WritingStep DEF Confirm, auditVars
<1> QED BY <1>1, <1>2 DEF ConfirmStep

LEMMA ReconcileSound ==
  ASSUME SoundInv, TypeInv', NEW e \in Executors, Reconcile(e)
  PROVE  SoundInv'
<1>a. e \in Calls /\ DocInv /\ call \in [Executors -> CallRec] /\ call[e] \in CallRec
  BY ExecutorsAreCalls DEF SoundInv, TypeInv, CallsOK
<1>b. Knows(call[e], topic) BY DEF SoundInv, CallsSound, CallSound
<1>1. CASE ReconcileBegin(e)
  <2> PICK i \in DOMAIN doc.executions :
        call' = [call EXCEPT ![e] = [Idle EXCEPT !.phase = "reconcile", !.exe = i,
                                       !.approval = doc.executions[i].approval,
                                       !.message  = doc.executions[i].message]]
    BY <1>1 DEF ReconcileBegin
  <2>1. /\ call'[e].phase = "reconcile" /\ call'[e].approval = doc.executions[i].approval
        /\ call'[e].message = doc.executions[i].message
        /\ \A f \in Executors : f # e => call'[f] = call[f]
    BY <1>a DEF Idle
  <2>2. call'[e].message # NoMessage => On(topic, call'[e].message, call'[e].approval)
    BY <2>1 DEF SoundInv, DocSound
  <2>3. CallSound(call'[e], topic, inflight, doc, submitted)
    BY <2>1, <2>2 DEF CallSound, Knows, Sends, Works, Sending
  <2> QED BY <1>1, <2>1, <2>3, QuietStep DEF ReconcileBegin, Get, auditVars
<1>2. CASE ReconcileRow(e)
  <2> DEFINE a == call[e].approval
  <2>1. call[e].message # NoMessage => On(topic, call[e].message, a)
    BY <1>2, <1>b DEF ReconcileRow, Knows
  <2>2. TrailSound(trail', topic) BY <1>2, <2>1, OneRowSound DEF ReconcileRow, SoundInv
  <2>3. call'[e].phase = "clear" /\ \A f \in Executors : f # e => call'[f] = call[f]
    BY <1>2, GoneTo DEF ReconcileRow
  <2> QED BY <1>2, <2>2, <2>3, KnowsNothing, BookingStep DEF ReconcileRow, docVars, brokerVars
<1>3. CASE ReconcileClear(e)
  <2> DEFINE i == call[e].exe
             x == doc'.executions[i]
  <2>1. doc \in CaseDoc /\ doc' = cleared(doc, i)
    BY <1>3, <1>a, WriterHoldsDoc DEF ReconcileClear
  <2>2. DocSound(doc, topic) BY DEF SoundInv
  <2>3. Extends(doc, doc') /\ DocSound(doc', topic)
    <3>1. CASE i \in DOMAIN doc.executions
      <4>1. /\ doc'.executions = [doc.executions EXCEPT ![i] = x]
            /\ x.approval = doc.executions[i].approval
            /\ x.status = doc.executions[i].status /\ x.message = doc.executions[i].message
            /\ doc'.approvals = doc.approvals
        BY <2>1, <3>1, ClearedFields
      <4>2. /\ x.status = "sent" => x.message # NoMessage
            /\ x.message # NoMessage => On(topic, x.message, x.approval)
            /\ \A b \in Approvals : doc'.approvals[b].status \in {"VALID", "CLAIMING", "EXECUTED"}
        BY <2>2, <3>1, <4>1 DEF DocSound
      <4>3. /\ DOMAIN doc'.executions = DOMAIN doc.executions
            /\ \A j \in DOMAIN doc.executions : j # i => doc'.executions[j] = doc.executions[j]
        BY <4>1
      <4> QED BY <2>2, <4>1, <4>2, <4>3, EntryRewritten
    <3>2. CASE i \notin DOMAIN doc.executions
      <4>1. doc'.executions = doc.executions /\ doc'.approvals = doc.approvals
        BY <2>1, <3>2 DEF cleared, CaseDoc
      <4> QED BY <2>2, <4>1 DEF Extends, Attempted, DocSound
    <3> QED BY <3>1, <3>2
  <2> QED BY <1>3, <2>3, EndedCall, WritingStep DEF ReconcileClear, auditVars
<1>4. CASE ReconcileFails(e)
  BY <1>4, EndedCall, QuietStep DEF ReconcileFails, Drop, auditVars
<1> QED BY <1>1, <1>2, <1>3, <1>4 DEF Reconcile

LEMMA EnvironmentSound ==
  ASSUME SoundInv, TypeInv',
         \/ \E e \in Executors : Crash(e)
         \/ \E i \in 1..MaxExecutions : LeaseExpires(i)
         \/ \E m \in inflight : Straggler(m)
         \/ \E m \in pushed : Deliver(m)
  PROVE  SoundInv'
<1>1. ASSUME NEW e \in Executors, Crash(e) PROVE SoundInv'
  <2>1. /\ \A f \in Executors : f # e => call'[f] = call[f]
        /\ \A T, I, d, n : CallSound(call'[e], T, I, d, n)
        /\ UNCHANGED <<trail, doc>>
    BY <1>1, EndedCall DEF Crash, Drop, auditVars
  <2>2. CASE call[e].phase = "sending"
    <3> PICK m \in inflight : Abandoned(m) BY <1>1, <2>2 DEF Crash, outgoing
    <3>1. \A f \in Executors \ {e} : call'[f] = call[f] BY <2>1
    <3> QED BY <2>1, <3>1, BrokerTakes DEF Abandoned
  <2>3. CASE call[e].phase # "sending"
    BY <1>1, <2>1, <2>3, QuietStep DEF Crash
  <2> QED BY <2>2, <2>3
<1>2. ASSUME NEW i \in 1..MaxExecutions, LeaseExpires(i) PROVE SoundInv'
  BY <1>2 DEF LeaseExpires, SoundInv, CallsSound, docVars, brokerVars, auditVars
<1>3. ASSUME NEW m \in inflight, Straggler(m) PROVE SoundInv'
  <2> DEFINE E == {}
  <2>1. /\ topic \subseteq topic' /\ topic' \subseteq topic \cup inflight
        /\ ledger' \subseteq ledger \cup topic' /\ pushed' \subseteq pushed \cup topic'
        /\ inflight' \ inflight = {} /\ submitted' = submitted
        /\ UNCHANGED <<call, trail, doc>>
    BY <1>3 DEF Straggler, BrokerAccepts, BrokerLoses, docVars, auditVars
  <2>2. submitted <= submitted' BY <2>1 DEF SoundInv, TypeInv, BrokerOK
  <2>3. /\ E \in SUBSET Executors
        /\ \A f \in Executors \ E : call'[f] = call[f]
        /\ \A f \in E : CallSound(call'[f], topic', inflight', doc, submitted')
    BY <2>1
  <2> HIDE DEF E
  <2> QED BY <2>1, <2>2, <2>3, BrokerStep
<1>4. ASSUME NEW m \in pushed, Deliver(m) PROVE SoundInv'
  <2>1. /\ pushed' \subseteq pushed
        /\ UNCHANGED <<call, doc, submitted, inflight, topic, ledger, trail>>
    BY <1>4 DEF Deliver, docVars, auditVars
  <2> QED BY <2>1 DEF SoundInv, CallsSound, BrokerSound
<1> QED BY <1>1, <1>2, <1>3, <1>4

-----------------------------------------------------------------------------

LEMMA InitSound == Init => SoundInv
<1> SUFFICES ASSUME Init PROVE SoundInv OBVIOUS
<1>1. TypeInv BY InitTyped
<1>2. CallsSound BY IdleSound DEF Init, ExecInit, CallsSound
<1>3. DocSound(doc, topic) BY DEF Init, ApprovedDoc, DocSound
<1>4. TrailSound(trail, topic) /\ BrokerSound(topic, inflight, ledger, pushed, doc, submitted)
  BY DEF Init, ExecInit, TrailSound, BrokerSound
<1> QED BY <1>1, <1>2, <1>3, <1>4 DEF SoundInv

LEMMA NextSound == SoundInv /\ [Next]_vars => SoundInv'
<1> SUFFICES ASSUME SoundInv, [Next]_vars PROVE SoundInv' OBVIOUS
<1>1. TypeInv' BY NextTyped DEF SoundInv
<1>2. CASE UNCHANGED vars
  BY <1>1, <1>2 DEF SoundInv, CallsSound, vars, execVars, docVars, brokerVars, auditVars
<1>3. CASE ExecNext
  BY <1>1, <1>3, ClaimStepSound, SendStepSound, ConfirmStepSound, ReconcileSound, EnvironmentSound
     DEF ExecNext
<1> QED BY <1>2, <1>3 DEF Next

-----------------------------------------------------------------------------
(* Inside the leases: the "slow" fault does not happen.  One execution at a *)
(* time is claimed, and whoever works works on that one.                    *)

claiming(d) == {i \in DOMAIN d.executions : d.executions[i].status = "claiming"}

OneClaim(d) ==
  /\ \A i, j \in claiming(d) : i = j
  /\ \A i \in claiming(d) : /\ d.state = "EXECUTING"
                            /\ d.approvals[d.executions[i].approval].status = "CLAIMING"
  /\ \A a \in Approvals : d.approvals[a].status = "CLAIMING" =>
       \E i \in claiming(d) : d.executions[i].approval = a
  /\ d.state = "EXECUTING" => claiming(d) # {}

\* What approval_is_executable asks for besides a claim or a standing approval.
Retryable(d) ==
  /\ \A a \in Approvals : d.approvals[a].version = d.version
  /\ open_requests(d) = {}
  /\ d.state \in {"APPROVED", "EXECUTION_FAILED"} =>
       \E a \in Approvals : d.approvals[a].status = "VALID"

WorksInLease == \A e \in Executors : call[e].phase \in Sending =>
                  call[e].exe \in claiming(doc) \ expired

LeaseInv == /\ SoundInv
            /\ OneClaim(doc)
            /\ expired \subseteq DOMAIN doc.executions
            /\ WorksInLease
            /\ OneSender

\* Nothing is written on the case and no send starts.
LEMMA CalmStep ==
  ASSUME LeaseInv, SoundInv', UNCHANGED <<doc, expired>>,
         \A f \in Executors : call'[f].phase \in Sending =>
           call[f].phase \in Sending /\ call'[f].exe = call[f].exe
  PROVE  LeaseInv'
BY DEF LeaseInv, WorksInLease, OneSender

\* The same when the case is written without touching claims and approvals.
SameClaims(d, n) ==
  /\ DOMAIN d.executions \subseteq DOMAIN n.executions
  /\ claiming(n) = claiming(d)
  /\ \A i \in claiming(d) : n.executions[i].approval = d.executions[i].approval
  /\ n.approvals = d.approvals /\ n.state = d.state
  /\ n.version = d.version /\ n.requests = d.requests

LEMMA CalmWrite ==
  ASSUME LeaseInv, SoundInv', UNCHANGED expired, SameClaims(doc, doc'),
         \A f \in Executors : call'[f].phase \in Sending =>
           call[f].phase \in Sending /\ call'[f].exe = call[f].exe
  PROVE  LeaseInv'
<1>1. OneClaim(doc') BY DEF LeaseInv, OneClaim, SameClaims
<1>2. expired' \subseteq DOMAIN doc'.executions BY DEF LeaseInv, SameClaims
<1>3. WorksInLease' BY DEF LeaseInv, WorksInLease, SameClaims
<1> QED BY <1>1, <1>2, <1>3 DEF LeaseInv, OneSender

LEMMA DeniedKeepsClaims ==
  ASSUME SoundInv, NEW e \in Executors, Deny(e) PROVE SameClaims(doc, doc')
<1> DEFINE a == call[e].approval
           x == execution(a, "denied")
           k == Len(doc.executions)
<1>1. /\ Put(e, [snap[e] EXCEPT !.executions = IF Len(@) < MaxExecutions
                                THEN Append(@, x) ELSE @])
      /\ e \in Calls /\ a \in Approvals /\ DocInv
  BY ExecutorsAreCalls DEF Deny, SoundInv, TypeInv, CallsOK, BusyHasApproval
<1>2. snap[e] = doc /\ doc \in CaseDoc BY <1>1, WriterHoldsDoc
<1>3. /\ doc'.executions = Append(doc.executions, x) \/ doc' = doc
      /\ doc'.approvals = doc.approvals /\ doc'.state = doc.state
      /\ doc'.version = doc.version /\ doc'.requests = doc.requests
  BY <1>1, <1>2 DEF Put, CaseDoc
<1>4. CASE doc' = doc BY <1>4 DEF SameClaims
<1>5. CASE doc'.executions = Append(doc.executions, x)
  <2>1. doc.executions \in Seq(ExecutionRec) /\ k \in Nat /\ DOMAIN doc.executions = 1..k
    BY <1>2 DEF CaseDoc
  <2>2. x \in ExecutionRec /\ x.status # "claiming" BY <1>1 DEF execution, ExecutionRec
  <2> HIDE DEF x
  <2>3. /\ DOMAIN doc'.executions = 1..(k + 1)
        /\ \A i \in 1..k : doc'.executions[i] = doc.executions[i]
        /\ doc'.executions[k + 1] = x
    BY <1>5, <2>1, <2>2
  <2>4. claiming(doc') = claiming(doc) BY <2>1, <2>2, <2>3 DEF claiming
  <2> QED BY <1>3, <2>1, <2>3, <2>4 DEF SameClaims, claiming
<1> QED BY <1>3, <1>4, <1>5

\* Clearing a gap touches nothing but the gap.
LEMMA ClearedKeeps ==
  ASSUME NEW d \in CaseDoc, NEW i
  PROVE  LET n == cleared(d, i) IN
    /\ DOMAIN n.executions = DOMAIN d.executions
    /\ \A j \in DOMAIN d.executions :
         /\ n.executions[j].approval = d.executions[j].approval
         /\ n.executions[j].status = d.executions[j].status
         /\ n.executions[j].message = d.executions[j].message
         /\ n.executions[j].pending = (j # i /\ d.executions[j].pending)
    /\ n.auditPending = (\E j \in DOMAIN d.executions : j # i /\ d.executions[j].pending)
    /\ SameClaims(d, n)
<1> DEFINE n == cleared(d, i)
<1>1. /\ DOMAIN n.executions = DOMAIN d.executions
      /\ \A j \in DOMAIN d.executions :
           /\ n.executions[j].approval = d.executions[j].approval
           /\ n.executions[j].status = d.executions[j].status
           /\ n.executions[j].message = d.executions[j].message
           /\ n.executions[j].pending = (j # i /\ d.executions[j].pending)
      /\ n.auditPending = (\E j \in DOMAIN d.executions : j # i /\ d.executions[j].pending)
      /\ n.approvals = d.approvals /\ n.state = d.state
      /\ n.version = d.version /\ n.requests = d.requests
  <2>1. \A j \in DOMAIN d.executions : d.executions[j].pending \in BOOLEAN
    <3>1. \A j \in DOMAIN d.executions : d.executions[j] \in ExecutionRec BY DEF CaseDoc
    <3> QED BY <3>1 DEF ExecutionRec
  <2>2. CASE i \in DOMAIN d.executions
    <3>1. /\ n.executions = [d.executions EXCEPT ![i] = n.executions[i]]
          /\ n.executions[i].approval = d.executions[i].approval
          /\ n.executions[i].status = d.executions[i].status
          /\ n.executions[i].message = d.executions[i].message
          /\ n.executions[i].pending = FALSE
          /\ n.auditPending = (\E j \in DOMAIN d.executions : j # i /\ d.executions[j].pending)
          /\ n.approvals = d.approvals /\ n.state = d.state
          /\ n.version = d.version /\ n.requests = d.requests
      BY <2>2, ClearedFields
    <3> HIDE DEF n
    <3>2. /\ DOMAIN n.executions = DOMAIN d.executions
          /\ \A j \in DOMAIN d.executions : j # i => n.executions[j] = d.executions[j]
      BY <3>1
    <3> QED BY <2>1, <2>2, <3>1, <3>2
  <2>3. CASE i \notin DOMAIN d.executions
    <3>1. /\ n.executions = d.executions
          /\ n.auditPending = (\E j \in DOMAIN d.executions : j # i /\ d.executions[j].pending)
          /\ n.approvals = d.approvals /\ n.state = d.state
          /\ n.version = d.version /\ n.requests = d.requests
      BY <2>3 DEF cleared, CaseDoc
    <3> HIDE DEF n
    <3> QED BY <2>1, <2>3, <3>1
  <2> QED BY <2>2, <2>3
<1> HIDE DEF n
<1>2. claiming(n) = claiming(d) BY <1>1 DEF claiming
<1>3. SameClaims(d, n) BY <1>1, <1>2 DEF SameClaims, claiming
<1> QED BY <1>1, <1>3 DEF n

LEMMA ClaimStepInLease ==
  ASSUME LeaseInv, SoundInv', NEW e \in Executors, ClaimStep(e)
  PROVE  LeaseInv'
<1> USE DEF LeaseInv
<1>a. /\ e \in Calls /\ DocInv /\ call \in [Executors -> CallRec]
      /\ call[e].phase # "idle" => call[e].approval \in Approvals
  BY ExecutorsAreCalls DEF SoundInv, TypeInv, CallsOK, BusyHasApproval
<1>b. "idle" \notin Sending /\ "loaded" \notin Sending /\ "tool" \in Sending BY DEF Sending
<1>1. ASSUME NEW a \in Approvals, Begin(e, a) PROVE LeaseInv'
  BY <1>1, <1>a, <1>b, CalmStep DEF Begin, Get, Idle
<1>2. CASE Deny(e)
  BY <1>2, <1>a, <1>b, DeniedKeepsClaims, CalmWrite DEF Deny, Idle
<1>3. CASE Claim(e)
  <2> DEFINE a == call[e].approval
             x == execution(a, "claiming")
             k == Len(doc.executions)
  <2>1. /\ Put(e, [snap[e] EXCEPT !.executions          = Append(@, x),
                                  !.approvals[a].status = "CLAIMING",
                                  !.state               = "EXECUTING"])
        /\ StartSend(e, Len(snap[e].executions) + 1)
        /\ a \in Approvals /\ expired' = expired
        /\ approval_is_executable(snap[e], a) /\ ~resumable(snap[e], a)
    BY <1>3, <1>a DEF Claim
  <2>2. snap[e] = doc /\ doc \in CaseDoc BY <1>a, <2>1, WriterHoldsDoc
  <2>3. claiming(doc) = {}
    <3>1. CASE doc.state # "EXECUTING" BY <3>1 DEF OneClaim
    <3>2. CASE doc.state = "EXECUTING"
      <4>1. doc.approvals[a].status = "CLAIMING" /\ claims(doc, a) = {}
        BY <2>1, <2>2, <3>2 DEF approval_is_executable, resumable
      <4> QED BY <2>1, <4>1 DEF OneClaim, claiming, claims
    <3> QED BY <3>1, <3>2
  <2>4. /\ doc'.executions = Append(doc.executions, x)
        /\ doc'.approvals = [doc.approvals EXCEPT ![a].status = "CLAIMING"]
        /\ doc'.state = "EXECUTING"
    BY <2>1, <2>2 DEF Put, CaseDoc
  <2>5. doc.executions \in Seq(ExecutionRec) /\ k \in Nat /\ DOMAIN doc.executions = 1..k
    BY <2>2 DEF CaseDoc
  <2>6. x \in ExecutionRec /\ x.status = "claiming" /\ x.approval = a
    BY <2>1 DEF execution, ExecutionRec
  <2> HIDE DEF x
  <2>7. /\ DOMAIN doc'.executions = 1..(k + 1)
        /\ \A i \in 1..k : doc'.executions[i] = doc.executions[i]
        /\ doc'.executions[k + 1] = x
    BY <2>4, <2>5, <2>6
  <2>8. claiming(doc') = {k + 1}
    <3>1. \A i \in 1..k : doc.executions[i].status # "claiming" BY <2>3, <2>5 DEF claiming
    <3> QED BY <2>5, <2>6, <2>7, <3>1 DEF claiming
  <2>9. /\ doc'.approvals[a].status = "CLAIMING"
        /\ \A b \in Approvals \ {a} : doc'.approvals[b].status # "CLAIMING"
    BY <2>1, <2>2, <2>3, <2>4 DEF OneClaim, CaseDoc, ApprovalRec
  <2>10. OneClaim(doc') BY <2>4, <2>6, <2>7, <2>8, <2>9 DEF OneClaim
  <2>11. expired' \subseteq DOMAIN doc'.executions /\ k + 1 \notin expired'
    BY <2>1, <2>5, <2>7
  <2>12. /\ call'[e].phase = "tool" /\ call'[e].exe = k + 1
         /\ \A f \in Executors : f # e => call'[f] = call[f]
    BY <1>a, <2>1, <2>2 DEF StartSend, Idle
  <2>13. \A f \in Executors : call[f].phase \notin Sending BY <2>3 DEF WorksInLease
  <2>14. \A f \in Executors : call'[f].phase \in Sending => f = e BY <2>12, <2>13
  <2>15. WorksInLease' BY <2>8, <2>11, <2>12, <2>14 DEF WorksInLease
  <2>16. OneSender' BY <2>14 DEF OneSender
  <2> QED BY <2>10, <2>11, <2>15, <2>16
<1>4. CASE Resume(e)
  <2> DEFINE a == call[e].approval
             i == newest(claims(snap[e], a))
  <2>1. /\ Put(e, snap[e]) /\ StartSend(e, i) /\ claims(snap[e], a) # {} /\ a \in Approvals
        /\ i \in expired /\ expired' = expired \ {i}
    BY <1>4, <1>a DEF Resume, resumable
  <2>2. snap[e] = doc /\ doc \in CaseDoc /\ doc' = doc BY <1>a, <2>1, WriterHoldsDoc
  <2>3. i \in claiming(doc) BY <2>1, <2>2, NewestIsAClaim DEF claims, claiming
  <2>4. /\ call'[e].phase = "tool" /\ call'[e].exe = i
        /\ \A f \in Executors : f # e => call'[f] = call[f]
    BY <1>a, <2>1 DEF StartSend, Idle
  <2>5. \A f \in Executors : call[f].phase \notin Sending
    BY <2>1, <2>3 DEF WorksInLease, OneClaim
  <2>6. \A f \in Executors : call'[f].phase \in Sending => f = e BY <2>4, <2>5
  <2>7. WorksInLease' BY <2>1, <2>2, <2>3, <2>4, <2>6 DEF WorksInLease
  <2>8. OneSender' BY <2>6 DEF OneSender
  <2> QED BY <2>1, <2>2, <2>7, <2>8
<1>5. CASE LeaseRefused(e)
  BY <1>5, <1>a, <1>b, CalmStep DEF LeaseRefused, Drop, Idle
<1>6. CASE Conflict(e)
  BY <1>6, <1>a, <1>b, CalmStep DEF Conflict, Drop, Idle
<1> QED BY <1>1, <1>2, <1>3, <1>4, <1>5, <1>6 DEF ClaimStep

\* A step of the send stays on its execution.
LEMMA SenderMoves ==
  ASSUME CallsOK, NEW e \in Executors, SendStep(e) \/ Reread(e)
  PROVE  /\ UNCHANGED <<doc, expired>>
         /\ \A f \in Executors : f # e => call'[f] = call[f]
         /\ call[e].phase \in Sending /\ call'[e].exe = call[e].exe
         /\ call'[e].approval = call[e].approval /\ call'[e].after = call[e].after
<1>1. call \in [Executors -> CallRec] BY DEF CallsOK
<1>2. CASE Tool(e) BY <1>1, <1>2 DEF Tool, Goto, docVars, Sending, CallRec
<1>3. CASE StoreFails(e) BY <1>1, <1>3 DEF StoreFails, Receipt, docVars, Sending, CallRec
<1>4. CASE Lookup(e) BY <1>1, <1>4 DEF Lookup, UseEarlier, Receipt, Goto, docVars, Sending, CallRec
<1>5. CASE Settle(e) BY <1>1, <1>5 DEF Settle, Goto, docVars, Sending, CallRec
<1>6. CASE LedgerUnreadable(e)
  BY <1>1, <1>6 DEF LedgerUnreadable, Receipt, docVars, Sending, CallRec
<1>7. CASE Relookup(e)
  BY <1>1, <1>7 DEF Relookup, UseEarlier, Receipt, Goto, docVars, Sending, CallRec
<1>8. CASE Submit(e) BY <1>1, <1>8 DEF Submit, docVars, Sending, CallRec
<1>9. CASE Accepted(e) BY <1>1, <1>9 DEF Accepted, Goto, docVars, Sending, CallRec
<1>10. CASE TimedOut(e) BY <1>1, <1>10 DEF TimedOut, docVars, Sending, CallRec
<1>11. CASE Rejected(e) BY <1>1, <1>11 DEF Rejected, Receipt, docVars, Sending, CallRec
<1>12. CASE SaveLookup(e)
  BY <1>1, <1>12 DEF SaveLookup, UseEarlier, Receipt, Goto, docVars, Sending, CallRec
<1>13. CASE Save(e) BY <1>1, <1>13 DEF Save, Receipt, docVars, Sending, CallRec
<1>14. CASE SaveFails(e) BY <1>1, <1>14 DEF SaveFails, Receipt, docVars, Sending, CallRec
<1>15. CASE Reread(e) BY <1>1, <1>15 DEF Reread, Get, Goto, docVars, Sending, CallRec
<1> QED BY <1>2, <1>3, <1>4, <1>5, <1>6, <1>7, <1>8, <1>9, <1>10, <1>11, <1>12, <1>13, <1>14,
           <1>15 DEF SendStep

LEMMA SenderStays ==
  ASSUME SoundInv, NEW e \in Executors, SendStep(e) \/ Reread(e)
  PROVE  /\ UNCHANGED <<doc, expired>>
         /\ \A f \in Executors : f # e => call'[f] = call[f]
         /\ call[e].phase \in Sending /\ call'[e].exe = call[e].exe
         /\ call'[e].approval = call[e].approval /\ call'[e].after = call[e].after
BY SenderMoves DEF SoundInv, TypeInv

LEMMA ConfirmInLease ==
  ASSUME LeaseInv, SoundInv', NEW e \in Executors, Confirm(e)
  PROVE  LeaseInv'
<1> USE DEF LeaseInv
<1> DEFINE a == call[e].approval
           i == call[e].exe
<1>1. Put(e, confirmed(snap[e], e)) /\ call[e].phase \in Sending /\ expired' = expired
  BY DEF Confirm, Sending
<1>2. /\ a \in Approvals /\ Attempted(doc, i, a) /\ e \in Calls /\ DocInv
      /\ i \in claiming(doc)
  BY <1>1, SenderWorks, ExecutorsAreCalls DEF SoundInv, TypeInv, WorksInLease
<1>3. doc \in CaseDoc /\ doc' = confirmed(doc, e) BY <1>1, <1>2, WriterHoldsDoc
<1>4. i \in DOMAIN doc.executions /\ doc.executions[i].approval = a BY <1>2 DEF Attempted
<1>5. /\ doc'.executions = [doc.executions EXCEPT ![i] = doc'.executions[i]]
      /\ doc'.executions[i].status # "claiming"
      /\ \A b \in Approvals \ {a} : doc'.approvals[b] = doc.approvals[b]
      /\ doc'.approvals[a].status # "CLAIMING"
      /\ doc'.state # "EXECUTING"
  BY <1>2, <1>3, <1>4, ConfirmedFields DEF outcome_of
<1>6. claiming(doc') = {} BY <1>2, <1>5 DEF OneClaim, claiming
<1>7. \A b \in Approvals : doc'.approvals[b].status # "CLAIMING"
  BY <1>2, <1>4, <1>5 DEF OneClaim
<1>8. OneClaim(doc') BY <1>5, <1>6, <1>7 DEF OneClaim
<1>9. /\ call'[e].phase = "idle" /\ \A f \in Executors : f # e => call'[f] = call[f]
  BY DEF Confirm, Idle, SoundInv, TypeInv, CallsOK
<1>10. \A f \in Executors : call'[f].phase \notin Sending
  BY <1>1, <1>9 DEF OneSender, Sending
<1>11. expired' \subseteq DOMAIN doc'.executions BY <1>1, <1>5
<1> QED BY <1>8, <1>10, <1>11 DEF WorksInLease, OneSender

LEMMA OthersInLease ==
  ASSUME LeaseInv, SoundInv', "slow" \notin Faults,
         \/ \E e \in Executors : SendStep(e) \/ Reread(e) \/ Reconcile(e) \/ Crash(e)
         \/ \E i \in 1..MaxExecutions : LeaseExpires(i)
         \/ \E m \in inflight : Straggler(m)
         \/ \E m \in pushed : Deliver(m)
  PROVE  LeaseInv'
<1> USE DEF LeaseInv
<1>a. call \in [Executors -> CallRec] /\ DocInv BY DEF SoundInv, TypeInv, CallsOK
<1>b. /\ "idle" \notin Sending /\ "reconcile" \notin Sending /\ "clear" \notin Sending
  BY DEF Sending
<1>1. ASSUME NEW e \in Executors, SendStep(e) \/ Reread(e) PROVE LeaseInv'
  BY <1>1, SenderStays, CalmStep
<1>2. ASSUME NEW e \in Executors, ReconcileBegin(e) PROVE LeaseInv'
  BY <1>2, <1>a, <1>b, CalmStep DEF ReconcileBegin, Get, Idle
<1>3. ASSUME NEW e \in Executors, ReconcileRow(e) PROVE LeaseInv'
  BY <1>3, <1>a, <1>b, CalmStep DEF ReconcileRow, Goto, docVars
<1>4. ASSUME NEW e \in Executors, ReconcileClear(e) PROVE LeaseInv'
  <2>1. doc \in CaseDoc /\ doc' = cleared(doc, call[e].exe) /\ expired' = expired
    BY <1>4, <1>a, ExecutorsAreCalls, WriterHoldsDoc DEF ReconcileClear
  <2>2. SameClaims(doc, doc') BY <2>1, ClearedKeeps
  <2>3. /\ call'[e].phase = "idle" /\ \A f \in Executors : f # e => call'[f] = call[f]
    BY <1>4, <1>a DEF ReconcileClear, Idle
  <2> QED BY <1>b, <2>1, <2>2, <2>3, CalmWrite
<1>5. ASSUME NEW e \in Executors, ReconcileFails(e) PROVE LeaseInv'
  BY <1>5, <1>a, <1>b, CalmStep DEF ReconcileFails, Drop, Idle
<1>6. ASSUME NEW e \in Executors, Crash(e) PROVE LeaseInv'
  BY <1>6, <1>a, <1>b, CalmStep DEF Crash, Drop, Idle
<1>7. ASSUME NEW i \in 1..MaxExecutions, LeaseExpires(i) PROVE LeaseInv'
  BY <1>7 DEF LeaseExpires, WorksInLease, OneSender, docVars
<1>8. ASSUME NEW m \in inflight, Straggler(m) PROVE LeaseInv'
  BY <1>8, CalmStep DEF Straggler, docVars
<1>9. ASSUME NEW m \in pushed, Deliver(m) PROVE LeaseInv'
  BY <1>9, CalmStep DEF Deliver, docVars
<1> QED BY <1>1, <1>2, <1>3, <1>4, <1>5, <1>6, <1>7, <1>8, <1>9 DEF Reconcile

LEMMA InitInLease == Init => LeaseInv
<1> SUFFICES ASSUME Init PROVE LeaseInv OBVIOUS
<1>1. SoundInv BY InitSound
<1>2. doc.executions = <<>> /\ doc.state = "APPROVED"
      /\ \A a \in Approvals : doc.approvals[a].status = "VALID"
  BY DEF Init, ApprovedDoc
<1>3. claiming(doc) = {} BY <1>2 DEF claiming
<1>4. \A e \in Executors : call[e].phase \notin Sending BY DEF Init, ExecInit, Idle, Sending
<1>5. expired = {} BY DEF Init, ExecInit
<1> QED BY <1>1, <1>2, <1>3, <1>4, <1>5 DEF LeaseInv, OneClaim, WorksInLease, OneSender

LEMMA NextInLease ==
  ASSUME "slow" \notin Faults PROVE LeaseInv /\ [Next]_vars => LeaseInv'
<1> SUFFICES ASSUME LeaseInv, [Next]_vars PROVE LeaseInv' OBVIOUS
<1>1. SoundInv' BY NextSound DEF LeaseInv
<1>2. CASE UNCHANGED vars
  BY <1>1, <1>2, CalmStep DEF vars, execVars, docVars
<1>3. CASE ExecNext
  BY <1>1, <1>3, ClaimStepInLease, ConfirmInLease, OthersInLease DEF ExecNext, ConfirmStep
<1> QED BY <1>2, <1>3 DEF Next

-----------------------------------------------------------------------------
(* Nobody is stranded inside the leases.                                    *)

LEMMA RetryKept ==
  ASSUME LeaseInv, Retryable(doc), ExecNext, SoundInv'
  PROVE  Retryable(doc')
<1> USE DEF LeaseInv
<1>a. DocInv BY DEF SoundInv, TypeInv
<1>b. ASSUME SameClaims(doc, doc') PROVE Retryable(doc')
  BY <1>b DEF Retryable, SameClaims, open_requests
<1>c. ASSUME doc' = doc PROVE Retryable(doc') BY <1>c
<1>1. ASSUME NEW e \in Executors, NEW a \in Approvals, Begin(e, a) PROVE Retryable(doc')
  BY <1>1, <1>c DEF Begin, Get
<1>2. ASSUME NEW e \in Executors, Deny(e) PROVE Retryable(doc')
  BY <1>2, <1>b, DeniedKeepsClaims
<1>3. ASSUME NEW e \in Executors, Claim(e) PROVE Retryable(doc')
  <2>1. doc \in CaseDoc /\ call[e].approval \in Approvals
        /\ doc' = [doc EXCEPT !.executions = Append(@, execution(call[e].approval, "claiming")),
                              !.approvals[call[e].approval].status = "CLAIMING",
                              !.state = "EXECUTING"]
    BY <1>3, <1>a, ExecutorsAreCalls, WriterHoldsDoc
       DEF Claim, SoundInv, TypeInv, CallsOK, BusyHasApproval
  <2>2. /\ doc'.approvals = [doc.approvals EXCEPT ![call[e].approval].status = "CLAIMING"]
        /\ doc'.version = doc.version /\ doc'.requests = doc.requests
        /\ doc'.state = "EXECUTING"
    BY <2>1 DEF CaseDoc
  <2>3. \A b \in Approvals : doc'.approvals[b].version = doc.approvals[b].version
    BY <2>1, <2>2 DEF CaseDoc, ApprovalRec
  <2> QED BY <2>2, <2>3 DEF Retryable, open_requests
<1>4. ASSUME NEW e \in Executors, Resume(e) PROVE Retryable(doc')
  BY <1>4, <1>a, <1>c, ExecutorsAreCalls, WriterHoldsDoc DEF Resume
<1>5. ASSUME NEW e \in Executors, LeaseRefused(e) \/ Conflict(e) PROVE Retryable(doc')
  BY <1>5, <1>c DEF LeaseRefused, Conflict, Drop
<1>6. ASSUME NEW e \in Executors, SendStep(e) \/ Reread(e) PROVE Retryable(doc')
  BY <1>6, <1>c, SenderStays
<1>7. ASSUME NEW e \in Executors, Confirm(e) PROVE Retryable(doc')
  <2> DEFINE a == call[e].approval
  <2>1. call[e].phase \in Sending BY <1>7 DEF Confirm, Sending
  <2>2. a \in Approvals /\ call[e].exe \in DOMAIN doc.executions
    BY <2>1, SenderWorks DEF Attempted
  <2>3. doc \in CaseDoc /\ doc' = confirmed(doc, e)
    BY <1>7, <1>a, ExecutorsAreCalls, WriterHoldsDoc DEF Confirm
  <2>4. /\ \A b \in Approvals : doc'.approvals[b].version = doc.approvals[b].version
        /\ doc'.version = doc.version /\ doc'.requests = doc.requests
    <3>1. LET n == confirmed(doc, e) IN
            /\ \A b \in Approvals : n.approvals[b].version = doc.approvals[b].version
            /\ n.version = doc.version /\ n.requests = doc.requests
      BY <2>2, <2>3, ConfirmedFields
    <3> QED BY <2>3, <3>1
  <2>5. outcome_of(doc, a) \in {"RELEASED_BY_HUMAN", "BLOCKED_BY_HUMAN"} BY DEF outcome_of
  <2>6. CASE published(e)
    <3>1. doc'.state = outcome_of(doc, a) BY <2>2, <2>3, <2>6, ConfirmedFields
    <3> QED BY <2>4, <2>5, <3>1 DEF Retryable, open_requests
  <2>7. CASE ~published(e)
    <3>1. doc'.approvals[a].status = "VALID" BY <2>2, <2>3, <2>7, ConfirmedFields
    <3> QED BY <2>2, <2>4, <3>1 DEF Retryable, open_requests
  <2> QED BY <2>6, <2>7
<1>8. ASSUME NEW e \in Executors, Reconcile(e) PROVE Retryable(doc')
  <2>1. CASE ReconcileClear(e)
    <3>1. doc \in CaseDoc /\ doc' = cleared(doc, call[e].exe)
      BY <1>a, <2>1, ExecutorsAreCalls, WriterHoldsDoc DEF ReconcileClear
    <3>2. SameClaims(doc, doc') BY <3>1, ClearedKeeps
    <3> QED BY <1>b, <3>2
  <2>2. CASE ReconcileBegin(e) \/ ReconcileRow(e) \/ ReconcileFails(e)
    BY <1>c, <2>2 DEF ReconcileBegin, ReconcileRow, ReconcileFails, Get, Drop, docVars
  <2> QED BY <1>8, <2>1, <2>2 DEF Reconcile
<1>9. ASSUME NEW e \in Executors, Crash(e) PROVE Retryable(doc')
  BY <1>9, <1>c DEF Crash, Drop
<1>10. CASE \/ \E i \in 1..MaxExecutions : LeaseExpires(i)
            \/ \E m \in inflight : Straggler(m)
            \/ \E m \in pushed : Deliver(m)
  BY <1>10, <1>c DEF LeaseExpires, Straggler, Deliver, docVars
<1> QED BY <1>1, <1>2, <1>3, <1>4, <1>5, <1>6, <1>7, <1>8, <1>9, <1>10
        DEF ExecNext, ClaimStep, ConfirmStep

-----------------------------------------------------------------------------
(* The books: no gap in the trail that the case does not show.              *)

Booked(tr, a) == \E r \in tr : r.approval = a

NamedRows(tr) == \A r \in tr : r.message # NoMessage

GapsShown(d, tr) ==
  /\ \A i \in DOMAIN d.executions :
       d.executions[i].pending => d.executions[i].status = "sent" /\ d.auditPending
  /\ \A a \in Approvals : d.approvals[a].status = "EXECUTED" =>
       \/ Booked(tr, a)
       \/ \E i \in DOMAIN d.executions : d.executions[i].approval = a /\ d.executions[i].pending

Books(k, d, tr) ==
  /\ k.phase \in {"confirm", "confirming"} /\ k.outcome = "done" => Booked(tr, k.approval)
  /\ k.phase = "reconcile" => k.message # NoMessage
  /\ k.phase \in {"reconcile", "clear"} =>
       k.exe \in DOMAIN d.executions /\ d.executions[k.exe].approval = k.approval
  /\ k.phase = "clear" => Booked(tr, k.approval)

BooksInv == /\ LeaseInv
            /\ NamedRows(trail)
            /\ GapsShown(doc, trail)
            /\ \A e \in Executors : Books(call[e], doc, trail)

LEMMA BookedStays == ASSUME NEW tr, NEW t2, tr \subseteq t2, NEW a, Booked(tr, a)
                     PROVE  Booked(t2, a)
BY DEF Booked

\* Entries stay where they are and keep their approval.
Longer(d, n) == \A i \in DOMAIN d.executions :
                  i \in DOMAIN n.executions /\ n.executions[i].approval = d.executions[i].approval

LEMMA BooksStay ==
  ASSUME NEW k, NEW d, NEW n, NEW tr, NEW t2, tr \subseteq t2, Longer(d, n), Books(k, d, tr)
  PROVE  Books(k, n, t2)
BY BookedStays DEF Books, Longer

LEMMA GapsStay ==
  ASSUME NEW d, NEW tr, NEW t2, tr \subseteq t2, GapsShown(d, tr) PROVE GapsShown(d, t2)
BY BookedStays DEF GapsShown

\* A step of one call, seen from the books.
LEMMA BookFrame ==
  ASSUME BooksInv, LeaseInv', NEW e \in Executors,
         \A f \in Executors : f # e => call'[f] = call[f],
         trail \subseteq trail', NamedRows(trail'), Longer(doc, doc'), GapsShown(doc', trail'),
         Books(call'[e], doc', trail')
  PROVE  BooksInv'
BY BooksStay DEF BooksInv

LEMMA QuietBooks ==
  ASSUME BooksInv, LeaseInv', NEW e \in Executors,
         \A f \in Executors : f # e => call'[f] = call[f],
         UNCHANGED <<trail, doc>>, Books(call'[e], doc, trail)
  PROVE  BooksInv'
BY DEF BooksInv

LEMMA TrailBooks ==
  ASSUME BooksInv, LeaseInv', NEW e \in Executors,
         \A f \in Executors : f # e => call'[f] = call[f],
         trail \subseteq trail', NamedRows(trail'), doc' = doc, Books(call'[e], doc, trail')
  PROVE  BooksInv'
<1>1. Longer(doc, doc') /\ GapsShown(doc', trail') BY GapsStay DEF Longer, BooksInv
<1> QED BY <1>1, BookFrame

LEMMA NoBooks ==
  ASSUME NEW k, \/ k.phase \notin {"confirm", "confirming", "reconcile", "clear"}
                \/ k.phase \in {"confirm", "confirming"} /\ k.outcome # "done",
         NEW d, NEW tr
  PROVE  Books(k, d, tr)
BY DEF Books

LEMMA AuditOnceBooks ==
  ASSUME TrailSound(trail, topic), NamedRows(trail), NEW new,
         \A r \in new : r.audit_id = r.approval /\ r.message # NoMessage
  PROVE  /\ trail \subseteq AuditOnce(new) /\ NamedRows(AuditOnce(new))
         /\ \A r \in new : Booked(AuditOnce(new), r.approval)
BY DEF TrailSound, NamedRows, AuditOnce, Booked

LEMMA OneRowBooks ==
  ASSUME TrailSound(trail, topic), NamedRows(trail), NEW a, NEW m, m # NoMessage
  PROVE  /\ trail \subseteq AuditOnce({publish_row(a, m)})
         /\ NamedRows(AuditOnce({publish_row(a, m)}))
         /\ Booked(AuditOnce({publish_row(a, m)}), a)
<1>1. publish_row(a, m).audit_id = a /\ publish_row(a, m).approval = a
      /\ publish_row(a, m).message = m
  BY DEF publish_row
<1> QED BY <1>1, AuditOnceBooks

LEMMA LedgerRowsBook ==
  ASSUME BooksInv, NEW batch \in SUBSET ledger, NEW new \in settled(batch)
  PROVE  /\ trail \subseteq AuditOnce(new) /\ NamedRows(AuditOnce(new))
         /\ \A m \in batch : Booked(AuditOnce(new), m.approval)
<1>1. \A r \in new : \E m \in batch : r = publish_row(m.approval, m.id) BY DEF settled
<1>2. batch \subseteq Message BY DEF BooksInv, LeaseInv, SoundInv, TypeInv, BrokerOK
<1>3. \A r \in new : r.audit_id = r.approval /\ r.message # NoMessage
  BY <1>1, <1>2, SentinelsApart DEF publish_row, Message
<1>4. \A m \in batch : \E r \in new : r.approval = m.approval
  <2>1. {r.approval : r \in new} = {m.approval : m \in batch} BY DEF settled
  <2> QED BY <2>1
<1>5. TrailSound(trail, topic) /\ NamedRows(trail) BY DEF BooksInv, LeaseInv, SoundInv
<1>6. /\ trail \subseteq AuditOnce(new) /\ NamedRows(AuditOnce(new))
      /\ \A r \in new : Booked(AuditOnce(new), r.approval)
  BY <1>3, <1>5, AuditOnceBooks
<1> QED BY <1>4, <1>6

LEMMA OnIsNamed == ASSUME SoundInv, NEW m, NEW a, On(topic, m, a) PROVE m # NoMessage
BY SentinelsApart DEF On, SoundInv, TypeInv, BrokerOK, Message

LEMMA ClaimStepBooks ==
  ASSUME BooksInv, LeaseInv', NEW e \in Executors, ClaimStep(e)
  PROVE  BooksInv'
<1> USE DEF BooksInv
<1>a. /\ e \in Calls /\ DocInv /\ call \in [Executors -> CallRec] /\ SoundInv
      /\ call[e].phase # "idle" => call[e].approval \in Approvals
  BY ExecutorsAreCalls DEF LeaseInv, SoundInv, TypeInv, CallsOK, BusyHasApproval
<1>1. ASSUME NEW a \in Approvals, Begin(e, a) PROVE BooksInv'
  <2>1. call'[e].phase = "loaded" /\ \A f \in Executors : f # e => call'[f] = call[f]
    BY <1>1, <1>a DEF Begin, Idle
  <2> QED BY <1>1, <2>1, NoBooks, QuietBooks DEF Begin, Get, auditVars
<1>e. ASSUME call' = [call EXCEPT ![e] = Idle]
      PROVE  call'[e].phase = "idle" /\ \A f \in Executors : f # e => call'[f] = call[f]
  BY <1>a, <1>e DEF Idle
\* One more entry, without a gap; no approval becomes EXECUTED.
<1>g. ASSUME NEW x, x.pending = FALSE, doc \in CaseDoc,
             doc'.executions = Append(doc.executions, x), doc'.auditPending = doc.auditPending,
             \A b \in Approvals : doc'.approvals[b].status = "EXECUTED" =>
                                    doc.approvals[b].status = "EXECUTED"
      PROVE  Longer(doc, doc') /\ GapsShown(doc', trail)
  <2> DEFINE k == Len(doc.executions)
  <2>1. doc.executions \in Seq(ExecutionRec) /\ k \in Nat /\ DOMAIN doc.executions = 1..k
    BY <1>g DEF CaseDoc
  <2>2. /\ DOMAIN doc'.executions = 1..(k + 1)
        /\ \A i \in 1..k : doc'.executions[i] = doc.executions[i]
        /\ doc'.executions[k + 1] = x
    BY <1>g, <2>1
  <2>3. Longer(doc, doc') BY <2>1, <2>2 DEF Longer
  <2>4. \A i \in DOMAIN doc'.executions : i \in DOMAIN doc.executions \/ i = k + 1
    BY <2>1, <2>2
  <2>5. GapsShown(doc', trail) BY <1>g, <2>1, <2>2, <2>4 DEF GapsShown
  <2> QED BY <2>3, <2>5
<1>2. CASE Deny(e)
  <2> DEFINE x == execution(call[e].approval, "denied")
  <2>1. snap[e] = doc /\ doc \in CaseDoc
        /\ doc' = [snap[e] EXCEPT !.executions = IF Len(@) < MaxExecutions
                                                 THEN Append(@, x) ELSE @]
    BY <1>2, <1>a, WriterHoldsDoc DEF Deny
  <2>2. /\ doc'.executions = Append(doc.executions, x) \/ doc' = doc
        /\ doc'.approvals = doc.approvals /\ doc'.auditPending = doc.auditPending
    BY <2>1 DEF CaseDoc
  <2>3. x.pending = FALSE BY DEF execution
  <2>4. Longer(doc, doc') /\ GapsShown(doc', trail)
    <3>1. CASE doc' = doc BY <3>1 DEF Longer
    <3>2. CASE doc'.executions = Append(doc.executions, x) BY <1>g, <2>1, <2>2, <2>3, <3>2
    <3> QED BY <2>2, <3>1, <3>2
  <2>5. trail' = trail /\ call' = [call EXCEPT ![e] = Idle] BY <1>2 DEF Deny, auditVars
  <2> QED BY <1>e, <2>4, <2>5, NoBooks, BookFrame
<1>3. CASE Claim(e)
  <2> DEFINE a == call[e].approval
             x == execution(a, "claiming")
  <2>1. snap[e] = doc /\ doc \in CaseDoc /\ a \in Approvals
        /\ doc' = [snap[e] EXCEPT !.executions = Append(@, x), !.approvals[a].status = "CLAIMING",
                                  !.state = "EXECUTING"]
    BY <1>3, <1>a, WriterHoldsDoc DEF Claim
  <2>2. /\ doc'.executions = Append(doc.executions, x)
        /\ doc'.approvals = [doc.approvals EXCEPT ![a].status = "CLAIMING"]
        /\ doc'.auditPending = doc.auditPending
    BY <2>1 DEF CaseDoc
  <2>3. x.pending = FALSE BY DEF execution
  <2>4. \A b \in Approvals : doc'.approvals[b].status = "EXECUTED" =>
                               doc.approvals[b].status = "EXECUTED"
    BY <2>1, <2>2 DEF CaseDoc, ApprovalRec
  <2>5. Longer(doc, doc') /\ GapsShown(doc', trail) BY <1>g, <2>1, <2>2, <2>3, <2>4
  <2>6. /\ call'[e].phase = "tool" /\ \A f \in Executors : f # e => call'[f] = call[f]
        /\ trail' = trail
    BY <1>3, <1>a DEF Claim, StartSend, Idle, auditVars
  <2> QED BY <2>5, <2>6, NoBooks, BookFrame
<1>4. CASE Resume(e)
  <2>1. doc' = doc BY <1>4, <1>a, WriterHoldsDoc DEF Resume
  <2>2. /\ call'[e].phase = "tool" /\ \A f \in Executors : f # e => call'[f] = call[f]
        /\ trail' = trail
    BY <1>4, <1>a DEF Resume, StartSend, Idle, auditVars
  <2> QED BY <2>1, <2>2, NoBooks, QuietBooks
<1>5. CASE LeaseRefused(e) BY <1>5, <1>e, NoBooks, QuietBooks DEF LeaseRefused, Drop, auditVars
<1>6. CASE Conflict(e) BY <1>6, <1>e, NoBooks, QuietBooks DEF Conflict, Drop, auditVars
<1> QED BY <1>1, <1>2, <1>3, <1>4, <1>5, <1>6 DEF ClaimStep

LEMMA SendStepBooks ==
  ASSUME BooksInv, LeaseInv', NEW e \in Executors, SendStep(e)
  PROVE  BooksInv'
<1> USE DEF BooksInv
<1> DEFINE a == call[e].approval
<1>a. /\ SoundInv /\ TrailSound(trail, topic) /\ Knows(call[e], topic)
      /\ call \in [Executors -> CallRec]
  BY DEF LeaseInv, SoundInv, CallsSound, CallSound, TypeInv, CallsOK
<1>b. doc' = doc /\ \A f \in Executors : f # e => call'[f] = call[f] BY <1>a, SenderStays
<1>c. call'[e].approval = a BY <1>a, SenderStays
<1>e. ASSUME UseEarlier(e) PROVE Books(call'[e], doc, trail)
  <2> PICK r \in rows(a) : Receipt(e, "done", r.message) BY <1>e DEF UseEarlier
  <2>1. Booked(trail, a) BY DEF rows, Booked
  <2>2. call'[e].phase = "confirm" BY <1>a, Received
  <2> QED BY <1>c, <2>1, <2>2 DEF Books
<1>1. CASE Tool(e) BY <1>1, <1>a, <1>b, GoneTo, NoBooks, QuietBooks DEF Tool
<1>2. CASE StoreFails(e)
  BY <1>2, <1>a, <1>b, Received, NoBooks, QuietBooks DEF StoreFails, auditVars
<1>3. CASE Lookup(e)
  <2>1. CASE UseEarlier(e) BY <1>3, <1>b, <1>e, <2>1, QuietBooks DEF Lookup, auditVars
  <2>2. CASE ~UseEarlier(e)
    <3>1. PICK phase \in {"ledger", "publish"} : Goto(e, phase) BY <1>3, <2>2 DEF Lookup
    <3> QED BY <1>3, <1>a, <1>b, <3>1, GoneTo, NoBooks, QuietBooks DEF Lookup, auditVars
  <2> QED BY <2>1, <2>2
<1>4. CASE Settle(e)
  <2> PICK batch \in SUBSET ledger : \E new \in settled(batch) : trail' = AuditOnce(new)
    BY <1>4 DEF Settle
  <2> PICK new \in settled(batch) : trail' = AuditOnce(new) OBVIOUS
  <2>1. trail \subseteq trail' /\ NamedRows(trail') BY LedgerRowsBook
  <2>2. call'[e].phase = "relookup" BY <1>4, <1>a, GoneTo DEF Settle
  <2> QED BY <1>b, <2>1, <2>2, NoBooks, TrailBooks
<1>5. CASE LedgerUnreadable(e)
  <2> PICK batch \in SUBSET ledger : \E new \in settled(batch) : trail' = AuditOnce(new)
    BY <1>5 DEF LedgerUnreadable
  <2> PICK new \in settled(batch) : trail' = AuditOnce(new) OBVIOUS
  <2>1. trail \subseteq trail' /\ NamedRows(trail') BY LedgerRowsBook
  <2>2. call'[e].phase = "confirm" /\ call'[e].outcome # "done"
    BY <1>5, <1>a, Received DEF LedgerUnreadable
  <2> QED BY <1>b, <2>1, <2>2, NoBooks, TrailBooks
<1>6. CASE Relookup(e)
  <2>1. CASE UseEarlier(e) BY <1>6, <1>b, <1>e, <2>1, QuietBooks DEF Relookup, auditVars
  <2>2. CASE Goto(e, "publish")
    BY <1>6, <1>a, <1>b, <2>2, GoneTo, NoBooks, QuietBooks DEF Relookup, auditVars
  <2> QED BY <1>6, <2>1, <2>2 DEF Relookup
<1>7. CASE Submit(e)
  <2>1. call'[e].phase = "sending" BY <1>7, <1>a DEF Submit
  <2> QED BY <1>7, <1>b, <2>1, NoBooks, QuietBooks DEF Submit, auditVars
<1>8. CASE Accepted(e) BY <1>8, <1>a, <1>b, GoneTo, NoBooks, QuietBooks DEF Accepted, auditVars
<1>9. CASE TimedOut(e)
  <2>1. call'[e].phase = "confirm" /\ call'[e].outcome \in {"unknown", "none"}
    BY <1>9, <1>a DEF TimedOut, CallRec
  <2> QED BY <1>9, <1>b, <2>1, NoBooks, QuietBooks DEF TimedOut, auditVars
<1>10. CASE Rejected(e)
  BY <1>10, <1>a, <1>b, Received, NoBooks, QuietBooks DEF Rejected, auditVars
<1>11. CASE SaveLookup(e)
  <2>1. CASE UseEarlier(e) BY <1>11, <1>b, <1>e, <2>1, QuietBooks DEF SaveLookup, auditVars
  <2>2. CASE Goto(e, "append")
    BY <1>11, <1>a, <1>b, <2>2, GoneTo, NoBooks, QuietBooks DEF SaveLookup, auditVars
  <2> QED BY <1>11, <2>1, <2>2 DEF SaveLookup
<1>12. CASE Save(e)
  <2>1. call[e].message # NoMessage BY <1>12, <1>a, OnIsNamed DEF Save, Knows
  <2>2. trail \subseteq trail' /\ NamedRows(trail') /\ Booked(trail', a)
    BY <1>12, <1>a, <2>1, OneRowBooks DEF Save
  <2>3. PICK m : Receipt(e, "done", m) BY <1>12 DEF Save
  <2>4. call'[e].phase = "confirm" BY <1>a, <2>3, Received
  <2>5. Books(call'[e], doc, trail') BY <1>c, <2>2, <2>4 DEF Books
  <2> QED BY <1>b, <2>2, <2>5, TrailBooks
<1>13. CASE SaveFails(e)
  BY <1>13, <1>a, <1>b, Received, NoBooks, QuietBooks DEF SaveFails, auditVars
<1> QED BY <1>1, <1>2, <1>3, <1>4, <1>5, <1>6, <1>7, <1>8, <1>9, <1>10, <1>11, <1>12, <1>13
        DEF SendStep

LEMMA ConfirmBooks ==
  ASSUME BooksInv, LeaseInv', NEW e \in Executors, Confirm(e)
  PROVE  BooksInv'
<1> USE DEF BooksInv
<1> DEFINE a == call[e].approval
           i == call[e].exe
           x == doc'.executions[i]
<1>1. call[e].phase \in Sending /\ call[e].phase = "confirming" BY DEF Confirm, Sending
<1>2. /\ a \in Approvals /\ i \in DOMAIN doc.executions /\ doc.executions[i].approval = a
      /\ i \in claiming(doc) /\ SoundInv
  BY <1>1, SenderWorks DEF Attempted, LeaseInv, WorksInLease
<1>3. doc \in CaseDoc /\ doc' = confirmed(doc, e)
  BY ExecutorsAreCalls, WriterHoldsDoc DEF Confirm, LeaseInv, SoundInv, TypeInv
<1>4. /\ doc'.executions = [doc.executions EXCEPT ![i] = x] /\ x.approval = a
      /\ \A b \in Approvals \ {a} : doc'.approvals[b] = doc.approvals[b]
  BY <1>2, <1>3, ConfirmedFields
<1>5. /\ DOMAIN doc'.executions = DOMAIN doc.executions
      /\ \A j \in DOMAIN doc.executions : j # i => doc'.executions[j] = doc.executions[j]
  BY <1>4
<1>6. Longer(doc, doc') BY <1>2, <1>4, <1>5 DEF Longer
<1>7. ~doc.executions[i].pending BY <1>2 DEF claiming, GapsShown
<1>8. GapsShown(doc', trail)
  <2>1. CASE published(e)
    <3>1. /\ x.status = "sent" /\ x.pending = (doc.executions[i].pending \/ call[e].outcome = "unsaved")
          /\ doc'.auditPending = (doc.auditPending \/ call[e].outcome = "unsaved")
      BY <1>2, <1>3, <2>1, ConfirmedFields
    <3>2. call[e].outcome = "unsaved" \/ Booked(trail, a)
      BY <1>1, <2>1 DEF published, Books
    <3> HIDE DEF x
    <3>3. \A j \in DOMAIN doc'.executions :
            doc'.executions[j].pending => doc'.executions[j].status = "sent" /\ doc'.auditPending
      BY <1>5, <1>7, <3>1 DEF GapsShown, x
    <3>4. \A b \in Approvals : doc'.approvals[b].status = "EXECUTED" =>
            \/ Booked(trail, b)
            \/ \E j \in DOMAIN doc'.executions :
                 doc'.executions[j].approval = b /\ doc'.executions[j].pending
      <4>1. ASSUME NEW b \in Approvals \ {a}, doc'.approvals[b].status = "EXECUTED",
                   ~Booked(trail, b)
            PROVE  \E j \in DOMAIN doc'.executions :
                     doc'.executions[j].approval = b /\ doc'.executions[j].pending
        BY <1>2, <1>4, <1>5, <4>1 DEF GapsShown
      <4>2. Booked(trail, a) \/ (x.approval = a /\ x.pending) BY <1>4, <3>1, <3>2
      <4> QED BY <1>2, <1>5, <4>1, <4>2 DEF x
    <3> QED BY <3>3, <3>4 DEF GapsShown
  <2>2. CASE ~published(e)
    <3>1. /\ x.pending = doc.executions[i].pending /\ doc'.auditPending = doc.auditPending
          /\ doc'.approvals[a].status = "VALID"
      BY <1>2, <1>3, <2>2, ConfirmedFields
    <3> HIDE DEF x
    <3>2. \A j \in DOMAIN doc'.executions :
            doc'.executions[j].pending => doc'.executions[j].status = "sent" /\ doc'.auditPending
      BY <1>5, <1>7, <3>1 DEF GapsShown, x
    <3>3. \A b \in Approvals : doc'.approvals[b].status = "EXECUTED" =>
            \/ Booked(trail, b)
            \/ \E j \in DOMAIN doc'.executions :
                 doc'.executions[j].approval = b /\ doc'.executions[j].pending
      BY <1>2, <1>4, <1>5, <3>1 DEF GapsShown
    <3> QED BY <3>2, <3>3 DEF GapsShown
  <2> QED BY <2>1, <2>2
<1>9. trail' = trail /\ call'[e].phase = "idle" /\ \A f \in Executors : f # e => call'[f] = call[f]
  BY <1>2 DEF Confirm, auditVars, Idle, SoundInv, TypeInv, CallsOK
<1> QED BY <1>6, <1>8, <1>9, NoBooks, BookFrame

LEMMA ReconcileBooks ==
  ASSUME BooksInv, LeaseInv', NEW e \in Executors, Reconcile(e)
  PROVE  BooksInv'
<1> USE DEF BooksInv
<1> DEFINE a == call[e].approval
           i == call[e].exe
<1>a. /\ SoundInv /\ DocInv /\ TrailSound(trail, topic) /\ DocSound(doc, topic) /\ e \in Calls
      /\ call \in [Executors -> CallRec] /\ Books(call[e], doc, trail)
  BY ExecutorsAreCalls DEF LeaseInv, SoundInv, TypeInv, CallsOK
<1>1. CASE ReconcileBegin(e)
  <2>1. PICK j \in DOMAIN doc.executions :
          /\ doc.executions[j].pending
          /\ call' = [call EXCEPT ![e] = [Idle EXCEPT
                        !.phase = "reconcile", !.exe = j,
                        !.approval = doc.executions[j].approval,
                        !.message  = doc.executions[j].message]]
    BY <1>1 DEF ReconcileBegin
  <2>2. doc.executions[j].message # NoMessage BY <1>a, <2>1 DEF GapsShown, DocSound
  <2>3. /\ call'[e].phase = "reconcile" /\ call'[e].exe = j
        /\ call'[e].approval = doc.executions[j].approval
        /\ call'[e].message = doc.executions[j].message
        /\ \A f \in Executors : f # e => call'[f] = call[f]
    BY <1>a, <2>1 DEF Idle
  <2>4. Books(call'[e], doc, trail) BY <2>1, <2>2, <2>3 DEF Books
  <2> QED BY <1>1, <2>3, <2>4, QuietBooks DEF ReconcileBegin, Get, auditVars
<1>2. CASE ReconcileRow(e)
  <2>1. /\ call'[e].phase = "clear" /\ call'[e].exe = i /\ call'[e].approval = a
        /\ \A f \in Executors : f # e => call'[f] = call[f]
    BY <1>2, <1>a, GoneTo DEF ReconcileRow
  <2>2. /\ call[e].message # NoMessage
        /\ i \in DOMAIN doc.executions /\ doc.executions[i].approval = a
    BY <1>2, <1>a DEF ReconcileRow, Books
  <2>3. trail \subseteq trail' /\ NamedRows(trail') /\ Booked(trail', a)
    <3>1. CASE rows(a) # {} BY <1>2, <3>1 DEF ReconcileRow, rows, Booked
    <3>2. CASE rows(a) = {} BY <1>2, <1>a, <2>2, <3>2, OneRowBooks DEF ReconcileRow
    <3> QED BY <3>1, <3>2
  <2>4. Books(call'[e], doc, trail') BY <2>1, <2>2, <2>3 DEF Books
  <2> QED BY <1>2, <2>1, <2>3, <2>4, TrailBooks DEF ReconcileRow, docVars
<1>3. CASE ReconcileClear(e)
  <2>1. doc \in CaseDoc /\ doc' = cleared(doc, i)
    BY <1>3, <1>a, WriterHoldsDoc DEF ReconcileClear
  <2>2. Booked(trail, a) /\ i \in DOMAIN doc.executions /\ doc.executions[i].approval = a
    BY <1>3, <1>a DEF ReconcileClear, Books
  <2>3. /\ DOMAIN doc'.executions = DOMAIN doc.executions
        /\ \A j \in DOMAIN doc.executions :
             /\ doc'.executions[j].approval = doc.executions[j].approval
             /\ doc'.executions[j].status = doc.executions[j].status
             /\ doc'.executions[j].pending = (j # i /\ doc.executions[j].pending)
        /\ doc'.auditPending = (\E j \in DOMAIN doc.executions : j # i /\ doc.executions[j].pending)
        /\ doc'.approvals = doc.approvals
    BY <2>1, ClearedKeeps DEF SameClaims
  <2>4. Longer(doc, doc') BY <2>3 DEF Longer
  <2>5. GapsShown(doc', trail)
    <3>1. ASSUME NEW j \in DOMAIN doc'.executions, doc'.executions[j].pending
          PROVE  doc'.executions[j].status = "sent" /\ doc'.auditPending
      <4>1. j \in DOMAIN doc.executions /\ j # i /\ doc.executions[j].pending BY <2>3, <3>1
      <4> QED BY <2>3, <4>1 DEF GapsShown
    <3>2. ASSUME NEW b \in Approvals, doc'.approvals[b].status = "EXECUTED", ~Booked(trail, b)
          PROVE  \E j \in DOMAIN doc'.executions :
                   doc'.executions[j].approval = b /\ doc'.executions[j].pending
      <4>1. doc.approvals[b].status = "EXECUTED" BY <2>3, <3>2
      <4>2. PICK j \in DOMAIN doc.executions :
              doc.executions[j].approval = b /\ doc.executions[j].pending
        BY <3>2, <4>1 DEF GapsShown
      <4>3. j # i BY <2>2, <3>2, <4>2
      <4>4. doc'.executions[j].approval = b /\ doc'.executions[j].pending BY <2>3, <4>2, <4>3
      <4> QED BY <2>3, <4>2, <4>4
    <3> QED BY <3>1, <3>2 DEF GapsShown
  <2>6. trail' = trail /\ call'[e].phase = "idle" /\ \A f \in Executors : f # e => call'[f] = call[f]
    BY <1>3, <1>a DEF ReconcileClear, auditVars, Idle
  <2> QED BY <2>4, <2>5, <2>6, NoBooks, BookFrame
<1>4. CASE ReconcileFails(e)
  <2>1. /\ call'[e].phase = "idle" /\ \A f \in Executors : f # e => call'[f] = call[f]
        /\ UNCHANGED <<trail, doc>>
    BY <1>4, <1>a DEF ReconcileFails, Drop, auditVars, Idle
  <2> QED BY <2>1, NoBooks, QuietBooks
<1> QED BY <1>1, <1>2, <1>3, <1>4 DEF Reconcile

LEMMA InitInBooks == Init => BooksInv
<1> SUFFICES ASSUME Init PROVE BooksInv OBVIOUS
<1>1. LeaseInv BY InitInLease
<1>2. doc.executions = <<>> /\ \A a \in Approvals : doc.approvals[a].status = "VALID"
  BY DEF Init, ApprovedDoc
<1>3. trail = {} /\ \A e \in Executors : call[e].phase = "idle" BY DEF Init, ExecInit, Idle
<1>4. GapsShown(doc, trail) BY <1>2 DEF GapsShown
<1> QED BY <1>1, <1>3, <1>4, NoBooks DEF BooksInv, NamedRows

LEMMA NextInBooks ==
  ASSUME "slow" \notin Faults PROVE BooksInv /\ [Next]_vars => BooksInv'
<1> SUFFICES ASSUME BooksInv, [Next]_vars PROVE BooksInv' OBVIOUS
<1>1. LeaseInv' BY NextInLease DEF BooksInv
<1>2. ASSUME UNCHANGED <<call, trail, doc>> PROVE BooksInv' BY <1>1, <1>2 DEF BooksInv
<1>3. ASSUME NEW e \in Executors, Reread(e) PROVE BooksInv'
  <2>1. /\ call[e].phase = "confirm" /\ Books(call[e], doc, trail) /\ SoundInv
        /\ Goto(e, "confirming") /\ UNCHANGED <<doc, trail>>
    BY <1>3 DEF Reread, Get, auditVars, BooksInv, LeaseInv
  <2>2. /\ \A f \in Executors : f # e => call'[f] = call[f]
        /\ call'[e].phase = "confirming" /\ call'[e].approval = call[e].approval
        /\ call'[e].outcome = call[e].outcome
    BY <2>1, GoneTo
  <2>3. Books(call'[e], doc, trail) BY <2>1, <2>2 DEF Books
  <2> QED BY <1>1, <2>1, <2>2, <2>3, QuietBooks
<1>4. ASSUME NEW e \in Executors, Crash(e) PROVE BooksInv'
  <2>1. /\ call'[e].phase = "idle" /\ \A f \in Executors : f # e => call'[f] = call[f]
        /\ UNCHANGED <<trail, doc>>
    BY <1>4 DEF Crash, Drop, auditVars, Idle, BooksInv, LeaseInv, SoundInv, TypeInv, CallsOK
  <2> QED BY <1>1, <2>1, NoBooks, QuietBooks
<1>5. CASE ExecNext
  BY <1>1, <1>2, <1>3, <1>4, <1>5, ClaimStepBooks, SendStepBooks, ConfirmBooks, ReconcileBooks
     DEF ExecNext, ConfirmStep, LeaseExpires, Straggler, Deliver, docVars, auditVars
<1>6. CASE UNCHANGED vars BY <1>2, <1>6 DEF vars, execVars, docVars, auditVars
<1> QED BY <1>5, <1>6 DEF Next


-----------------------------------------------------------------------------
(* With the ledger, no late messages and no partial pulls: sent once.       *)

OneEach(T) == \A m, n \in T : m.approval = n.approval => m = n

\* A first attempt starts from an empty topic; a call that is about to publish
\* has made sure that its decision is not on the topic.
Once(k, T, L) ==
  /\ k.phase \in {"tool", "lookup"} /\ ~k.after => T = {}
  /\ k.phase = "relookup" => L = {}
  /\ k.phase \in {"publish", "sending"} => \A m \in T : m.approval # k.approval

Awaited(m) == \E e \in Executors : call[e].phase = "sending" /\ call[e].message = m.id

OnceInv == /\ BooksInv
           /\ doc.state = "APPROVED" => topic = {}
           /\ OneEach(topic)
           /\ \A m \in topic : Booked(trail, m.approval) \/ m \in ledger
           /\ \A m \in inflight : Awaited(m)
           /\ \A e \in Executors : Once(call[e], topic, ledger)

LEMMA NoOnce ==
  ASSUME NEW k, k.phase \notin {"tool", "lookup", "relookup", "publish", "sending"}, NEW T, NEW L
  PROVE  Once(k, T, L)
BY DEF Once

\* A step of one call that does not talk to the broker.
LEMMA OnceFrame ==
  ASSUME OnceInv, BooksInv', NEW e \in Executors,
         \A f \in Executors : f # e => call'[f] = call[f],
         call[e].phase # "sending", UNCHANGED brokerVars, trail \subseteq trail',
         doc'.state = "APPROVED" => doc.state = "APPROVED",
         Once(call'[e], topic, ledger)
  PROVE  OnceInv'
<1>1. UNCHANGED <<submitted, inflight, topic, ledger, pushed>> BY DEF brokerVars
<1>2. \A m \in topic : Booked(trail', m.approval) \/ m \in ledger
  BY BookedStays DEF OnceInv
<1>3. \A m \in inflight : Awaited(m)' BY DEF OnceInv, Awaited
<1> QED BY <1>1, <1>2, <1>3 DEF OnceInv

\* Nothing else is on its way while a call waits for the broker.
LEMMA OnlyMessage ==
  ASSUME OnceInv, NEW e \in Executors, call[e].phase = "sending"
  PROVE  \A m \in inflight : /\ m.id = call[e].message /\ m.approval = call[e].approval
                             /\ \A n \in inflight : m = n
<1>1. OneSender /\ Sends(call[e], inflight, submitted) /\ inflight \subseteq Message
  BY DEF OnceInv, BooksInv, LeaseInv, SoundInv, CallsSound, CallSound, TypeInv, BrokerOK
<1>2. ASSUME NEW m \in inflight PROVE m.id = call[e].message
  <2>1. PICK f \in Executors : call[f].phase = "sending" /\ call[f].message = m.id
    BY DEF OnceInv, Awaited
  <2>2. f = e BY <1>1, <2>1 DEF OneSender, Sending
  <2> QED BY <2>1, <2>2
<1>3. \A m \in inflight : m.approval = call[e].approval BY <1>1, <1>2 DEF Sends
<1>4. \A m, n \in inflight : m.id = n.id /\ m.approval = n.approval => m = n
  BY <1>1 DEF Message
<1> QED BY <1>2, <1>3, <1>4

LEMMA NothingOnItsWay ==
  ASSUME OnceInv, NEW e \in Executors, call[e].phase \in Sending \ {"sending"}
  PROVE  inflight = {}
BY DEF OnceInv, BooksInv, LeaseInv, OneSender, Awaited, Sending

\* The broker answers, or the sender is killed while it waits.
LEMMA OnceTakes ==
  ASSUME OnceInv, BooksInv', Ledger, NEW e \in Executors, call[e].phase = "sending",
         NEW m \in inflight, BrokerAccepts(m) \/ BrokerLoses(m),
         \A f \in Executors : f # e => call'[f] = call[f],
         call'[e].phase \notin {"tool", "lookup", "relookup", "publish", "sending"},
         UNCHANGED <<trail, doc>>
  PROVE  OnceInv'
<1>1. inflight' = {}
  <2>1. inflight' = inflight \ {m} BY DEF BrokerAccepts, BrokerLoses
  <2> QED BY <2>1, OnlyMessage
<1>2. \A f \in Executors : Once(call'[f], topic', ledger')
  <2>1. \A f \in Executors : f # e => call[f].phase \notin Sending
    BY DEF OnceInv, BooksInv, LeaseInv, OneSender, Sending
  <2>2. ASSUME NEW f \in Executors
        PROVE  call'[f].phase \notin {"tool", "lookup", "relookup", "publish", "sending"}
    BY <2>1 DEF Sending
  <2> QED BY <2>2, NoOnce
<1>3. doc.state # "APPROVED"
  BY DEF OnceInv, BooksInv, LeaseInv, WorksInLease, OneClaim, Sending
<1>4. m.approval = call[e].approval /\ \A n \in topic : n.approval # call[e].approval
  BY OnlyMessage DEF OnceInv, Once
<1>5. CASE BrokerAccepts(m)
  <2>1. topic' = topic \cup {m} /\ ledger' = ledger \cup {m} BY <1>5 DEF BrokerAccepts
  <2>2. OneEach(topic') BY <1>4, <2>1 DEF OneEach, OnceInv
  <2>3. \A n \in topic' : Booked(trail', n.approval) \/ n \in ledger' BY <2>1 DEF OnceInv
  <2> QED BY <1>1, <1>2, <1>3, <2>2, <2>3 DEF OnceInv
<1>6. CASE BrokerLoses(m)
  <2>1. topic' = topic /\ ledger' = ledger BY <1>6 DEF BrokerLoses
  <2> QED BY <1>1, <1>2, <2>1 DEF OnceInv
<1> QED BY <1>5, <1>6

LEMMA ClaimStepOnce ==
  ASSUME OnceInv, BooksInv', NEW e \in Executors, ClaimStep(e)
  PROVE  OnceInv'
<1>a. /\ e \in Calls /\ DocInv /\ call \in [Executors -> CallRec]
      /\ doc.state = "APPROVED" => topic = {}
  BY ExecutorsAreCalls DEF OnceInv, BooksInv, LeaseInv, SoundInv, TypeInv, CallsOK
<1>e. ASSUME call' = [call EXCEPT ![e] = Idle]
      PROVE  call'[e].phase = "idle" /\ \A f \in Executors : f # e => call'[f] = call[f]
  BY <1>a, <1>e DEF Idle
<1>1. ASSUME NEW a \in Approvals, Begin(e, a) PROVE OnceInv'
  <2>1. call'[e].phase = "loaded" /\ \A f \in Executors : f # e => call'[f] = call[f]
    BY <1>1, <1>a DEF Begin, Idle
  <2> QED BY <1>1, <2>1, NoOnce, OnceFrame DEF Begin, Get, auditVars
<1>2. CASE Deny(e)
  <2>1. SameClaims(doc, doc') BY <1>2, DeniedKeepsClaims DEF OnceInv, BooksInv, LeaseInv
  <2>2. doc'.state = doc.state BY <2>1 DEF SameClaims
  <2> QED BY <1>2, <1>e, <2>2, NoOnce, OnceFrame DEF Deny, auditVars
<1>3. CASE Claim(e)
  <2>1. doc \in CaseDoc /\ snap[e] = doc
        /\ doc' = [doc EXCEPT !.executions = Append(@, execution(call[e].approval, "claiming")),
                              !.approvals[call[e].approval].status = "CLAIMING",
                              !.state = "EXECUTING"]
    BY <1>3, <1>a, WriterHoldsDoc DEF Claim
  <2>2. doc'.state = "EXECUTING" BY <2>1 DEF CaseDoc
  <2>3. /\ call'[e].phase = "tool" /\ call'[e].after = (doc.state # "APPROVED")
        /\ \A f \in Executors : f # e => call'[f] = call[f]
    BY <1>3, <1>a, <2>1 DEF Claim, StartSend, Idle
  <2>4. Once(call'[e], topic, ledger) BY <1>a, <2>3 DEF Once
  <2> QED BY <1>3, <2>2, <2>3, <2>4, OnceFrame DEF Claim, auditVars
<1>4. CASE Resume(e)
  <2>1. doc' = doc /\ snap[e] = doc BY <1>4, <1>a, WriterHoldsDoc DEF Resume
  <2>2. /\ call'[e].phase = "tool" /\ call'[e].after = (doc.state # "APPROVED")
        /\ \A f \in Executors : f # e => call'[f] = call[f]
    BY <1>4, <1>a, <2>1 DEF Resume, StartSend, Idle
  <2>3. Once(call'[e], topic, ledger) BY <1>a, <2>2 DEF Once
  <2> QED BY <1>4, <2>1, <2>2, <2>3, OnceFrame DEF Resume, auditVars
<1>5. CASE LeaseRefused(e) BY <1>5, <1>e, NoOnce, OnceFrame DEF LeaseRefused, Drop, auditVars
<1>6. CASE Conflict(e) BY <1>6, <1>e, NoOnce, OnceFrame DEF Conflict, Drop, auditVars
<1> QED BY <1>1, <1>2, <1>3, <1>4, <1>5, <1>6 DEF ClaimStep

LEMMA RowsAreBooks ==
  ASSUME NEW a, NamedRows(trail), rows(a) = {} PROVE ~Booked(trail, a)
BY DEF NamedRows, rows, Booked

LEMMA SendStepOnce ==
  ASSUME OnceInv, BooksInv', Ledger, "late" \notin Faults, "miss" \notin Faults,
         NEW e \in Executors, SendStep(e)
  PROVE  OnceInv'
<1> DEFINE a == call[e].approval
<1>a. /\ SoundInv /\ NamedRows(trail) /\ Once(call[e], topic, ledger)
      /\ call \in [Executors -> CallRec]
  BY DEF OnceInv, BooksInv, LeaseInv, SoundInv, TypeInv, CallsOK
<1>b. doc' = doc /\ (\A f \in Executors : f # e => call'[f] = call[f])
      /\ call'[e].approval = a /\ call'[e].after = call[e].after
  BY <1>a, SenderStays
<1>e. ASSUME UseEarlier(e) PROVE Once(call'[e], topic, ledger)
  <2> PICK r \in rows(a) : Receipt(e, "done", r.message) BY <1>e DEF UseEarlier
  <2> QED BY <1>a, Received, NoOnce
<1>1. CASE Tool(e)
  <2>1. call[e].phase = "tool" /\ call'[e].phase = "lookup" BY <1>1, <1>a, GoneTo DEF Tool
  <2>2. Once(call'[e], topic, ledger) BY <1>a, <1>b, <2>1 DEF Once
  <2> QED BY <1>1, <1>b, <2>1, <2>2, OnceFrame DEF Tool
<1>2. CASE StoreFails(e)
  BY <1>2, <1>a, <1>b, Received, NoOnce, OnceFrame DEF StoreFails, auditVars
<1>3. CASE Lookup(e)
  <2>1. Once(call'[e], topic, ledger)
    <3>1. CASE ~UseEarlier(e)
      <4>1. Goto(e, IF call[e].after /\ Ledger THEN "ledger" ELSE "publish")
        BY <1>3, <3>1 DEF Lookup
      <4>2. CASE call[e].after
        <5>1. call'[e].phase = "ledger" BY <1>a, <4>1, <4>2, GoneTo
        <5> QED BY <5>1, NoOnce
      <4>3. CASE ~call[e].after
        <5>1. call'[e].phase = "publish" /\ topic = {}
          BY <1>3, <1>a, <4>1, <4>3, GoneTo DEF Lookup, Once
        <5> QED BY <5>1 DEF Once
      <4> QED BY <4>2, <4>3
    <3> QED BY <1>e, <3>1
  <2> QED BY <1>3, <1>b, <2>1, OnceFrame DEF Lookup, auditVars
<1>4. CASE Settle(e)
  <2>1. PICK batch \in SUBSET ledger : \E new \in settled(batch) :
               /\ batch = ledger
               /\ trail' = AuditOnce(new) /\ ledger' = ledger \ batch
    BY <1>4 DEF Settle
  <2>2. PICK new \in settled(batch) : trail' = AuditOnce(new) BY <2>1
  <2>3. trail \subseteq trail' /\ \A m \in batch : Booked(trail', m.approval)
    BY <2>2, LedgerRowsBook DEF OnceInv
  <2>4. call[e].phase = "ledger" /\ call'[e].phase = "relookup" BY <1>4, <1>a, GoneTo DEF Settle
  <2>5. ledger' = {} /\ UNCHANGED <<inflight, topic>> BY <1>4, <2>1 DEF Settle
  <2>6. \A f \in Executors : Once(call'[f], topic', ledger')
    <3>1. Once(call'[e], topic', ledger') BY <2>4, <2>5 DEF Once
    <3>2. \A f \in Executors : f # e => Once(call'[f], topic', ledger')
      BY <1>b, <2>5 DEF OnceInv, Once
    <3> QED BY <3>1, <3>2
  <2>7. inflight' = {} BY <2>4, <2>5, NothingOnItsWay DEF Sending
  <2>8. \A m \in topic' : Booked(trail', m.approval) BY <2>1, <2>3, <2>5, BookedStays DEF OnceInv
  <2>9. OneEach(topic') /\ (doc'.state = "APPROVED" => topic' = {}) BY <1>b, <2>5 DEF OnceInv
  <2> QED BY <2>6, <2>7, <2>8, <2>9 DEF OnceInv
<1>5. CASE LedgerUnreadable(e)
  <2>1. PICK batch \in SUBSET ledger : \E new \in settled(batch) : trail' = AuditOnce(new)
    BY <1>5 DEF LedgerUnreadable
  <2>2. PICK new \in settled(batch) : trail' = AuditOnce(new) BY <2>1
  <2>3. trail \subseteq trail' BY <2>2, LedgerRowsBook DEF OnceInv
  <2>4. call'[e].phase = "confirm" /\ call[e].phase = "ledger"
    BY <1>5, <1>a, Received DEF LedgerUnreadable
  <2> QED BY <1>5, <1>b, <2>3, <2>4, NoOnce, OnceFrame DEF LedgerUnreadable
<1>6. CASE Relookup(e)
  <2>1. Once(call'[e], topic, ledger)
    <3>1. CASE rows(a) = {} /\ Goto(e, "publish")
      <4>1. call'[e].phase = "publish" /\ ledger = {}
        BY <1>6, <1>a, <3>1, GoneTo DEF Relookup, Once
      <4>2. \A m \in topic : m.approval # a BY <1>a, <3>1, <4>1, RowsAreBooks DEF OnceInv
      <4> QED BY <1>b, <4>1, <4>2 DEF Once
    <3> QED BY <1>6, <1>e, <3>1 DEF Relookup
  <2> QED BY <1>6, <1>b, <2>1, OnceFrame DEF Relookup, auditVars
<1>7. CASE Submit(e)
  <2>1. /\ call'[e].phase = "sending" /\ call'[e].message = submitted + 1
        /\ call[e].phase = "publish"
        /\ inflight' = inflight \cup {[id |-> submitted + 1, approval |-> a]}
        /\ UNCHANGED <<topic, ledger, trail>>
    BY <1>7, <1>a DEF Submit, auditVars
  <2>2. inflight = {} BY <2>1, NothingOnItsWay DEF Sending
  <2>3. \A m \in inflight' : Awaited(m)' BY <2>1, <2>2 DEF Awaited
  <2>4. Once(call'[e], topic, ledger) BY <1>a, <1>b, <2>1 DEF Once
  <2>5. \A f \in Executors : Once(call'[f], topic, ledger) BY <1>b, <2>4 DEF OnceInv
  <2> QED BY <1>b, <2>1, <2>3, <2>5 DEF OnceInv
<1>8. CASE Accepted(e)
  <2>1. PICK m \in outgoing(e) : BrokerAccepts(m) BY <1>8 DEF Accepted
  <2>2. call'[e].phase = "save" /\ call[e].phase = "sending" /\ m \in inflight /\ trail' = trail
    BY <1>8, <1>a, GoneTo DEF Accepted, outgoing, auditVars
  <2> QED BY <1>b, <2>1, <2>2, OnceTakes
<1>9. CASE TimedOut(e)
  <2>1. PICK m \in outgoing(e) : BrokerAccepts(m) \/ BrokerLoses(m)
    BY <1>9 DEF TimedOut, Abandoned
  <2>2. call'[e].phase = "confirm" BY <1>9, <1>a DEF TimedOut, CallRec
  <2>3. call[e].phase = "sending" /\ m \in inflight /\ trail' = trail
    BY <1>9 DEF TimedOut, outgoing, auditVars
  <2> QED BY <1>b, <2>1, <2>2, <2>3, OnceTakes
<1>10. CASE Rejected(e)
  <2>1. PICK m \in outgoing(e) : BrokerLoses(m) BY <1>10 DEF Rejected
  <2>2. call'[e].phase = "confirm" /\ call[e].phase = "sending" /\ m \in inflight /\ trail' = trail
    BY <1>10, <1>a, Received DEF Rejected, outgoing, auditVars
  <2> QED BY <1>b, <2>1, <2>2, OnceTakes
<1>11. CASE SaveLookup(e)
  <2>1. Once(call'[e], topic, ledger)
    <3>1. CASE Goto(e, "append") BY <1>a, <3>1, GoneTo, NoOnce
    <3> QED BY <1>11, <1>e, <3>1 DEF SaveLookup
  <2> QED BY <1>11, <1>b, <2>1, OnceFrame DEF SaveLookup, auditVars
<1>12. CASE Save(e)
  <2>1. trail \subseteq trail' BY <1>12 DEF Save, AuditOnce
  <2>2. PICK m : Receipt(e, "done", m) BY <1>12 DEF Save
  <2>3. call'[e].phase = "confirm" /\ call[e].phase # "sending" BY <1>12, <1>a, <2>2, Received DEF Save
  <2> QED BY <1>12, <1>b, <2>1, <2>3, NoOnce, OnceFrame DEF Save
<1>13. CASE SaveFails(e)
  BY <1>13, <1>a, <1>b, Received, NoOnce, OnceFrame DEF SaveFails, auditVars
<1> QED BY <1>1, <1>2, <1>3, <1>4, <1>5, <1>6, <1>7, <1>8, <1>9, <1>10, <1>11, <1>12, <1>13
        DEF SendStep

LEMMA OthersOnce ==
  ASSUME OnceInv, BooksInv', Ledger, "late" \notin Faults,
         \/ \E e \in Executors : ConfirmStep(e) \/ Reconcile(e) \/ Crash(e)
         \/ \E i \in 1..MaxExecutions : LeaseExpires(i)
         \/ \E m \in inflight : Straggler(m)
         \/ \E m \in pushed : Deliver(m)
  PROVE  OnceInv'
<1>a. SoundInv /\ DocInv /\ call \in [Executors -> CallRec]
  BY DEF OnceInv, BooksInv, LeaseInv, SoundInv, TypeInv, CallsOK
<1>1. ASSUME NEW e \in Executors, Reread(e) PROVE OnceInv'
  <2>1. call'[e].phase = "confirming" /\ (\A f \in Executors : f # e => call'[f] = call[f])
    BY <1>1, <1>a, GoneTo DEF Reread
  <2> QED BY <1>1, <2>1, NoOnce, OnceFrame DEF Reread, Get, auditVars
<1>2. ASSUME NEW e \in Executors, Confirm(e) PROVE OnceInv'
  <2>1. call[e].phase \in Sending BY <1>2 DEF Confirm, Sending
  <2>2. call[e].approval \in Approvals /\ call[e].exe \in DOMAIN doc.executions
    BY <1>a, <2>1, SenderWorks DEF Attempted
  <2>3. doc \in CaseDoc /\ doc' = confirmed(doc, e)
    BY <1>2, <1>a, ExecutorsAreCalls, WriterHoldsDoc DEF Confirm
  <2>4. confirmed(doc, e).state \in {outcome_of(doc, call[e].approval), "EXECUTION_FAILED"}
    BY <2>2, <2>3, ConfirmedFields
  <2>5. doc'.state # "APPROVED" BY <2>3, <2>4 DEF outcome_of
  <2>6. call'[e].phase = "idle" /\ (\A f \in Executors : f # e => call'[f] = call[f])
    BY <1>2, <1>a DEF Confirm, Idle
  <2> QED BY <1>2, <2>5, <2>6, NoOnce, OnceFrame DEF Confirm, auditVars
<1>3. ASSUME NEW e \in Executors, ReconcileBegin(e) PROVE OnceInv'
  <2>1. call'[e].phase = "reconcile" /\ (\A f \in Executors : f # e => call'[f] = call[f])
    BY <1>3, <1>a DEF ReconcileBegin, Idle
  <2> QED BY <1>3, <2>1, NoOnce, OnceFrame DEF ReconcileBegin, Get, auditVars
<1>4. ASSUME NEW e \in Executors, ReconcileRow(e) PROVE OnceInv'
  <2>1. call'[e].phase = "clear" /\ (\A f \in Executors : f # e => call'[f] = call[f])
    BY <1>4, <1>a, GoneTo DEF ReconcileRow
  <2>2. trail \subseteq trail' BY <1>4 DEF ReconcileRow, AuditOnce
  <2> QED BY <1>4, <2>1, <2>2, NoOnce, OnceFrame DEF ReconcileRow, docVars
<1>5. ASSUME NEW e \in Executors, ReconcileClear(e) PROVE OnceInv'
  <2>1. doc \in CaseDoc /\ doc' = cleared(doc, call[e].exe)
    BY <1>5, <1>a, ExecutorsAreCalls, WriterHoldsDoc DEF ReconcileClear
  <2>2. doc'.state = doc.state BY <2>1, ClearedKeeps DEF SameClaims
  <2>3. call'[e].phase = "idle" /\ (\A f \in Executors : f # e => call'[f] = call[f])
    BY <1>5, <1>a DEF ReconcileClear, Idle
  <2> QED BY <1>5, <2>2, <2>3, NoOnce, OnceFrame DEF ReconcileClear, auditVars
<1>6. ASSUME NEW e \in Executors, ReconcileFails(e) PROVE OnceInv'
  <2>1. call'[e].phase = "idle" /\ (\A f \in Executors : f # e => call'[f] = call[f])
    BY <1>6, <1>a DEF ReconcileFails, Idle
  <2> QED BY <1>6, <2>1, NoOnce, OnceFrame DEF ReconcileFails, Drop, auditVars
<1>7. ASSUME NEW e \in Executors, Crash(e) PROVE OnceInv'
  <2>1. /\ call'[e].phase = "idle" /\ (\A f \in Executors : f # e => call'[f] = call[f])
        /\ UNCHANGED <<trail, doc>>
    BY <1>7, <1>a DEF Crash, Drop, Idle, auditVars
  <2>2. CASE call[e].phase = "sending"
    <3>1. PICK m \in outgoing(e) : BrokerAccepts(m) \/ BrokerLoses(m)
      BY <1>7, <2>2 DEF Crash, Abandoned
    <3> QED BY <2>1, <2>2, <3>1, OnceTakes DEF outgoing
  <2>3. CASE call[e].phase # "sending"
    BY <1>7, <2>1, <2>3, NoOnce, OnceFrame DEF Crash
  <2> QED BY <2>2, <2>3
<1>8. ASSUME UNCHANGED <<doc, call, trail, inflight, topic, ledger>> PROVE OnceInv'
  BY <1>8 DEF OnceInv, Awaited
<1>9. ASSUME NEW m \in inflight, Straggler(m) PROVE OnceInv'
  BY <1>9 DEF Straggler, OnceInv, Awaited
<1>10. CASE \/ \E i \in 1..MaxExecutions : LeaseExpires(i)
            \/ \E m \in pushed : Deliver(m)
  BY <1>8, <1>10 DEF LeaseExpires, Deliver, docVars, brokerVars, auditVars
<1> QED BY <1>1, <1>2, <1>3, <1>4, <1>5, <1>6, <1>7, <1>9, <1>10 DEF ConfirmStep, Reconcile

LEMMA InitOnce == Init => OnceInv
<1> SUFFICES ASSUME Init PROVE OnceInv OBVIOUS
<1>1. BooksInv BY InitInBooks
<1>2. topic = {} /\ inflight = {} /\ \A e \in Executors : call[e].phase = "idle"
  BY DEF Init, ExecInit, Idle
<1> QED BY <1>1, <1>2, NoOnce DEF OnceInv, OneEach

LEMMA NextOnce ==
  ASSUME Ledger, "slow" \notin Faults, "late" \notin Faults, "miss" \notin Faults
  PROVE  OnceInv /\ [Next]_vars => OnceInv'
<1> SUFFICES ASSUME OnceInv, [Next]_vars PROVE OnceInv' OBVIOUS
<1>1. BooksInv' BY NextInBooks DEF OnceInv
<1>2. CASE ExecNext BY <1>1, <1>2, ClaimStepOnce, SendStepOnce, OthersOnce DEF ExecNext
<1>3. CASE UNCHANGED vars
  BY <1>1, <1>3 DEF vars, execVars, docVars, auditVars, brokerVars, OnceInv, Awaited
<1> QED BY <1>2, <1>3 DEF Next

LEMMA SentOnce == OnceInv => AtMostOneMessage
<1> SUFFICES ASSUME OnceInv, NEW m \in inflight \cup topic, NEW n \in inflight \cup topic,
                    m.approval = n.approval
             PROVE  m = n
  BY DEF AtMostOneMessage
<1>1. CASE m \in topic /\ n \in topic BY <1>1 DEF OnceInv, OneEach
<1>2. ASSUME NEW x \in inflight, NEW y \in topic PROVE x.approval # y.approval
  <2>1. PICK e \in Executors : call[e].phase = "sending" BY DEF OnceInv, Awaited
  <2>2. x.approval = call[e].approval BY <2>1, OnlyMessage
  <2>3. y.approval # call[e].approval BY <2>1 DEF OnceInv, Once
  <2> QED BY <2>2, <2>3
<1>3. CASE m \in inflight /\ n \in inflight
  <2>1. PICK e \in Executors : call[e].phase = "sending" BY <1>3 DEF OnceInv, Awaited
  <2> QED BY <1>3, <2>1, OnlyMessage
<1> QED BY <1>1, <1>2, <1>3


-----------------------------------------------------------------------------
(* What a single step may never do.                                         *)

LEMMA OutcomeKept ==
  ASSUME LeaseInv, [Next]_vars PROVE KeepsOutcome
<1> SUFFICES ASSUME doc.state \in Executed PROVE doc'.state = doc.state BY DEF KeepsOutcome
<1>a. /\ SoundInv /\ DocInv /\ call \in [Executors -> CallRec]
      /\ doc.state \notin {"APPROVED", "EXECUTION_FAILED", "EXECUTING"}
  BY DEF LeaseInv, SoundInv, TypeInv, CallsOK, Executed
<1>b. \A f \in Executors : call[f].phase \notin Sending
  BY <1>a DEF LeaseInv, WorksInLease, OneClaim
<1>1. ASSUME NEW e \in Executors, ClaimStep(e) PROVE doc'.state = doc.state
  <2>1. CASE Claim(e) \/ Resume(e)
    <3>1. snap[e] = doc BY <1>a, <2>1, ExecutorsAreCalls, WriterHoldsDoc DEF Claim, Resume
    <3> QED BY <1>a, <2>1, <3>1 DEF Claim, Resume, approval_is_executable
  <2>2. CASE Deny(e)
    <3>1. SameClaims(doc, doc') BY <1>a, <2>2, DeniedKeepsClaims
    <3> QED BY <3>1 DEF SameClaims
  <2>3. CASE (\E a \in Approvals : Begin(e, a)) \/ LeaseRefused(e) \/ Conflict(e)
    BY <2>3 DEF Begin, Get, LeaseRefused, Conflict, Drop
  <2> QED BY <1>1, <2>1, <2>2, <2>3 DEF ClaimStep
<1>2. ASSUME NEW e \in Executors, SendStep(e) \/ ConfirmStep(e) PROVE FALSE
  <2>1. CASE SendStep(e) \/ Reread(e) BY <1>a, <1>b, <2>1, SenderStays
  <2>2. CASE Confirm(e) BY <1>b, <2>2 DEF Confirm, Sending
  <2> QED BY <1>2, <2>1, <2>2 DEF ConfirmStep
<1>3. ASSUME NEW e \in Executors, Reconcile(e) PROVE doc'.state = doc.state
  <2>1. CASE ReconcileClear(e)
    <3>1. doc \in CaseDoc /\ doc' = cleared(doc, call[e].exe)
      BY <1>a, <2>1, ExecutorsAreCalls, WriterHoldsDoc DEF ReconcileClear
    <3> QED BY <3>1, ClearedKeeps DEF SameClaims
  <2>2. CASE ReconcileBegin(e) \/ ReconcileRow(e) \/ ReconcileFails(e)
    BY <2>2 DEF ReconcileBegin, ReconcileRow, ReconcileFails, Get, Drop, docVars
  <2> QED BY <1>3, <2>1, <2>2 DEF Reconcile
<1>4. ASSUME NEW e \in Executors, Crash(e) PROVE doc'.state = doc.state BY <1>4 DEF Crash, Drop
<1>5. CASE \/ \E i \in 1..MaxExecutions : LeaseExpires(i)
           \/ \E m \in inflight : Straggler(m)
           \/ \E m \in pushed : Deliver(m)
           \/ UNCHANGED vars
  BY <1>5 DEF LeaseExpires, Straggler, Deliver, vars, docVars
<1> QED BY <1>1, <1>2, <1>3, <1>4, <1>5 DEF Next, ExecNext

\* A delivery applies its message when it is the first under its key.
LEMMA FirstIsApplied ==
  ASSUME SoundInv, NEW m \in pushed, Deliver(m)
  PROVE  /\ m.approval \in Approvals /\ m.approval \in {x.approval : x \in topic}
         /\ \A a \in Approvals \ {m.approval} : applied'[a] = applied[a]
         /\ applied[m.approval] # NoMessage => applied' = applied
         /\ applied'[m.approval] # NoMessage
<1>1. /\ pushed \subseteq topic /\ topic \subseteq Message
      /\ applied \in [Approvals -> Nat \cup {NoMessage}]
  BY DEF SoundInv, BrokerSound, TypeInv, BrokerOK, RestOK
<1>2. m.approval \in Approvals /\ m.id \in Nat /\ m.id # NoMessage
  BY <1>1, SentinelsApart DEF Message
<1> QED BY <1>1, <1>2 DEF Deliver

-----------------------------------------------------------------------------
(* What the outside sees: the mapping onto DecisionDelivery.                *)

claimedNow  == {doc.executions[i].approval : i \in tried}
acceptedNow == {m.approval : m \in topic}
appliedNow  == {a \in Approvals : applied[a] # NoMessage}
recordedNow == {a \in Approvals : doc.approvals[a].status = "EXECUTED"}

OutsideStep == [Delivery!Next]_(Delivery!state)

LEMMA Unseen ==
  ASSUME UNCHANGED <<claimedNow, acceptedNow, appliedNow, recordedNow>> PROVE OutsideStep
BY DEF OutsideStep, Delivery!state, claimedNow, acceptedNow, appliedNow, recordedNow

LEMMA SeenClaim ==
  ASSUME NEW a \in Approvals, a \notin claimedNow, claimedNow' = claimedNow \cup {a},
         UNCHANGED <<acceptedNow, appliedNow, recordedNow>>
  PROVE  OutsideStep
<1>1. Delivery!Claim(a) BY DEF Delivery!Claim, claimedNow, acceptedNow, appliedNow, recordedNow
<1> QED BY <1>1 DEF OutsideStep, Delivery!Next

LEMMA SeenAccept ==
  ASSUME NEW a \in Approvals, a \in claimedNow \ acceptedNow,
         acceptedNow' = acceptedNow \cup {a},
         UNCHANGED <<claimedNow, appliedNow, recordedNow>>
  PROVE  OutsideStep
<1>1. Delivery!Accept(a) BY DEF Delivery!Accept, claimedNow, acceptedNow, appliedNow, recordedNow
<1> QED BY <1>1 DEF OutsideStep, Delivery!Next

LEMMA SeenApply ==
  ASSUME NEW a \in Approvals, a \in acceptedNow \ appliedNow,
         appliedNow' = appliedNow \cup {a},
         UNCHANGED <<claimedNow, acceptedNow, recordedNow>>
  PROVE  OutsideStep
<1>1. Delivery!Apply(a) BY DEF Delivery!Apply, claimedNow, acceptedNow, appliedNow, recordedNow
<1> QED BY <1>1 DEF OutsideStep, Delivery!Next

LEMMA SeenRecord ==
  ASSUME NEW a \in Approvals, a \in acceptedNow \ recordedNow,
         recordedNow' = recordedNow \cup {a},
         UNCHANGED <<claimedNow, acceptedNow, appliedNow>>
  PROVE  OutsideStep
<1>1. Delivery!Record(a) BY DEF Delivery!Record, claimedNow, acceptedNow, appliedNow, recordedNow
<1> QED BY <1>1 DEF OutsideStep, Delivery!Next

LEMMA SeenRetract ==
  ASSUME NEW a \in Approvals, a \in recordedNow, "slow" \in Faults,
         recordedNow' = recordedNow \ {a},
         UNCHANGED <<claimedNow, acceptedNow, appliedNow>>
  PROVE  OutsideStep
<1>1. Delivery!Retract(a)
  BY DEF Delivery!Retract, claimedNow, acceptedNow, appliedNow, recordedNow
<1> QED BY <1>1 DEF OutsideStep, Delivery!Next

\* A step that leaves the case, the topic and the receiver alone is not seen.
LEMMA Inside == ASSUME UNCHANGED <<doc, topic, applied>> PROVE OutsideStep
BY Unseen DEF claimedNow, acceptedNow, appliedNow, recordedNow, tried

\* Entries that stay the same attempts, or one more refusal.
LEMMA SameTries ==
  ASSUME UNCHANGED <<topic, applied>>, doc'.approvals = doc.approvals,
         DOMAIN doc'.executions = DOMAIN doc.executions,
         \A i \in DOMAIN doc.executions :
           /\ doc'.executions[i].approval = doc.executions[i].approval
           /\ doc'.executions[i].status = "denied" <=> doc.executions[i].status = "denied"
  PROVE  OutsideStep
<1>1. tried' = tried BY DEF tried
<1>2. claimedNow' = claimedNow BY <1>1 DEF claimedNow, tried
<1> QED BY <1>2, Unseen DEF acceptedNow, appliedNow, recordedNow

\* The broker takes a message that was handed over.
LEMMA SeenBroker ==
  ASSUME SoundInv, NEW m \in inflight, UNCHANGED <<doc, applied>>,
         BrokerAccepts(m) \/ BrokerLoses(m) \/ UNCHANGED brokerVars
  PROVE  OutsideStep
<1> DEFINE a == m.approval
<1>1. CASE UNCHANGED topic BY <1>1, Inside
<1>2. CASE BrokerAccepts(m)
  <2>1. acceptedNow' = acceptedNow \cup {a} BY <1>2 DEF BrokerAccepts, acceptedNow
  <2>2. a \in Approvals /\ a \in claimedNow
    BY DEF SoundInv, TypeInv, BrokerOK, Message, BrokerSound, Attempted, claimedNow, tried
  <2>3. UNCHANGED <<claimedNow, appliedNow, recordedNow>>
    BY DEF claimedNow, appliedNow, recordedNow, tried
  <2>4. CASE a \in acceptedNow BY <2>1, <2>3, <2>4, Unseen
  <2>5. CASE a \notin acceptedNow BY <2>1, <2>2, <2>3, <2>5, SeenAccept
  <2> QED BY <2>4, <2>5
<1> QED BY <1>1, <1>2 DEF BrokerLoses, brokerVars

LEMMA ClaimStepSeen ==
  ASSUME SoundInv, NEW e \in Executors, ClaimStep(e) PROVE OutsideStep
<1> DEFINE a == call[e].approval
           k == Len(doc.executions)
<1>a. /\ e \in Calls /\ DocInv
      /\ call[e].phase # "idle" => a \in Approvals
  BY ExecutorsAreCalls DEF SoundInv, TypeInv, CallsOK, BusyHasApproval
<1>1. CASE Claim(e)
  <2> DEFINE x == execution(a, "claiming")
  <2>1. /\ snap[e] = doc /\ doc \in CaseDoc /\ a \in Approvals
        /\ approval_is_executable(doc, a)
        /\ doc' = [doc EXCEPT !.executions          = Append(@, x),
                              !.approvals[a].status = "CLAIMING",
                              !.state               = "EXECUTING"]
        /\ UNCHANGED <<topic, applied>>
    BY <1>1, <1>a, WriterHoldsDoc DEF Claim, brokerVars
  <2>2. /\ doc'.executions = Append(doc.executions, x)
        /\ doc'.approvals = [doc.approvals EXCEPT ![a].status = "CLAIMING"]
    BY <2>1 DEF CaseDoc
  <2>3. doc.executions \in Seq(ExecutionRec) /\ k \in Nat /\ DOMAIN doc.executions = 1..k
    BY <2>1 DEF CaseDoc
  <2>4. x.approval = a /\ x.status = "claiming" BY DEF execution
  <2> HIDE DEF x
  <2>5. /\ DOMAIN doc'.executions = 1..(k + 1)
        /\ \A i \in 1..k : doc'.executions[i] = doc.executions[i]
        /\ doc'.executions[k + 1] = x
    BY <2>2, <2>3
  <2>6. tried' = tried \cup {k + 1} BY <2>3, <2>4, <2>5 DEF tried
  <2>7. claimedNow' = claimedNow \cup {a}
    BY <2>3, <2>4, <2>5, <2>6 DEF claimedNow, tried
  <2>8. recordedNow' = recordedNow
    <3>1. doc.approvals[a].status # "EXECUTED" BY <2>1 DEF approval_is_executable
    <3>2. doc'.approvals[a].status = "CLAIMING"
          /\ \A b \in Approvals \ {a} : doc'.approvals[b] = doc.approvals[b]
      BY <2>1, <2>2 DEF CaseDoc, ApprovalRec
    <3> QED BY <3>1, <3>2 DEF recordedNow
  <2>9. UNCHANGED <<acceptedNow, appliedNow>> BY <2>1 DEF acceptedNow, appliedNow
  <2>10. CASE a \in claimedNow BY <2>7, <2>8, <2>9, <2>10, Unseen
  <2>11. CASE a \notin claimedNow BY <2>1, <2>7, <2>8, <2>9, <2>11, SeenClaim
  <2> QED BY <2>10, <2>11
<1>2. CASE Deny(e)
  <2> DEFINE x == execution(a, "denied")
  <2>1. /\ snap[e] = doc /\ doc \in CaseDoc
        /\ doc' = [snap[e] EXCEPT !.executions = IF Len(@) < MaxExecutions
                                                 THEN Append(@, x) ELSE @]
        /\ UNCHANGED <<topic, applied>>
    BY <1>2, <1>a, WriterHoldsDoc DEF Deny, brokerVars
  <2>2. /\ doc'.executions = Append(doc.executions, x) \/ doc' = doc
        /\ doc'.approvals = doc.approvals
    BY <2>1 DEF CaseDoc
  <2>3. CASE doc' = doc BY <2>1, <2>3, Inside
  <2>4. CASE doc'.executions = Append(doc.executions, x)
    <3>1. doc.executions \in Seq(ExecutionRec) /\ k \in Nat /\ DOMAIN doc.executions = 1..k
      BY <2>1 DEF CaseDoc
    <3>2. x.status = "denied" BY DEF execution
    <3> HIDE DEF x
    <3>3. /\ DOMAIN doc'.executions = 1..(k + 1)
          /\ \A i \in 1..k : doc'.executions[i] = doc.executions[i]
          /\ doc'.executions[k + 1] = x
      BY <2>4, <3>1
    <3>4. tried' = tried BY <3>1, <3>2, <3>3 DEF tried
    <3>5. claimedNow' = claimedNow BY <3>1, <3>3, <3>4 DEF claimedNow, tried
    <3> QED BY <2>1, <2>2, <3>5, Unseen DEF acceptedNow, appliedNow, recordedNow
  <2> QED BY <2>2, <2>3, <2>4
<1>3. CASE Resume(e)
  <2>1. doc' = doc BY <1>3, <1>a, WriterHoldsDoc DEF Resume
  <2> QED BY <1>3, <2>1, Inside DEF Resume, brokerVars
<1>4. CASE (\E b \in Approvals : Begin(e, b)) \/ LeaseRefused(e) \/ Conflict(e)
  BY <1>4, Inside DEF Begin, Get, LeaseRefused, Conflict, Drop, brokerVars
<1> QED BY <1>1, <1>2, <1>3, <1>4 DEF ClaimStep

LEMMA SendStepSeen ==
  ASSUME SoundInv, NEW e \in Executors, SendStep(e) PROVE OutsideStep
<1>1. CASE Tool(e) \/ StoreFails(e) \/ Lookup(e) \/ LedgerUnreadable(e) \/ Relookup(e)
           \/ SaveLookup(e) \/ Save(e) \/ SaveFails(e)
  BY <1>1, Inside DEF Tool, StoreFails, Lookup, LedgerUnreadable, Relookup, SaveLookup, Save,
                      SaveFails, docVars, brokerVars
<1>2. CASE Settle(e) \/ Submit(e) BY <1>2, Inside DEF Settle, Submit, docVars
<1>3. CASE Accepted(e) \/ TimedOut(e) \/ Rejected(e)
  <2>1. PICK m \in inflight : BrokerAccepts(m) \/ BrokerLoses(m) \/ UNCHANGED brokerVars
    BY <1>3 DEF Accepted, TimedOut, Rejected, outgoing, Abandoned
  <2>2. UNCHANGED <<doc, applied>> BY <1>3 DEF Accepted, TimedOut, Rejected, docVars
  <2> QED BY <2>1, <2>2, SeenBroker
<1> QED BY <1>1, <1>2, <1>3 DEF SendStep

LEMMA ConfirmSeen ==
  ASSUME SoundInv, "slow" \notin Faults => LeaseInv, NEW e \in Executors, Confirm(e)
  PROVE  OutsideStep
<1> DEFINE a == call[e].approval
           i == call[e].exe
           x == doc'.executions[i]
<1>1. call[e].phase \in Sending /\ call[e].phase = "confirming" /\ UNCHANGED <<topic, applied>>
  BY DEF Confirm, Sending, brokerVars
<1>2. a \in Approvals /\ Attempted(doc, i, a) BY <1>1, SenderWorks
<1>3. doc \in CaseDoc /\ doc' = confirmed(doc, e)
  BY ExecutorsAreCalls, WriterHoldsDoc DEF Confirm, SoundInv, TypeInv
<1>4. i \in DOMAIN doc.executions /\ doc.executions[i].approval = a
      /\ doc.executions[i].status # "denied"
  BY <1>2 DEF Attempted
<1>5. /\ doc'.executions = [doc.executions EXCEPT ![i] = x] /\ x.approval = a
      /\ x.status # "denied"
      /\ \A b \in Approvals \ {a} : doc'.approvals[b] = doc.approvals[b]
  BY <1>2, <1>3, <1>4, ConfirmedFields
<1>6. tried' = tried
  <2> HIDE DEF x
  <2> QED BY <1>4, <1>5 DEF tried, x
<1>7. claimedNow' = claimedNow
  <2>1. \A j \in DOMAIN doc.executions : doc'.executions[j].approval = doc.executions[j].approval
    BY <1>4, <1>5
  <2> QED BY <1>6, <2>1 DEF claimedNow, tried
<1>8. UNCHANGED <<acceptedNow, appliedNow>> BY <1>1 DEF acceptedNow, appliedNow
<1>9. CASE published(e)
  <2>1. doc'.approvals[a].status = "EXECUTED" BY <1>2, <1>3, <1>4, <1>9, ConfirmedFields
  <2>2. recordedNow' = recordedNow \cup {a} BY <1>2, <1>5, <2>1 DEF recordedNow
  <2>3. a \in acceptedNow
    BY <1>1, <1>9 DEF published, SoundInv, CallsSound, CallSound, Knows, On, acceptedNow
  <2>4. CASE a \in recordedNow BY <1>7, <1>8, <2>2, <2>4, Unseen
  <2>5. CASE a \notin recordedNow BY <1>2, <1>7, <1>8, <2>2, <2>3, <2>5, SeenRecord
  <2> QED BY <2>4, <2>5
<1>10. CASE ~published(e)
  <2>1. doc'.approvals[a].status = "VALID" BY <1>2, <1>3, <1>4, <1>10, ConfirmedFields
  <2>2. recordedNow' = recordedNow \ {a} BY <1>2, <1>5, <2>1 DEF recordedNow
  <2>3. CASE a \notin recordedNow BY <1>7, <1>8, <2>2, <2>3, Unseen
  <2>4. CASE a \in recordedNow
    <3>1. "slow" \in Faults
      <4>1. SUFFICES ASSUME LeaseInv PROVE FALSE OBVIOUS
      <4>2. i \in claiming(doc) BY <1>1, <4>1 DEF LeaseInv, WorksInLease
      <4>3. doc.approvals[a].status = "CLAIMING" BY <1>4, <4>1, <4>2 DEF LeaseInv, OneClaim
      <4> QED BY <2>4, <4>3 DEF recordedNow
    <3> QED BY <1>2, <1>7, <1>8, <2>2, <2>4, <3>1, SeenRetract
  <2> QED BY <2>3, <2>4
<1> QED BY <1>9, <1>10

LEMMA OthersSeen ==
  ASSUME SoundInv, NEW e \in Executors, Reread(e) \/ Reconcile(e) \/ Crash(e)
  PROVE  OutsideStep
<1>1. CASE Reread(e) \/ ReconcileBegin(e) \/ ReconcileRow(e) \/ ReconcileFails(e)
  BY <1>1, Inside DEF Reread, ReconcileBegin, ReconcileRow, ReconcileFails, Get, Drop,
                      docVars, brokerVars
<1>2. CASE ReconcileClear(e)
  <2>1. doc \in CaseDoc /\ doc' = cleared(doc, call[e].exe) /\ UNCHANGED <<topic, applied>>
    BY <1>2, ExecutorsAreCalls, WriterHoldsDoc DEF ReconcileClear, SoundInv, TypeInv, brokerVars
  <2>2. /\ DOMAIN doc'.executions = DOMAIN doc.executions
        /\ \A i \in DOMAIN doc.executions :
             /\ doc'.executions[i].approval = doc.executions[i].approval
             /\ doc'.executions[i].status = doc.executions[i].status
        /\ doc'.approvals = doc.approvals
    BY <2>1, ClearedKeeps DEF SameClaims
  <2> QED BY <2>1, <2>2, SameTries
<1>3. CASE Crash(e)
  <2>1. UNCHANGED <<doc, applied>> BY <1>3 DEF Crash, Drop
  <2>2. \/ UNCHANGED brokerVars
        \/ \E m \in inflight : BrokerAccepts(m) \/ BrokerLoses(m) \/ UNCHANGED brokerVars
    BY <1>3 DEF Crash, outgoing, Abandoned
  <2> QED BY <2>1, <2>2, SeenBroker, Inside DEF brokerVars
<1> QED BY <1>1, <1>2, <1>3 DEF Reconcile

LEMMA EnvironmentSeen ==
  ASSUME SoundInv,
         \/ \E i \in 1..MaxExecutions : LeaseExpires(i)
         \/ \E m \in inflight : Straggler(m)
         \/ \E m \in pushed : Deliver(m)
  PROVE  OutsideStep
<1>1. ASSUME NEW i \in 1..MaxExecutions, LeaseExpires(i) PROVE OutsideStep
  BY <1>1, Inside DEF LeaseExpires, docVars, brokerVars
<1>2. ASSUME NEW m \in inflight, Straggler(m) PROVE OutsideStep
  BY <1>2, SeenBroker DEF Straggler, docVars
<1>3. ASSUME NEW m \in pushed, Deliver(m) PROVE OutsideStep
  <2> DEFINE a == m.approval
  <2>1. UNCHANGED <<doc, topic>> BY <1>3 DEF Deliver, docVars
  <2>2. UNCHANGED <<claimedNow, acceptedNow, recordedNow>>
    BY <2>1 DEF claimedNow, acceptedNow, recordedNow, tried
  <2>3. a \in Approvals /\ a \in acceptedNow BY <1>3, FirstIsApplied DEF acceptedNow
  <2>4. appliedNow' = appliedNow \cup {a} BY <1>3, FirstIsApplied DEF appliedNow
  <2>5. CASE a \in appliedNow BY <2>2, <2>4, <2>5, Unseen
  <2>6. CASE a \notin appliedNow BY <2>2, <2>3, <2>4, <2>6, SeenApply
  <2> QED BY <2>5, <2>6
<1> QED BY <1>1, <1>2, <1>3

LEMMA StepsImplement ==
  ASSUME SoundInv, "slow" \notin Faults => LeaseInv, [Next]_vars PROVE OutsideStep
<1>1. CASE UNCHANGED vars BY <1>1, Inside DEF vars, execVars, docVars, brokerVars
<1>2. CASE ExecNext
  BY <1>2, ClaimStepSeen, SendStepSeen, ConfirmSeen, OthersSeen, EnvironmentSeen
     DEF ExecNext, ConfirmStep
<1> QED BY <1>1, <1>2 DEF Next

LEMMA StartsImplement == Init => Delivery!Init
<1> SUFFICES ASSUME Init PROVE Delivery!Init OBVIOUS
<1>1. doc.executions = <<>> /\ \A a \in Approvals : doc.approvals[a].status = "VALID"
  BY DEF Init, ApprovedDoc
<1>2. tried = {} BY <1>1 DEF tried
<1>3. topic = {} /\ \A a \in Approvals : applied[a] = NoMessage BY DEF Init, ExecInit
<1> QED BY <1>1, <1>2, <1>3 DEF Delivery!Init

-----------------------------------------------------------------------------
(* The theorems.                                                            *)

\* What calls, rows and entries say of the broker is true, whatever is killed, lost,
\* late or refused and however long a handler takes.
THEOREM Sound == Spec => []SoundInv
BY InitSound, NextSound, PTL DEF Spec

LEMMA SoundIsTrue ==
  SoundInv => RowProvesPublish /\ SentWasAccepted /\ OneRowPerKey /\ NoSendWithoutClaim
<1> SUFFICES ASSUME SoundInv
             PROVE  RowProvesPublish /\ SentWasAccepted /\ OneRowPerKey /\ NoSendWithoutClaim
  OBVIOUS
<1>1. RowProvesPublish BY DEF SoundInv, TrailSound, On, RowProvesPublish
<1>2. SentWasAccepted BY DEF SoundInv, DocSound, On, SentWasAccepted
<1>3. OneRowPerKey BY DEF SoundInv, TrailSound, OneRowPerKey
<1>4. NoSendWithoutClaim
  <2>1. \A m \in inflight \cup topic : m.approval \in Approvals
    BY DEF SoundInv, TypeInv, BrokerOK, Message
  <2> QED BY <2>1 DEF SoundInv, BrokerSound, DocSound, Attempted, NoSendWithoutClaim
<1> QED BY <1>1, <1>2, <1>3, <1>4

\* A publish row and an execution recorded as sent name a message the broker really
\* accepted for that approval, there is one row per key, and nothing is handed over
\* for an approval nobody claimed (execute_approval, add_audit_once, reconciliation).
THEOREM RecordsAreTrue ==
  Spec => [](RowProvesPublish /\ SentWasAccepted /\ OneRowPerKey /\ NoSendWithoutClaim)
BY Sound, SoundIsTrue, PTL

\* Inside the leases the case shows at most one running claim, and whoever sends
\* works on that one: the ground of the theorems below.
THEOREM InLease == ASSUME "slow" \notin Faults PROVE Spec => []LeaseInv
BY InitInLease, NextInLease, PTL DEF Spec

\* Inside the leases no two handlers are in the send or confirm phase together.
THEOREM OneAtATime == ASSUME "slow" \notin Faults PROVE Spec => []OneSender
<1>1. LeaseInv => OneSender BY DEF LeaseInv
<1> QED BY <1>1, InLease, PTL

\* Inside the leases an executed case keeps its outcome: nobody is left who could
\* still report on it (execute_approval phase 3).
THEOREM OutcomesStand == ASSUME "slow" \notin Faults PROVE Spec => ExecutedIsFinal
BY InLease, OutcomeKept, PTL DEF Spec, ExecutedIsFinal

LEMMA GoesOn == LeaseInv /\ Retryable(doc) => NeverStranded
<1> SUFFICES ASSUME LeaseInv, Retryable(doc) PROVE NeverStranded OBVIOUS
<1>1. ASSUME doc.state = "EXECUTING"
      PROVE  \E a \in Approvals : /\ doc.approvals[a].status = "CLAIMING" /\ resumable(doc, a)
                                  /\ approval_is_executable(doc, a)
  <2>1. PICK i \in claiming(doc) : TRUE BY <1>1 DEF LeaseInv, OneClaim
  <2> DEFINE a == doc.executions[i].approval
  <2>2. i \in DOMAIN doc.executions /\ doc.executions[i].status = "claiming"
    BY <2>1 DEF claiming
  <2>3. a \in Approvals
    <3>1. doc.executions \in Seq(ExecutionRec)
      BY DEF LeaseInv, SoundInv, TypeInv, DocInv, DocTypeOK, CaseDoc
    <3>2. doc.executions[i] \in ExecutionRec BY <2>2, <3>1
    <3> QED BY <3>2 DEF ExecutionRec
  <2>4. doc.approvals[a].status = "CLAIMING" BY <2>1 DEF LeaseInv, OneClaim
  <2>5. resumable(doc, a) BY <1>1, <2>2 DEF resumable, claims
  <2>6. approval_is_executable(doc, a) BY <1>1, <2>3, <2>4 DEF Retryable, approval_is_executable
  <2> QED BY <2>3, <2>4, <2>5, <2>6
<1>2. ASSUME doc.state \in {"APPROVED", "EXECUTION_FAILED"}
      PROVE  \E a \in Approvals : approval_is_executable(doc, a)
  BY <1>2 DEF Retryable, approval_is_executable
<1> QED BY <1>1, <1>2 DEF NeverStranded

LEMMA RetryNext ==
  ASSUME "slow" \notin Faults PROVE LeaseInv /\ Retryable(doc) /\ [Next]_vars => Retryable(doc)'
<1> SUFFICES ASSUME LeaseInv, Retryable(doc), [Next]_vars PROVE Retryable(doc') OBVIOUS
<1>1. SoundInv' BY NextSound DEF LeaseInv
<1>2. CASE ExecNext BY <1>1, <1>2, RetryKept
<1>3. CASE doc' = doc BY <1>3
<1> QED BY <1>2, <1>3 DEF Next, vars, docVars

\* Inside the leases a case that is approved, being executed or failed can always be
\* executed, resumed or retried, wherever the execution was interrupted.
THEOREM NobodyIsStranded ==
  ASSUME "slow" \notin Faults, Approvals # {} PROVE Spec => []NeverStranded
<1>1. Init => Retryable(doc)
  BY DEF Init, ApprovedDoc, Retryable, open_requests, NoRequest, OpenStatuses
<1>2. Spec => [](LeaseInv /\ Retryable(doc))
  BY <1>1, InitInLease, NextInLease, RetryNext, PTL DEF Spec
<1> QED BY <1>2, GoesOn, PTL

\* Inside the leases every gap of the audit trail is one the case shows.
THEOREM BooksAgree == ASSUME "slow" \notin Faults PROVE Spec => []BooksInv
BY InitInBooks, NextInBooks, PTL DEF Spec

\* An executed approval has its publish row unless the case says it is missing
\* (audit_pending, reconcile_publish_audits).
THEOREM TrailIsComplete == ASSUME "slow" \notin Faults PROVE Spec => []TrailComplete
<1>1. BooksInv => TrailComplete BY DEF BooksInv, GapsShown, Booked, NamedRows, rows, TrailComplete
<1> QED BY <1>1, BooksAgree, PTL

\* With the sent ledger, inside the leases, and with a broker that delivers nothing
\* late and a ledger that is pulled completely, no decision is handed to the broker
\* twice: not by a retry, a resume, nor after a kill between acceptance and record.
THEOREM NothingIsSentTwice ==
  ASSUME Ledger, "slow" \notin Faults, "late" \notin Faults, "miss" \notin Faults
  PROVE  Spec => []AtMostOneMessage
<1>1. Spec => []OnceInv BY InitOnce, NextOnce, PTL DEF Spec
<1> QED BY <1>1, SentOnce, PTL

\* Every step of execution is, seen from outside, a step of DecisionDelivery or none
\* at all: claimed before it is accepted, accepted before it is applied or recorded.
\* A record is taken back only by a handler that outlived its lease.
THEOREM CarriesOutDecisions == Spec => KeepsDelivery
<1> DEFINE Inv == SoundInv /\ ("slow" \notin Faults => LeaseInv)
<1>1. Init => Inv BY InitSound, InitInLease
<1>2. Inv /\ [Next]_vars => Inv' BY NextSound, NextInLease
<1>3. Inv /\ [Next]_vars => [Delivery!Next]_(Delivery!state)
  BY StepsImplement DEF OutsideStep
<1> HIDE DEF Inv
<1> QED BY <1>1, <1>2, <1>3, StartsImplement, PTL DEF Spec, KeepsDelivery, Delivery!Spec


=============================================================================
