-------------------------- MODULE DecisionLoopProofs --------------------------
(***************************************************************************)
(* The desk and the executors on one case: what is published and applied   *)
(* stands on the evidence on file, for every set of handlers, requests,    *)
(* papers and approvals, and whatever goes wrong: crashes, late messages   *)
(* and handlers that outlive their lease included.                         *)
(***************************************************************************)
EXTENDS DecisionLoop, EvidenceLoopProofs, ExecutionProofs

-----------------------------------------------------------------------------
(* What holds of the stored case.  Until somebody claims a decision it is   *)
(* the desk's invariant; from then on the requests are closed and every     *)
(* approval that was not superseded stands on the evidence on file.         *)

InForce == {"VALID", "CLAIMING", "EXECUTED"}

Standing(d) ==
  \A a \in Approvals : d.approvals[a].status \in InForce =>
    /\ d.approvals[a].version = d.version
    /\ d.approvals[a].action = "release" =>
         evaluated(d) /\ (d.approvals[a].waiver \/ in_hand(d) = DocTypes)

CaseHolds(d) ==
  /\ d.state \notin InExecution => CaseInv(d)
  /\ d.state \in InExecution => open_requests(d) = {} /\ Standing(d)

\* The decision was claimed, and newer evidence has not superseded it.
OnItsWay(d, a) == d.state \in InExecution /\ a \in Approvals /\ d.approvals[a].status \in InForce

\* Whoever sends, whatever was handed over and whatever was applied is on its way.
Carried ==
  /\ \A m \in inflight \cup topic \cup pushed : OnItsWay(doc, m.approval)
  /\ \A a \in Approvals : applied[a] # NoMessage => OnItsWay(doc, a)
  /\ \A e \in Executors : call[e].phase \in Sending => OnItsWay(doc, call[e].approval)

DecisionInv == /\ TypeInv
               /\ acked \subseteq Receipts /\ NoUploadLost
               /\ CaseHolds(doc)
               /\ Carried

-----------------------------------------------------------------------------
(* What an executor may do to the case.                                     *)

SameEvidence(d, n) ==
  /\ n.version = d.version /\ n.requests = d.requests /\ n.documents = d.documents
  /\ n.evaluation = d.evaluation /\ n.resume = d.resume

\* It files something beside the decision,
Noted(d, n) == n \in CaseDoc /\ SameEvidence(d, n) /\ n.state = d.state /\ n.approvals = d.approvals

\* or carries approval a one step on.
Moved(d, n, a) ==
  /\ SameEvidence(d, n)
  /\ n.state \in InExecution /\ n.approvals[a].status \in InForce
  /\ \A b \in Approvals : /\ n.approvals[b].version = d.approvals[b].version
                          /\ n.approvals[b].action  = d.approvals[b].action
                          /\ n.approvals[b].waiver  = d.approvals[b].waiver
                          /\ b # a => n.approvals[b].status = d.approvals[b].status

LEMMA CaseStands == ASSUME NEW d, CaseHolds(d) PROVE Standing(d)
BY DEF CaseHolds, CaseInv, Standing, ApprovalsCurrent, ReleasesBacked, InForce

LEMMA NotedHolds ==
  ASSUME NEW d, NEW n, CaseHolds(d), Noted(d, n)
  PROVE  CaseHolds(n) /\ \A a : OnItsWay(d, a) => OnItsWay(n, a)
<1>1. CASE d.state \notin InExecution
  <2>1. CaseInv(d) BY <1>1 DEF CaseHolds
  <2>2. ApprovalsCurrent(n) /\ ReleasesBacked(n) /\ EvaluationTrue(n)
    BY <2>1 DEF Noted, SameEvidence, CaseInv, ApprovalsCurrent, ReleasesBacked, EvaluationTrue,
                evaluated, in_hand
  <2>3. SlotsFilled(n) /\ DecidedClosed(n) /\ Remembers(n)
    BY <2>1 DEF Noted, SameEvidence, CaseInv, SlotsFilled, Papered, DecidedClosed, Remembers,
                open_requests
  <2> QED BY <1>1, <2>2, <2>3 DEF Noted, CaseInv, CaseHolds, OnItsWay
<1>2. CASE d.state \in InExecution
  BY <1>2 DEF Noted, SameEvidence, CaseHolds, Standing, OnItsWay, evaluated, in_hand, open_requests
<1> QED BY <1>1, <1>2

LEMMA MovedHolds ==
  ASSUME NEW d, NEW n, NEW a \in Approvals, CaseHolds(d), Moved(d, n, a),
         open_requests(d) = {}, d.approvals[a].status \in InForce
  PROVE  /\ CaseHolds(n) /\ OnItsWay(n, a)
         /\ \A b : OnItsWay(d, b) => OnItsWay(n, b)
<1>1. Standing(d) BY CaseStands
<1>2. Standing(n)
  BY <1>1 DEF Moved, SameEvidence, Standing, evaluated, in_hand
<1>3. open_requests(n) = {} BY DEF Moved, SameEvidence, open_requests
<1> QED BY <1>2, <1>3 DEF Moved, CaseHolds, OnItsWay

LEMMA ConfirmedMoves ==
  ASSUME NEW d \in CaseDoc, NEW e \in Executors, call[e].approval \in Approvals
  PROVE  Moved(d, confirmed(d, e), call[e].approval)
<1> DEFINE a   == call[e].approval
           i   == call[e].exe
           n   == confirmed(d, e)
           apr(s) == [d.approvals EXCEPT ![a].status = s]
<1>1. ASSUME NEW s
      PROVE  /\ apr(s)[a].status = s
             /\ \A b \in Approvals : /\ apr(s)[b].version = d.approvals[b].version
                                     /\ apr(s)[b].action  = d.approvals[b].action
                                     /\ apr(s)[b].waiver  = d.approvals[b].waiver
                                     /\ b # a => apr(s)[b].status = d.approvals[b].status
  BY DEF CaseDoc, ApprovalRec
<1>2. CASE published(e)
  <2> DEFINE exe == [d.executions EXCEPT ![i] = [@ EXCEPT !.status = "sent",
                       !.message = call[e].message,
                       !.pending = d.executions[i].pending \/ call[e].outcome = "unsaved"]]
             pnd == d.auditPending \/ call[e].outcome = "unsaved"
  <2>1. n = [d EXCEPT !.executions = exe, !.approvals = apr("EXECUTED"),
                      !.state = outcome_of(d, a), !.auditPending = pnd]
    BY <1>2 DEF confirmed, CaseDoc
  <2>2. n.approvals = apr("EXECUTED") /\ n.state = outcome_of(d, a) /\ SameEvidence(d, n)
    <3> HIDE DEF exe, pnd, apr
    <3> QED BY <2>1 DEF CaseDoc, SameEvidence
  <2> HIDE DEF apr, n
  <2> QED BY <1>1, <2>2 DEF Moved, outcome_of, InExecution, Executed, InForce, n
<1>3. CASE ~published(e)
  <2> DEFINE exe == [d.executions EXCEPT ![i] = [@ EXCEPT
                       !.status = IF call[e].outcome = "unknown"
                                  THEN "send_unknown" ELSE "send_failed",
                       !.message = NoMessage]]
  <2>1. n = [d EXCEPT !.executions = exe, !.approvals = apr("VALID"),
                      !.state = "EXECUTION_FAILED"]
    BY <1>3 DEF confirmed, CaseDoc
  <2>2. n.approvals = apr("VALID") /\ n.state = "EXECUTION_FAILED" /\ SameEvidence(d, n)
    <3> HIDE DEF exe, apr
    <3> QED BY <2>1 DEF CaseDoc, SameEvidence
  <2> HIDE DEF apr, n
  <2> QED BY <1>1, <2>2 DEF Moved, InExecution, InForce, n
<1> QED BY <1>2, <1>3

LEMMA ClaimedMoves ==
  ASSUME NEW d \in CaseDoc, NEW a \in Approvals
  PROVE  Moved(d, [d EXCEPT !.executions          = Append(@, execution(a, "claiming")),
                            !.approvals[a].status = "CLAIMING",
                            !.state               = "EXECUTING"], a)
<1> DEFINE exe == Append(d.executions, execution(a, "claiming"))
           apr == [d.approvals EXCEPT ![a].status = "CLAIMING"]
           n   == [d EXCEPT !.executions = exe, !.approvals = apr, !.state = "EXECUTING"]
<1>1. /\ apr[a].status = "CLAIMING"
      /\ \A b \in Approvals : /\ apr[b].version = d.approvals[b].version
                              /\ apr[b].action  = d.approvals[b].action
                              /\ apr[b].waiver  = d.approvals[b].waiver
                              /\ b # a => apr[b].status = d.approvals[b].status
  BY DEF CaseDoc, ApprovalRec
<1>2. n.approvals = apr /\ n.state = "EXECUTING" /\ SameEvidence(d, n)
  <2> HIDE DEF exe, apr
  <2> QED BY DEF CaseDoc, SameEvidence
<1>3. Moved(d, n, a)
  <2> HIDE DEF apr, n
  <2> QED BY <1>1, <1>2 DEF Moved, InExecution, InForce
<1> QED BY <1>3 DEF CaseDoc

LEMMA DeniedIsNoted ==
  ASSUME NEW d \in CaseDoc, NEW a \in Approvals
  PROVE  Noted(d, [d EXCEPT !.executions = IF Len(@) < MaxExecutions
                                           THEN Append(@, execution(a, "denied")) ELSE @])
BY DeniedDoc DEF Noted, SameEvidence, CaseDoc

LEMMA ClearedIsNoted ==
  ASSUME NEW d \in CaseDoc, NEW i, cleared(d, i) \in CaseDoc PROVE Noted(d, cleared(d, i))
BY DEF Noted, SameEvidence, cleared, CaseDoc

-----------------------------------------------------------------------------
(* The steps of the executors.                                              *)

LEMMA CarriedOn ==
  ASSUME Carried,
         \A a : OnItsWay(doc, a) => OnItsWay(doc', a),
         \A m \in inflight' \cup topic' \cup pushed' :
           \/ \E k \in inflight \cup topic \cup pushed : k.approval = m.approval
           \/ OnItsWay(doc', m.approval),
         \A a \in Approvals : applied'[a] # NoMessage =>
           applied[a] # NoMessage \/ OnItsWay(doc', a),
         \A e \in Executors : call'[e].phase \in Sending =>
           \/ call[e].phase \in Sending /\ call'[e].approval = call[e].approval
           \/ OnItsWay(doc', call'[e].approval)
  PROVE  Carried'
BY DEF Carried

\* Executors write nothing a receipt speaks of.
LEMMA ExecutorStep ==
  ASSUME DecisionInv, TypeInv', UNCHANGED acked, doc'.documents = doc.documents,
         CaseHolds(doc'), Carried'
  PROVE  DecisionInv'
BY DEF DecisionInv, NoUploadLost

\* A step that leaves the case and the outside world alone.
LEMMA InsideStep ==
  ASSUME DecisionInv, TypeInv', UNCHANGED <<acked, doc, brokerVars, applied>>,
         \A e \in Executors : call'[e].phase \in Sending =>
           call[e].phase \in Sending /\ call'[e].approval = call[e].approval
  PROVE  DecisionInv'
<1>1. Carried' BY CarriedOn DEF DecisionInv, brokerVars
<1> QED BY <1>1, ExecutorStep DEF DecisionInv

\* The same when something is filed on the case.
LEMMA NotedStep ==
  ASSUME DecisionInv, TypeInv', UNCHANGED <<acked, brokerVars, applied>>, Noted(doc, doc'),
         \A e \in Executors : call'[e].phase \in Sending =>
           call[e].phase \in Sending /\ call'[e].approval = call[e].approval
  PROVE  DecisionInv'
<1>1. CaseHolds(doc') /\ \A a : OnItsWay(doc, a) => OnItsWay(doc', a)
  BY NotedHolds DEF DecisionInv
<1>2. Carried' BY <1>1, CarriedOn DEF DecisionInv, brokerVars
<1>3. doc'.documents = doc.documents BY DEF Noted, SameEvidence
<1> QED BY <1>1, <1>2, <1>3, ExecutorStep

\* A message that was handed over is accepted or lost.
LEMMA HandedOver ==
  ASSUME DecisionInv, TypeInv', UNCHANGED <<acked, doc, applied>>, NEW m \in inflight,
         BrokerAccepts(m) \/ BrokerLoses(m) \/ UNCHANGED brokerVars,
         \A e \in Executors : call'[e].phase \in Sending =>
           call[e].phase \in Sending /\ call'[e].approval = call[e].approval
  PROVE  DecisionInv'
<1>1. \A k \in inflight' \cup topic' \cup pushed' : k \in inflight \cup topic \cup pushed
  BY DEF BrokerAccepts, BrokerLoses, brokerVars
<1>2. Carried' BY <1>1, CarriedOn DEF DecisionInv
<1> QED BY <1>2, ExecutorStep DEF DecisionInv

LEMMA ClaimStepHolds ==
  ASSUME DecisionInv, TypeInv', UNCHANGED acked, NEW e \in Executors, ClaimStep(e)
  PROVE  DecisionInv'
<1> DEFINE a == call[e].approval
<1>a. /\ e \in Calls /\ DocInv /\ call \in [Executors -> CallRec] /\ CaseHolds(doc)
      /\ call[e].phase # "idle" => a \in Approvals
  BY ExecutorsAreCalls DEF DecisionInv, TypeInv, CallsOK, BusyHasApproval
<1>b. "idle" \notin Sending /\ "loaded" \notin Sending BY DEF Sending
<1>1. ASSUME NEW b \in Approvals, Begin(e, b) PROVE DecisionInv'
  BY <1>1, <1>a, <1>b, InsideStep DEF Begin, Get, Idle
<1>2. CASE Deny(e)
  <2>1. snap[e] = doc /\ doc \in CaseDoc /\ a \in Approvals
        /\ doc' = [snap[e] EXCEPT !.executions = IF Len(@) < MaxExecutions
                                                 THEN Append(@, execution(a, "denied")) ELSE @]
    BY <1>2, <1>a, WriterHoldsDoc DEF Deny
  <2>2. Noted(doc, doc') BY <2>1, DeniedIsNoted
  <2> QED BY <1>2, <1>a, <1>b, <2>2, NotedStep DEF Deny, Idle
<1>3. CASE Claim(e)
  <2>1. /\ snap[e] = doc /\ doc \in CaseDoc /\ a \in Approvals
        /\ approval_is_executable(doc, a)
        /\ doc' = [snap[e] EXCEPT !.executions          = Append(@, execution(a, "claiming")),
                                  !.approvals[a].status = "CLAIMING",
                                  !.state               = "EXECUTING"]
    BY <1>3, <1>a, WriterHoldsDoc DEF Claim
  <2>2. Moved(doc, doc', a) BY <2>1, ClaimedMoves
  <2>3. open_requests(doc) = {} /\ doc.approvals[a].status \in InForce
    BY <2>1 DEF approval_is_executable, InForce
  <2>4. /\ CaseHolds(doc') /\ OnItsWay(doc', a)
        /\ \A b : OnItsWay(doc, b) => OnItsWay(doc', b)
    BY <1>a, <2>1, <2>2, <2>3, MovedHolds
  <2>5. /\ call'[e].approval = a /\ \A f \in Executors : f # e => call'[f] = call[f]
        /\ UNCHANGED <<brokerVars, applied>>
    BY <1>3, <1>a DEF Claim, StartSend, Idle
  <2>6. Carried' BY <2>4, <2>5, CarriedOn DEF DecisionInv, brokerVars
  <2>7. doc'.documents = doc.documents BY <2>2 DEF Moved, SameEvidence
  <2> QED BY <2>4, <2>6, <2>7, ExecutorStep
<1>4. CASE Resume(e)
  <2>1. /\ snap[e] = doc /\ doc' = doc /\ a \in Approvals
        /\ approval_is_executable(snap[e], a) /\ resumable(snap[e], a)
    BY <1>4, <1>a, WriterHoldsDoc DEF Resume
  <2>2. OnItsWay(doc, a)
    BY <2>1 DEF approval_is_executable, resumable, OnItsWay, InExecution, InForce
  <2>3. /\ call'[e].approval = a /\ \A f \in Executors : f # e => call'[f] = call[f]
        /\ UNCHANGED <<brokerVars, applied>>
    BY <1>4, <1>a DEF Resume, StartSend, Idle
  <2>4. Carried' BY <2>1, <2>2, <2>3, CarriedOn DEF DecisionInv, brokerVars
  <2> QED BY <1>a, <2>1, <2>4, ExecutorStep
<1>5. CASE LeaseRefused(e) \/ Conflict(e)
  BY <1>5, <1>a, <1>b, InsideStep DEF LeaseRefused, Conflict, Drop, Idle
<1> QED BY <1>1, <1>2, <1>3, <1>4, <1>5 DEF ClaimStep

LEMMA SendStepHolds ==
  ASSUME DecisionInv, TypeInv', UNCHANGED acked, NEW e \in Executors, SendStep(e) \/ Reread(e)
  PROVE  DecisionInv'
<1>a. /\ doc' = doc /\ CallsOK
      /\ \A f \in Executors : call'[f].phase \in Sending =>
           call[f].phase \in Sending /\ call'[f].approval = call[f].approval
  BY SenderMoves DEF DecisionInv, TypeInv
<1>1. CASE Tool(e) \/ StoreFails(e) \/ Lookup(e) \/ LedgerUnreadable(e) \/ Relookup(e)
           \/ SaveLookup(e) \/ Save(e) \/ SaveFails(e) \/ Reread(e)
  <2>1. UNCHANGED <<brokerVars, applied>>
    BY <1>1 DEF Tool, StoreFails, Lookup, LedgerUnreadable, Relookup, SaveLookup, Save, SaveFails,
                Reread
  <2> QED BY <1>a, <2>1, InsideStep
<1>2. CASE Settle(e)
  <2>1. UNCHANGED <<inflight, topic, pushed, applied>> BY <1>2 DEF Settle
  <2>2. Carried' BY <1>a, <2>1, CarriedOn DEF DecisionInv
  <2> QED BY <1>a, <2>2, ExecutorStep DEF DecisionInv
<1>3. CASE Submit(e)
  <2>1. /\ call[e].phase \in Sending
        /\ inflight' = inflight \cup {[id |-> submitted + 1, approval |-> call[e].approval]}
        /\ UNCHANGED <<topic, pushed, applied>>
    BY <1>3 DEF Submit, Sending
  <2>2. OnItsWay(doc, call[e].approval) BY <2>1 DEF DecisionInv, Carried
  <2>3. Carried' BY <1>a, <2>1, <2>2, CarriedOn DEF DecisionInv
  <2> QED BY <1>a, <2>3, ExecutorStep DEF DecisionInv
<1>4. CASE Accepted(e) \/ TimedOut(e) \/ Rejected(e)
  <2>1. PICK m \in inflight : BrokerAccepts(m) \/ BrokerLoses(m) \/ UNCHANGED brokerVars
    BY <1>4 DEF Accepted, TimedOut, Rejected, outgoing, Abandoned
  <2>2. UNCHANGED applied BY <1>4 DEF Accepted, TimedOut, Rejected
  <2> QED BY <1>a, <2>1, <2>2, HandedOver
<1> QED BY <1>1, <1>2, <1>3, <1>4 DEF SendStep

LEMMA OtherStepHolds ==
  ASSUME DecisionInv, TypeInv', UNCHANGED acked, NEW e \in Executors,
         Confirm(e) \/ Reconcile(e) \/ Crash(e)
  PROVE  DecisionInv'
<1> DEFINE a == call[e].approval
<1>a. /\ e \in Calls /\ DocInv /\ call \in [Executors -> CallRec] /\ CaseHolds(doc)
      /\ call[e].phase # "idle" => a \in Approvals
  BY ExecutorsAreCalls DEF DecisionInv, TypeInv, CallsOK, BusyHasApproval
<1>b. "idle" \notin Sending /\ "reconcile" \notin Sending /\ "clear" \notin Sending
  BY DEF Sending
<1>1. CASE Confirm(e)
  <2>1. doc \in CaseDoc /\ doc' = confirmed(doc, e) /\ a \in Approvals
    BY <1>1, <1>a, WriterHoldsDoc DEF Confirm
  <2>2. Moved(doc, doc', a) BY <2>1, ConfirmedMoves
  <2>3. OnItsWay(doc, a) BY <1>1 DEF Confirm, Sending, DecisionInv, Carried
  <2>4. open_requests(doc) = {} /\ doc.approvals[a].status \in InForce
    BY <1>a, <2>3 DEF OnItsWay, CaseHolds
  <2>5. CaseHolds(doc') /\ \A b : OnItsWay(doc, b) => OnItsWay(doc', b)
    BY <1>a, <2>1, <2>2, <2>4, MovedHolds
  <2>6. /\ call'[e].phase = "idle" /\ \A f \in Executors : f # e => call'[f] = call[f]
        /\ UNCHANGED <<brokerVars, applied>>
    BY <1>1, <1>a DEF Confirm, Idle
  <2>7. Carried' BY <1>b, <2>5, <2>6, CarriedOn DEF DecisionInv, brokerVars
  <2>8. doc'.documents = doc.documents BY <2>2 DEF Moved, SameEvidence
  <2> QED BY <2>5, <2>7, <2>8, ExecutorStep
<1>2. CASE ReconcileBegin(e) BY <1>2, <1>a, <1>b, InsideStep DEF ReconcileBegin, Get, Idle
<1>3. CASE ReconcileRow(e) BY <1>3, <1>a, <1>b, InsideStep DEF ReconcileRow, Goto, docVars
<1>4. CASE ReconcileClear(e)
  <2>1. doc \in CaseDoc /\ doc' = cleared(doc, call[e].exe) /\ doc' \in CaseDoc
    BY <1>4, <1>a, WriterHoldsDoc DEF ReconcileClear, TypeInv, DocInv, DocTypeOK
  <2>2. Noted(doc, doc') BY <2>1, ClearedIsNoted
  <2> QED BY <1>4, <1>a, <1>b, <2>2, NotedStep DEF ReconcileClear, Idle
<1>5. CASE ReconcileFails(e) BY <1>5, <1>a, <1>b, InsideStep DEF ReconcileFails, Drop, Idle
<1>6. CASE Crash(e)
  <2>1. /\ call'[e].phase = "idle" /\ \A f \in Executors : f # e => call'[f] = call[f]
        /\ UNCHANGED <<doc, applied>>
    BY <1>6, <1>a DEF Crash, Drop, Idle
  <2>2. \/ UNCHANGED brokerVars
        \/ \E m \in inflight : BrokerAccepts(m) \/ BrokerLoses(m) \/ UNCHANGED brokerVars
    BY <1>6 DEF Crash, outgoing, Abandoned
  <2> QED BY <1>b, <2>1, <2>2, InsideStep, HandedOver
<1> QED BY <1>1, <1>2, <1>3, <1>4, <1>5, <1>6 DEF Reconcile

LEMMA EnvironmentHolds ==
  ASSUME DecisionInv, TypeInv', UNCHANGED acked,
         \/ \E i \in 1..MaxExecutions : LeaseExpires(i)
         \/ \E m \in inflight : Straggler(m)
         \/ \E m \in pushed : Deliver(m)
  PROVE  DecisionInv'
<1>1. ASSUME NEW i \in 1..MaxExecutions, LeaseExpires(i) PROVE DecisionInv'
  BY <1>1, InsideStep DEF LeaseExpires, docVars
<1>2. ASSUME NEW m \in inflight, Straggler(m) PROVE DecisionInv'
  BY <1>2, HandedOver DEF Straggler, docVars
<1>3. ASSUME NEW m \in pushed, Deliver(m) PROVE DecisionInv'
  <2>1. OnItsWay(doc, m.approval) BY DEF DecisionInv, Carried
  <2>2. /\ doc' = doc /\ call' = call /\ pushed' \subseteq pushed
        /\ UNCHANGED <<inflight, topic>>
    BY <1>3 DEF Deliver, docVars
  <2>3. \A a \in Approvals : applied'[a] # NoMessage => applied[a] # NoMessage \/ a = m.approval
    BY <1>3 DEF Deliver, DecisionInv, TypeInv, RestOK
  <2>4. Carried' BY <2>1, <2>2, <2>3, CarriedOn DEF DecisionInv
  <2> QED BY <2>2, <2>4, ExecutorStep DEF DecisionInv
<1> QED BY <1>1, <1>2, <1>3

LEMMA ExecutorsHold ==
  ASSUME DecisionInv, ExecNext, UNCHANGED acked PROVE DecisionInv'
<1>1. TypeInv' BY NextTyped DEF DecisionInv, Next
<1> QED BY <1>1, ClaimStepHolds, SendStepHolds, OtherStepHolds, EnvironmentHolds
        DEF ExecNext, ConfirmStep

-----------------------------------------------------------------------------
(* The steps of the desk.                                                   *)

\* Once a decision is being carried out the desk only reads.
LEMMA DeskWaits ==
  ASSUME DecisionInv, doc.state \in InExecution, NEW c \in Desk,
         Read(c) \/ Leave(c) \/ RequestStep(c) \/ Upload(c) \/ ReviewStep(c)
  PROVE  UNCHANGED <<doc, acked>> /\ DocInv'
<1>a. c \in Calls /\ DocInv /\ open_requests(doc) = {}
  BY DeskCalls DEF DecisionInv, TypeInv, CaseHolds
<1>b. doc.state \notin Reviewable \cup {"AWAITING_EVIDENCE", "APPROVED"}
  BY DEF InExecution, Executed, Reviewable
<1>1. CASE Read(c) \/ Leave(c)
  BY <1>1, <1>a, GetKeepsDocInv, DropKeepsDocInv DEF Read, Leave, Get, Drop
<1>2. ASSUME RequestStep(c) PROVE FALSE
  BY <1>2, <1>a, <1>b, WriterHoldsDoc
     DEF RequestStep, RequestEvidence, ReissueLink, CancelRequest, Requestable
<1>3. ASSUME Upload(c) PROVE FALSE
  BY <1>3, <1>a, WriterHoldsDoc DEF Upload, ReceiveEvidence, link_is_good
<1>4. ASSUME ReviewStep(c) PROVE FALSE
  BY <1>4, <1>a, <1>b, WriterHoldsDoc
     DEF ReviewStep, Reevaluate, Approve, ApproveException, Reevaluable, may_approve
<1> QED BY <1>1, <1>2, <1>3, <1>4

LEMMA DeskHolds ==
  ASSUME DecisionInv, DeskNext, UNCHANGED execVars PROVE DecisionInv'
<1>1. ASSUME DocInv' PROVE TypeInv'
  BY <1>1, UnchangedBroker, UnchangedAudit, UnchangedRest
     DEF DecisionInv, TypeInv, execVars, CallsOK, BusyHasApproval
<1>2. CASE doc.state \in InExecution
  <2>1. UNCHANGED <<doc, acked>> /\ DocInv' BY <1>2, DeskWaits DEF DeskNext
  <2> QED BY <1>1, <2>1, InsideStep DEF execVars
<1>3. CASE doc.state \notin InExecution
  <2>1. DeskInv BY <1>3 DEF DecisionInv, TypeInv, CaseHolds, DeskInv
  <2>2. DeskInv' BY <2>1, DeskStep
  <2>3. CaseHolds(doc')
    <3>1. CaseInv(doc') BY <2>2 DEF DeskInv
    <3>2. Standing(doc')
      BY <3>1 DEF CaseInv, Standing, ApprovalsCurrent, ReleasesBacked, InForce
    <3>3. doc'.state \in InExecution => open_requests(doc') = {}
      BY <3>1 DEF CaseInv, DecidedClosed
    <3> QED BY <3>1, <3>2, <3>3 DEF CaseHolds
  <2>4. Carried' BY <1>3 DEF DecisionInv, Carried, OnItsWay, execVars, brokerVars
  <2> QED BY <1>1, <2>2, <2>3, <2>4 DEF DeskInv, DecisionInv
<1> QED BY <1>2, <1>3

LEMMA DecisionStarts == DecisionInit => DecisionInv
<1> SUFFICES ASSUME DecisionInit PROVE DecisionInv OBVIOUS
<1>1. DeskInv BY DeskStep DEF DecisionInit
<1>2. CallsOK
  BY DEF DecisionInit, ExecInit, CallsOK, BusyHasApproval, Idle, CallRec, Phases, Outcomes
<1>3. BrokerOK /\ AuditOK /\ RestOK BY DEF DecisionInit, ExecInit, BrokerOK, AuditOK, RestOK
<1>4. TypeInv BY <1>1, <1>2, <1>3 DEF TypeInv, DeskInv
<1>5. doc.state \in Reviewable BY DEF DecisionInit, LoopInit, NewDoc
<1>6. CaseHolds(doc) BY <1>1, <1>5 DEF DeskInv, CaseHolds, Reviewable, InExecution, Executed
<1>7. Carried BY DEF DecisionInit, ExecInit, Carried, Idle, Sending
<1> QED BY <1>1, <1>4, <1>6, <1>7 DEF DeskInv, DecisionInv

LEMMA DecisionHolds == DecisionInv /\ [DecisionNext]_decisionVars => DecisionInv'
<1> SUFFICES ASSUME DecisionInv, [DecisionNext]_decisionVars PROVE DecisionInv' OBVIOUS
<1>1. CASE UNCHANGED decisionVars
  <2>1. UNCHANGED <<vars, acked>> BY <1>1 DEF decisionVars, vars
  <2>2. TypeInv' BY <2>1, NextTyped DEF DecisionInv
  <2> QED BY <1>1, <2>2, InsideStep DEF decisionVars, docVars, execVars
<1>2. CASE DecisionNext BY <1>2, DeskHolds, ExecutorsHold DEF DecisionNext
<1> QED BY <1>1, <1>2

-----------------------------------------------------------------------------
(* What follows for the case.                                               *)

LEMMA OnItsWayIsCurrent ==
  ASSUME DecisionInv, NEW a, OnItsWay(doc, a)
  PROVE  /\ doc.approvals[a].status # "SUPERSEDED" /\ doc.approvals[a].version = doc.version
         /\ doc.approvals[a].action = "release" =>
              evaluated(doc) /\ (doc.approvals[a].waiver \/ in_hand(doc) = DocTypes)
<1>1. Standing(doc) BY CaseStands DEF DecisionInv
<1> QED BY <1>1 DEF Standing, OnItsWay, InForce

LEMMA ExecutorsKeepEvidence ==
  ASSUME DecisionInv, ExecNext PROVE SameEvidence(doc, doc')
<1>a. DocInv /\ \A e \in Executors : /\ e \in Calls
                                     /\ call[e].phase # "idle" => call[e].approval \in Approvals
  BY ExecutorsAreCalls DEF DecisionInv, TypeInv, CallsOK, BusyHasApproval
<1>b. doc' = doc => SameEvidence(doc, doc') BY DEF SameEvidence
<1>1. ASSUME NEW e \in Executors, ClaimStep(e) PROVE SameEvidence(doc, doc')
  <2>1. CASE Deny(e)
    BY <2>1, <1>a, WriterHoldsDoc, DeniedIsNoted DEF Deny, Noted
  <2>2. CASE Claim(e)
    <3>1. /\ snap[e] = doc /\ doc \in CaseDoc /\ call[e].approval \in Approvals
          /\ doc' = [snap[e] EXCEPT !.executions = Append(@, execution(call[e].approval, "claiming")),
                                    !.approvals[call[e].approval].status = "CLAIMING",
                                    !.state = "EXECUTING"]
      BY <2>2, <1>a, WriterHoldsDoc DEF Claim
    <3>2. Moved(doc, doc', call[e].approval) BY <3>1, ClaimedMoves
    <3> QED BY <3>2 DEF Moved
  <2>3. CASE Resume(e)
    <3>1. doc' = doc BY <2>3, <1>a, WriterHoldsDoc DEF Resume
    <3> QED BY <3>1, <1>b
  <2>4. CASE LeaseRefused(e) \/ Conflict(e) \/ \E a \in Approvals : Begin(e, a)
    BY <2>4, <1>b DEF LeaseRefused, Conflict, Begin, Get, Drop
  <2> QED BY <1>1, <2>1, <2>2, <2>3, <2>4 DEF ClaimStep
<1>2. ASSUME NEW e \in Executors, SendStep(e) \/ Reread(e) PROVE SameEvidence(doc, doc')
  BY <1>2, <1>b, SenderMoves DEF DecisionInv, TypeInv
<1>3. ASSUME NEW e \in Executors, Confirm(e) PROVE SameEvidence(doc, doc')
  <2>1. doc \in CaseDoc /\ doc' = confirmed(doc, e) /\ call[e].approval \in Approvals
    BY <1>3, <1>a, WriterHoldsDoc DEF Confirm
  <2> QED BY <2>1, ConfirmedMoves DEF Moved
<1>4. ASSUME NEW e \in Executors, Reconcile(e) PROVE SameEvidence(doc, doc')
  <2>1. CASE ReconcileClear(e)
    <3>1. doc \in CaseDoc /\ doc' = cleared(doc, call[e].exe)
      BY <2>1, <1>a, WriterHoldsDoc DEF ReconcileClear
    <3> QED BY <3>1 DEF cleared, CaseDoc, SameEvidence
  <2>2. CASE ReconcileBegin(e) \/ ReconcileRow(e) \/ ReconcileFails(e)
    BY <2>2, <1>b DEF ReconcileBegin, ReconcileRow, ReconcileFails, Get, Drop, docVars
  <2> QED BY <1>4, <2>1, <2>2 DEF Reconcile
<1>5. ASSUME NEW e \in Executors, Crash(e) PROVE SameEvidence(doc, doc')
  BY <1>5, <1>b DEF Crash, Drop
<1>6. ASSUME \/ \E i \in 1..MaxExecutions : LeaseExpires(i)
             \/ \E m \in inflight : Straggler(m)
             \/ \E m \in pushed : Deliver(m)
      PROVE  SameEvidence(doc, doc')
  BY <1>6, <1>b DEF LeaseExpires, Straggler, Deliver, docVars
<1> QED BY <1>1, <1>2, <1>3, <1>4, <1>5, <1>6 DEF ExecNext, ConfirmStep

-----------------------------------------------------------------------------
(* The theorems.                                                            *)

\* In the whole system, desk and executors interleaved, DecisionInv always holds.
THEOREM DecisionSound == DecisionSpec => []DecisionInv
BY DecisionStarts, DecisionHolds, PTL DEF DecisionSpec

\* Every decision that ever reaches the broker (evidence.py: the claim of phase 1
\* checks the approval, phase 2 publishes minutes later) rests on the evidence
\* version that is still on file, even from a handler that outlived its lease.
THEOREM PublishedStandsOnEvidence == DecisionSpec => []PublishedOnCurrentEvidence
<1>1. DecisionInv => PublishedOnCurrentEvidence
  BY OnItsWayIsCurrent DEF DecisionInv, Carried, PublishedOnCurrentEvidence
<1> QED BY <1>1, DecisionSound, PTL

\* The receiver (decision_push) never applies a release without the papers, or a
\* waiver that names what is missing, and an evaluation of them on the case.
THEOREM AppliedReleasesAreBacked == DecisionSpec => []AppliedReleaseIsBacked
<1>1. DecisionInv => AppliedReleaseIsBacked
  BY OnItsWayIsCurrent DEF DecisionInv, Carried, AppliedReleaseIsBacked
<1> QED BY <1>1, DecisionSound, PTL

\* From the claim on nobody, at the desk or executing, moves the evidence the
\* claimed decision rests on.
THEOREM EvidenceStaysPut == DecisionSpec => EvidenceFrozen
<1>1. DecisionInv /\ [DecisionNext]_decisionVars => [KeepsEvidence]_decisionVars
  <2> SUFFICES ASSUME DecisionInv, DecisionNext, doc.state \in InExecution
               PROVE  /\ doc'.version = doc.version
                      /\ doc'.requests = doc.requests
                      /\ doc'.documents = doc.documents
                      /\ doc'.evaluation = doc.evaluation
    BY DEF KeepsEvidence
  <2>1. CASE DeskNext BY <2>1, DeskWaits DEF DeskNext
  <2>2. CASE ExecNext BY <2>2, ExecutorsKeepEvidence DEF SameEvidence
  <2> QED BY <2>1, <2>2 DEF DecisionNext
<1> QED BY <1>1, DecisionSound, PTL DEF DecisionSpec, EvidenceFrozen

\* The executors, who write the whole case document back, overwrite no upload a
\* shipper holds a receipt for.
THEOREM ExecutorsLoseNoUpload == DecisionSpec => []NoUploadLost
<1>1. DecisionInv => NoUploadLost BY DEF DecisionInv
<1> QED BY <1>1, DecisionSound, PTL

\* An approval in force, claimed or not, is for the evidence on file, and a release
\* among them is evaluated and has its papers or its waiver: the guards that the
\* desk writes down are not undone by the executors' whole-document writes.
THEOREM ApprovalsStandThroughout ==
  DecisionSpec => [](StandingApprovalIsCurrent /\ ReleaseIsBacked /\ DecidedMeansClosed)
<1>1. DecisionInv => StandingApprovalIsCurrent /\ ReleaseIsBacked
  BY CaseStands DEF DecisionInv, Standing, InForce, StandingApprovalIsCurrent, ReleaseIsBacked
<1>2. DecisionInv => DecidedMeansClosed
  BY DEF DecisionInv, CaseHolds, CaseInv, DecidedClosed, DecidedMeansClosed, InExecution, Executed
<1> QED BY <1>1, <1>2, DecisionSound, PTL

=============================================================================
