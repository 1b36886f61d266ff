-------------------------- MODULE EvidenceLoopProofs --------------------------
(* Safety of the desk for every set of handlers, requests, papers and          *)
(* approvals: what the shipper was told is kept, and what was approved stands  *)
(* on the evidence that is on file.                                            *)
EXTENDS EvidenceLoop, CaseDocumentProofs

-----------------------------------------------------------------------------
(* What holds of the stored case.                                             *)

\* Nobody at the desk claims an approval, and a valid one is of this version.
ApprovalsCurrent(d) ==
  \A a \in Approvals :
    /\ d.approvals[a].status \in {"NONE", "VALID", "SUPERSEDED"}
    /\ d.approvals[a].status = "VALID" => d.approvals[a].version = d.version

ReleasesBacked(d) ==
  \A a \in Approvals :
    d.approvals[a].status = "VALID" /\ d.approvals[a].action = "release" =>
      evaluated(d) /\ (d.approvals[a].waiver \/ in_hand(d) = DocTypes)

\* An evaluation is not ahead of the evidence, and one that finds everything
\* provided at this version has everything in hand.
EvaluationTrue(d) ==
  /\ d.evaluation # NoEval => d.evaluation.version <= d.version
  /\ evaluated(d) /\ d.evaluation.status = "provided" => in_hand(d) = DocTypes

Papered(d, r, t) == \E p \in d.documents : p.request = r /\ p.type = t /\ p.usable

\* A filled slot has its paper, and a closed request has every slot filled.
SlotsFilled(d) ==
  \A r \in Requests :
    /\ \A t \in d.requests[r].received : Papered(d, r, t)
    /\ d.requests[r].status = "RECEIVED" => d.requests[r].wanted \subseteq d.requests[r].received

DecidedClosed(d) == d.state \in InExecution \cup {"APPROVED"} => open_requests(d) = {}

Remembers(d) == d.state = "AWAITING_EVIDENCE" => d.resume \in Reviewable \cup {"APPROVED"}

CaseInv(d) ==
  /\ d \in CaseDoc
  /\ ApprovalsCurrent(d) /\ ReleasesBacked(d) /\ EvaluationTrue(d)
  /\ SlotsFilled(d) /\ DecidedClosed(d) /\ Remembers(d)

\* The inductive invariant.
DeskInv == DocInv /\ CaseInv(doc) /\ acked \subseteq Receipts /\ NoUploadLost

-----------------------------------------------------------------------------
(* Each operation on a case keeps what holds of it.                           *)

LEMMA NewCaseInv ==
  ASSUME NEW state \in Reviewable
  PROVE  CaseInv(NewDoc(state))
<1> DEFINE d == NewDoc(state)
<1>1. NoRequest \in RequestRec /\ NoApprovalYet \in ApprovalRec
  BY DEF NoRequest, RequestRec, NoApprovalYet, ApprovalRec, Actions, OpenStatuses
<1>2. <<>> \in Seq(ExecutionRec)
  OBVIOUS
<1>3. d \in CaseDoc
  BY <1>1, <1>2 DEF NewDoc, CaseDoc, CaseStates
<1>4. /\ d.state = state /\ d.evaluation = NoEval
      /\ \A a \in Approvals : d.approvals[a].status = "NONE"
      /\ \A r \in Requests : d.requests[r].status = "NONE" /\ d.requests[r].received = {}
  BY DEF NewDoc, NoRequest, NoApprovalYet
<1> HIDE DEF d
<1>5. ApprovalsCurrent(d) /\ ReleasesBacked(d) /\ EvaluationTrue(d) /\ SlotsFilled(d)
  BY <1>4 DEF ApprovalsCurrent, ReleasesBacked, EvaluationTrue, SlotsFilled, evaluated
<1>6. DecidedClosed(d) /\ Remembers(d)
  BY <1>4 DEF DecidedClosed, Remembers, Reviewable, InExecution, Executed
<1> QED
  BY <1>3, <1>5, <1>6 DEF CaseInv, d

\* An operation that leaves papers, evaluation and approvals alone keeps what
\* rests on them.
LEMMA RequestsOnly ==
  ASSUME NEW d, CaseInv(d), NEW n \in CaseDoc, n.version = d.version, n.documents = d.documents,
         n.evaluation = d.evaluation, n.approvals = d.approvals
  PROVE  ApprovalsCurrent(n) /\ ReleasesBacked(n) /\ EvaluationTrue(n)
BY DEF CaseInv, ApprovalsCurrent, ReleasesBacked, EvaluationTrue, evaluated, in_hand

\* A new request.
LEMMA RequestedInv ==
  ASSUME NEW d, CaseInv(d), NEW r \in Requests, NEW wanted \in SUBSET DocTypes,
         d.state \in Requestable, NEW n, n = requested(d, r, wanted)
  PROVE  CaseInv(n)
<1> DEFINE rec == [status |-> "SENT", seq |-> 1, wanted |-> wanted, received |-> {}]
<1>1. rec \in RequestRec /\ d \in CaseDoc
  BY DEF RequestRec, OpenStatuses, CaseInv
<1>2. /\ n.requests = [d.requests EXCEPT ![r] = rec]
      /\ n.state = "AWAITING_EVIDENCE"
      /\ n.resume = IF d.state = "AWAITING_EVIDENCE" THEN d.resume ELSE d.state
      /\ n.version = d.version /\ n.documents = d.documents
      /\ n.evaluation = d.evaluation /\ n.approvals = d.approvals
  BY <1>1 DEF requested, CaseDoc
<1>3. n \in CaseDoc
  BY <1>1 DEF requested, CaseDoc, CaseStates
<1>4. ApprovalsCurrent(n) /\ ReleasesBacked(n) /\ EvaluationTrue(n)
  BY <1>2, <1>3, RequestsOnly
<1>5. SlotsFilled(n)
  BY <1>1, <1>2 DEF CaseInv, CaseDoc, SlotsFilled, Papered
<1>6. DecidedClosed(n) /\ Remembers(n)
  BY <1>2 DEF CaseInv, DecidedClosed, Remembers, InExecution, Executed, Requestable
<1> QED
  BY <1>3, <1>4, <1>5, <1>6 DEF CaseInv

\* The fields of a request under a new link.
LEMMA LinkFields ==
  ASSUME NEW q \in RequestRec, NEW rec, rec = relinked(q)
  PROVE  rec \in RequestRec /\ rec.status = "SENT" /\ rec.received = q.received
<1>1. q.seq \in Nat
  BY DEF RequestRec
<1>2. rec = [status |-> "SENT", seq |-> q.seq + 1, wanted |-> q.wanted, received |-> q.received]
  <2>1. q = [status |-> q.status, seq |-> q.seq, wanted |-> q.wanted, received |-> q.received]
    BY DEF RequestRec
  <2> QED
    BY <2>1 DEF relinked
<1> QED
  BY <1>1, <1>2 DEF RequestRec, OpenStatuses

\* A new link on an open request.
LEMMA ReissuedInv ==
  ASSUME NEW d, CaseInv(d), NEW r \in open_requests(d),
         NEW rec, rec = relinked(d.requests[r]), NEW n, n = [d EXCEPT !.requests[r] = rec]
  PROVE  CaseInv(n)
<1>1. d \in CaseDoc /\ r \in Requests /\ d.requests[r] \in RequestRec
  BY DEF CaseInv, CaseDoc, open_requests
<1>2. rec \in RequestRec /\ rec.status = "SENT" /\ rec.received = d.requests[r].received
  BY <1>1, LinkFields
<1>4. /\ n \in CaseDoc /\ n.requests = [d.requests EXCEPT ![r] = rec]
      /\ n.state = d.state /\ n.resume = d.resume
      /\ n.version = d.version /\ n.documents = d.documents
      /\ n.evaluation = d.evaluation /\ n.approvals = d.approvals
  BY <1>1, <1>2 DEF CaseDoc
<1>5. ApprovalsCurrent(n) /\ ReleasesBacked(n) /\ EvaluationTrue(n)
  BY <1>4, RequestsOnly
<1>6. SlotsFilled(n)
  BY <1>1, <1>2, <1>4 DEF CaseInv, CaseDoc, SlotsFilled, Papered
<1>7. DecidedClosed(n) /\ Remembers(n)
  BY <1>1, <1>4 DEF CaseInv, DecidedClosed, Remembers
<1> QED
  BY <1>4, <1>5, <1>6, <1>7 DEF CaseInv

\* A request withdrawn; the last one takes the case back where it was.
LEMMA CancelledInv ==
  ASSUME NEW d, CaseInv(d), NEW r \in open_requests(d), NEW n, n = cancelled(d, r)
  PROVE  CaseInv(n)
<1> DEFINE closed == [d EXCEPT !.requests[r].status = "CANCELLED"]
           rec == [d.requests[r] EXCEPT !.status = "CANCELLED"]
<1>1. d \in CaseDoc /\ r \in Requests /\ d.requests[r] \in RequestRec
  BY DEF CaseInv, CaseDoc, open_requests
<1>2. rec \in RequestRec /\ rec.status = "CANCELLED" /\ rec.received = d.requests[r].received
  BY <1>1 DEF RequestRec
<1>3. closed = [d EXCEPT !.requests[r] = rec]
  BY <1>1 DEF CaseDoc
<1>4. n = IF d.state = "AWAITING_EVIDENCE" /\ open_requests(closed) = {}
          THEN [closed EXCEPT !.state  = IF d.resume = NoState THEN "HELD_FOR_REVIEW" ELSE d.resume,
                              !.resume = NoState]
          ELSE closed
  BY DEF cancelled
<1> HIDE DEF rec, closed
<1>5. /\ closed \in CaseDoc /\ closed.requests = [d.requests EXCEPT ![r] = rec]
      /\ closed.state = d.state /\ closed.resume = d.resume
      /\ closed.version = d.version /\ closed.documents = d.documents
      /\ closed.evaluation = d.evaluation /\ closed.approvals = d.approvals
  BY <1>1, <1>2, <1>3 DEF CaseDoc
<1>6. open_requests(closed) \subseteq open_requests(d)
  BY <1>1, <1>2, <1>5 DEF open_requests, OpenStatuses, CaseDoc
<1>7. /\ n \in CaseDoc /\ n.requests = closed.requests
      /\ n.version = d.version /\ n.documents = d.documents
      /\ n.evaluation = d.evaluation /\ n.approvals = d.approvals
      /\ \/ n.state = d.state /\ n.resume = d.resume
         \/ /\ open_requests(closed) = {}
            /\ d.state = "AWAITING_EVIDENCE"
            /\ n.state \in {"HELD_FOR_REVIEW", d.resume}
  <2>1. CASE n = closed
    BY <1>5, <2>1
  <2>2. CASE /\ d.state = "AWAITING_EVIDENCE" /\ open_requests(closed) = {}
             /\ n = [closed EXCEPT !.state = IF d.resume = NoState THEN "HELD_FOR_REVIEW"
                                             ELSE d.resume,
                                   !.resume = NoState]
    <3> DEFINE back == IF d.resume = NoState THEN "HELD_FOR_REVIEW" ELSE d.resume
    <3>1. back \in CaseStates /\ back \in {"HELD_FOR_REVIEW", d.resume}
      BY <1>1 DEF CaseDoc, CaseStates, Reviewable
    <3>2. n = [closed EXCEPT !.state = back, !.resume = NoState]
      BY <2>2
    <3> HIDE DEF back
    <3>3. n \in CaseDoc /\ n.requests = closed.requests /\ n.state = back
          /\ n.version = closed.version /\ n.documents = closed.documents
          /\ n.evaluation = closed.evaluation /\ n.approvals = closed.approvals
      BY <1>5, <3>1, <3>2 DEF CaseDoc
    <3> QED
      BY <1>5, <2>2, <3>1, <3>3
  <2> QED
    BY <1>4, <2>1, <2>2
<1>8. ApprovalsCurrent(n) /\ ReleasesBacked(n) /\ EvaluationTrue(n)
  BY <1>7, RequestsOnly
<1>9. SlotsFilled(n)
  BY <1>1, <1>2, <1>5, <1>7 DEF CaseInv, CaseDoc, SlotsFilled, Papered
<1>10. open_requests(n) = open_requests(closed)
  BY <1>7 DEF open_requests
<1>11. DecidedClosed(n) /\ Remembers(n)
  BY <1>6, <1>7, <1>10 DEF CaseInv, DecidedClosed, Remembers, Reviewable
<1> QED
  BY <1>7, <1>8, <1>9, <1>11 DEF CaseInv

\* A slot filled by a usable copy, and by no other.
LEMMA FilledFields ==
  ASSUME NEW q \in RequestRec, NEW t \in DocTypes, NEW usable \in BOOLEAN,
         q.status \in OpenStatuses, NEW rec, rec = filled(q, t, usable)
  PROVE  /\ rec \in RequestRec
         /\ rec.received \subseteq q.received \cup {x \in {t} : usable}
         /\ rec.status = "RECEIVED" => rec.wanted \subseteq rec.received
<1> DEFINE got == IF usable THEN q.received \cup {t} ELSE q.received
           status == IF q.wanted \subseteq got THEN "RECEIVED" ELSE q.status
<1>1. q.received \in SUBSET DocTypes /\ q.wanted \in SUBSET DocTypes /\ q.seq \in Nat
  BY DEF RequestRec
<1>2. got \in SUBSET DocTypes /\ got \subseteq q.received \cup {x \in {t} : usable}
  BY <1>1
<1>3. status \in OpenStatuses \cup {"RECEIVED"}
      /\ (status = "RECEIVED" => q.wanted \subseteq got)
  BY DEF OpenStatuses
<1>4. rec = [q EXCEPT !.received = got, !.status = status]
  BY DEF filled
<1> HIDE DEF got, status
<1>5. rec = [status |-> status, seq |-> q.seq, wanted |-> q.wanted, received |-> got]
  <2>1. q = [status |-> q.status, seq |-> q.seq, wanted |-> q.wanted, received |-> q.received]
    BY DEF RequestRec
  <2> QED
    BY <1>4, <2>1
<1> QED
  BY <1>1, <1>2, <1>3, <1>5 DEF RequestRec, OpenStatuses

\* Evidence that arrives makes the valid approvals obsolete, all of them.
LEMMA SupersededFields ==
  ASSUME NEW d, CaseInv(d), NEW apps, apps = superseded(d.approvals, d.version + 1)
  PROVE  /\ apps \in [Approvals -> ApprovalRec]
         /\ \A a \in Approvals : apps[a].status \in {"NONE", "SUPERSEDED"}
<1>1. d.approvals \in [Approvals -> ApprovalRec] /\ d.version \in Nat
  BY DEF CaseInv, CaseDoc
<1>2. ASSUME NEW a \in Approvals
      PROVE  apps[a] \in ApprovalRec /\ apps[a].status \in {"NONE", "SUPERSEDED"}
  <2>1. d.approvals[a] \in ApprovalRec
        /\ d.approvals[a].status \in {"NONE", "VALID", "SUPERSEDED"}
        /\ (d.approvals[a].status = "VALID" => d.approvals[a].version < d.version + 1)
    BY <1>1 DEF CaseInv, ApprovalsCurrent
  <2>2. apps[a] = IF d.approvals[a].status = "VALID"
                  THEN [d.approvals[a] EXCEPT !.status = "SUPERSEDED"] ELSE d.approvals[a]
    BY <2>1 DEF superseded
  <2> QED
    BY <2>1, <2>2 DEF ApprovalRec
<1> QED
  BY <1>2 DEF superseded

\* An upload.
LEMMA ReceivedInv ==
  ASSUME NEW d, CaseInv(d), NEW r \in open_requests(d), NEW t \in DocTypes,
         NEW usable \in BOOLEAN, NEW n, n = received(d, r, t, usable)
  PROVE  /\ CaseInv(n)
         /\ n.documents = d.documents \cup {[request |-> r, type |-> t, version |-> d.version + 1,
                                             usable |-> usable]}
<1> DEFINE v == d.version + 1
           paper == [request |-> r, type |-> t, version |-> v, usable |-> usable]
           rec == filled(d.requests[r], t, usable)
           apps == superseded(d.approvals, v)
           papers == d.documents \cup {paper}
<1>1. d \in CaseDoc /\ r \in Requests /\ d.requests[r] \in RequestRec
      /\ d.requests[r].status \in OpenStatuses /\ d.version \in Nat
  BY DEF CaseInv, CaseDoc, open_requests
<1>2. /\ rec \in RequestRec
      /\ rec.received \subseteq d.requests[r].received \cup {x \in {t} : usable}
      /\ rec.status = "RECEIVED" => rec.wanted \subseteq rec.received
  BY <1>1, FilledFields
<1>3. /\ apps \in [Approvals -> ApprovalRec]
      /\ \A a \in Approvals : apps[a].status \in {"NONE", "SUPERSEDED"}
  BY SupersededFields
<1>4. papers \in SUBSET DocumentRec /\ v \in Nat /\ v > d.version
  BY <1>1 DEF CaseDoc, DocumentRec
<1>5. n = [d EXCEPT !.version = v, !.documents = papers, !.requests[r] = rec, !.approvals = apps]
  BY DEF received
<1> HIDE DEF rec, apps, v
<1>6. /\ n.version = v /\ n.documents = papers /\ n.requests = [d.requests EXCEPT ![r] = rec]
      /\ n.approvals = apps /\ n.evaluation = d.evaluation
      /\ n.state = d.state /\ n.resume = d.resume
  BY <1>1, <1>5 DEF CaseDoc
<1> HIDE DEF papers
<1>7. n \in CaseDoc
  <2>1. [d.requests EXCEPT ![r] = rec] \in [Requests -> RequestRec]
    BY <1>1, <1>2 DEF CaseDoc
  <2> QED
    BY <1>1, <1>3, <1>4, <1>5, <2>1 DEF CaseDoc
<1>8. ~evaluated(n) /\ EvaluationTrue(n)
  <2>1. d.evaluation # NoEval => d.evaluation.version \in Nat /\ d.evaluation.version <= d.version
    BY <1>1 DEF CaseInv, CaseDoc, EvaluationRec, EvaluationTrue
  <2> QED
    BY <1>1, <1>4, <1>6, <2>1 DEF evaluated, EvaluationTrue
<1>9. ApprovalsCurrent(n) /\ ReleasesBacked(n)
  BY <1>3, <1>6 DEF ApprovalsCurrent, ReleasesBacked
<1>10. SlotsFilled(n)
  <2>1. \A q \in Requests, x \in DocTypes : Papered(d, q, x) => Papered(n, q, x)
    BY <1>6 DEF Papered, papers
  <2>2. usable => Papered(n, r, t)
    <3>1. paper \in n.documents
      BY <1>6 DEF papers
    <3>2. paper.request = r /\ paper.type = t /\ paper.usable = usable
      OBVIOUS
    <3> HIDE DEF paper
    <3> QED
      BY <3>1, <3>2 DEF Papered
  <2>3. ASSUME NEW q \in Requests
        PROVE  /\ \A x \in n.requests[q].received : Papered(n, q, x)
               /\ n.requests[q].status = "RECEIVED" =>
                    n.requests[q].wanted \subseteq n.requests[q].received
    <3>1. d.requests[q].received \subseteq DocTypes
          /\ (\A x \in d.requests[q].received : Papered(d, q, x))
          /\ (d.requests[q].status = "RECEIVED" =>
                d.requests[q].wanted \subseteq d.requests[q].received)
      BY <1>1 DEF CaseInv, CaseDoc, RequestRec, SlotsFilled
    <3>2. CASE q = r
      <4>1. n.requests[q] = rec
        BY <1>1, <1>6, <3>2 DEF CaseDoc
      <4> QED
        BY <1>2, <2>1, <2>2, <3>1, <3>2, <4>1
    <3>3. CASE q # r
      <4>1. n.requests[q] = d.requests[q]
        BY <1>1, <1>6, <3>3 DEF CaseDoc
      <4> QED
        BY <2>1, <3>1, <4>1
    <3> QED
      BY <3>2, <3>3
  <2> QED
    BY <2>3 DEF SlotsFilled
<1>11. DecidedClosed(n) /\ Remembers(n)
  BY <1>1, <1>6 DEF CaseInv, DecidedClosed, Remembers
<1> QED
  BY <1>6, <1>7, <1>8, <1>9, <1>10, <1>11 DEF CaseInv, papers, v

\* A re-evaluation of the evidence on file.
LEMMA ReevaluatedInv ==
  ASSUME NEW d, CaseInv(d), NEW status \in {"missing", "provided", "contradicted"},
         NEW high \in BOOLEAN, d.state \in Reevaluable, may_report(d, status),
         NEW n, n = reevaluated(d, status, high)
  PROVE  CaseInv(n)
<1> DEFINE ev == [version |-> d.version, status |-> status]
<1>1. d \in CaseDoc /\ d.version \in Nat
  BY DEF CaseInv, CaseDoc
<1>2. ev \in EvaluationRec /\ ev # NoEval
  BY <1>1, NoEvalIsNone DEF EvaluationRec
<1>3. PICK state \in {"ESCALATED", "HELD_FOR_REVIEW"} :
        n = [d EXCEPT !.evaluation = ev, !.state = state]
  BY DEF reevaluated
<1>4. state \in CaseStates
  BY DEF CaseStates, Reviewable
<1>5. /\ n.evaluation = ev /\ n.state = state /\ n.version = d.version
      /\ n.documents = d.documents /\ n.requests = d.requests /\ n.approvals = d.approvals
      /\ n \in CaseDoc
  BY <1>1, <1>2, <1>3, <1>4 DEF CaseDoc
<1>6. evaluated(n) /\ in_hand(n) = in_hand(d)
  BY <1>1, <1>2, <1>5 DEF evaluated, in_hand
<1>7. EvaluationTrue(n)
  BY <1>1, <1>5, <1>6 DEF EvaluationTrue, may_report
<1>8. ApprovalsCurrent(n) /\ ReleasesBacked(n)
  BY <1>5, <1>6 DEF CaseInv, ApprovalsCurrent, ReleasesBacked
<1>9. SlotsFilled(n)
  BY <1>5 DEF CaseInv, SlotsFilled, Papered
<1>10. DecidedClosed(n) /\ Remembers(n)
  BY <1>5 DEF DecidedClosed, Remembers, InExecution, Executed
<1> QED
  BY <1>5, <1>7, <1>8, <1>9, <1>10 DEF CaseInv

\* An approval, or an exception that waives what is missing.
LEMMA ApprovedInv ==
  ASSUME NEW d, CaseInv(d), NEW a \in Approvals, NEW action \in Actions, NEW waiver \in BOOLEAN,
         may_approve(d, action),
         action = "release" /\ ~waiver => d.evaluation.status = "provided",
         NEW n, n = approved(d, a, action, waiver)
  PROVE  CaseInv(n)
<1> DEFINE rec == [status |-> "VALID", action |-> action, version |-> d.version, waiver |-> waiver]
<1>1. d \in CaseDoc /\ d.version \in Nat
  BY DEF CaseInv, CaseDoc
<1>2. rec \in ApprovalRec
  BY <1>1 DEF ApprovalRec
<1>3. n = [d EXCEPT !.approvals[a] = rec, !.state = "APPROVED"] /\ "APPROVED" \in CaseStates
  BY DEF approved, CaseStates
<1>4. /\ n.approvals = [d.approvals EXCEPT ![a] = rec] /\ n.state = "APPROVED"
      /\ n.version = d.version /\ n.documents = d.documents /\ n.requests = d.requests
      /\ n.evaluation = d.evaluation /\ n \in CaseDoc
  <2>1. [d.approvals EXCEPT ![a] = rec] \in [Approvals -> ApprovalRec]
    BY <1>1, <1>2 DEF CaseDoc
  <2> HIDE DEF rec
  <2>2. /\ n.approvals = [d.approvals EXCEPT ![a] = rec] /\ n.state = "APPROVED"
        /\ n.version = d.version /\ n.documents = d.documents /\ n.requests = d.requests
        /\ n.evaluation = d.evaluation
    BY <1>1, <1>3 DEF CaseDoc
  <2>3. n \in CaseDoc
    BY <1>1, <1>3, <2>1 DEF CaseDoc
  <2> QED
    BY <2>2, <2>3
<1>5. \A b \in Approvals : n.approvals[b] = IF b = a THEN rec ELSE d.approvals[b]
  BY <1>1, <1>4 DEF CaseDoc
<1>6. in_hand(n) = in_hand(d) /\ (evaluated(n) <=> evaluated(d)) /\ EvaluationTrue(n)
  BY <1>4 DEF in_hand, evaluated, EvaluationTrue, CaseInv
<1>7. ApprovalsCurrent(n)
  BY <1>4, <1>5 DEF CaseInv, ApprovalsCurrent
<1>8. ReleasesBacked(n)
  <2>1. action = "release" => evaluated(d) /\ (waiver \/ in_hand(d) = DocTypes)
    BY DEF may_approve, CaseInv, EvaluationTrue
  <2> QED
    BY <1>5, <1>6, <2>1 DEF CaseInv, ReleasesBacked
<1>9. SlotsFilled(n)
  BY <1>4 DEF CaseInv, SlotsFilled, Papered
<1>10. DecidedClosed(n) /\ Remembers(n)
  BY <1>4 DEF may_approve, open_requests, DecidedClosed, Remembers
<1> QED
  BY <1>4, <1>6, <1>7, <1>8, <1>9, <1>10 DEF CaseInv

-----------------------------------------------------------------------------
(* The steps of a handler.                                                    *)

\* A write of a case that keeps its papers and says nothing to a shipper.
LEMMA WriteKeeps ==
  ASSUME DeskInv, NEW c \in Calls, NEW n, Put(c, n), CaseInv(n),
         doc.documents \subseteq n.documents, UNCHANGED acked
  PROVE  DeskInv'
<1>1. n \in CaseDoc /\ DocInv
  BY DEF CaseInv, DeskInv
<1>2. DocInv' /\ doc' = n
  BY <1>1, PutKeepsDocInv, WriterHoldsDoc
<1>3. NoUploadLost'
  BY <1>2 DEF DeskInv, NoUploadLost
<1> QED
  BY <1>2, <1>3 DEF DeskInv

\* Whoever writes back has the case in hand, with all that holds of it.
LEMMA WriterKnows ==
  ASSUME DeskInv, NEW c \in Calls, NEW n, Put(c, n)
  PROVE  snap[c] = doc /\ CaseInv(snap[c])
BY WriterHoldsDoc DEF DeskInv

\* The operations on requests leave the papers alone.
LEMMA PapersStay ==
  ASSUME NEW d \in CaseDoc
  PROVE  /\ \A r, wanted : requested(d, r, wanted).documents = d.documents
         /\ \A r, rec : [d EXCEPT !.requests[r] = rec].documents = d.documents
         /\ \A r : cancelled(d, r).documents = d.documents
         /\ \A status, high : reevaluated(d, status, high).documents = d.documents
         /\ \A a, action, waiver : approved(d, a, action, waiver).documents = d.documents
BY DEF CaseDoc, requested, cancelled, reevaluated, approved

LEMMA RequestStepKeeps ==
  ASSUME DeskInv, NEW c \in Calls, RequestStep(c)
  PROVE  DeskInv'
<1> DEFINE d == snap[c]
<1>1. PICK r \in Requests : \/ \E wanted \in SUBSET DocTypes : RequestEvidence(c, r, wanted)
                           \/ ReissueLink(c, r)
                           \/ CancelRequest(c, r)
  BY DEF RequestStep
<1>2. CASE \E wanted \in SUBSET DocTypes : RequestEvidence(c, r, wanted)
  <2>1. PICK wanted \in SUBSET DocTypes : RequestEvidence(c, r, wanted)
    BY <1>2
  <2>2. Put(c, requested(d, r, wanted)) /\ d.state \in Requestable /\ UNCHANGED acked
    BY <2>1 DEF RequestEvidence
  <2>3. d = doc /\ CaseInv(d) /\ d \in CaseDoc
    BY <2>2, WriterKnows DEF CaseInv
  <2> HIDE DEF d
  <2>4. CaseInv(requested(d, r, wanted)) /\ requested(d, r, wanted).documents = d.documents
    BY <2>2, <2>3, RequestedInv, PapersStay
  <2> QED
    BY <2>2, <2>3, <2>4, WriteKeeps
<1>3. CASE ReissueLink(c, r)
  <2> DEFINE rec == relinked(d.requests[r])
             n == [d EXCEPT !.requests[r] = rec]
  <2>1. Put(c, n) /\ r \in open_requests(d) /\ UNCHANGED acked
    BY <1>3 DEF ReissueLink
  <2>2. d = doc /\ CaseInv(d) /\ d \in CaseDoc
    BY <2>1, WriterKnows DEF CaseInv
  <2> HIDE DEF d
  <2>3. CaseInv(n) /\ n.documents = d.documents
    BY <2>1, <2>2, ReissuedInv, PapersStay
  <2> HIDE DEF n
  <2> QED
    BY <2>1, <2>2, <2>3, WriteKeeps
<1>4. CASE CancelRequest(c, r)
  <2>1. Put(c, cancelled(d, r)) /\ r \in open_requests(d) /\ UNCHANGED acked
    BY <1>4 DEF CancelRequest
  <2>2. d = doc /\ CaseInv(d) /\ d \in CaseDoc
    BY <2>1, WriterKnows DEF CaseInv
  <2> HIDE DEF d
  <2>3. CaseInv(cancelled(d, r)) /\ cancelled(d, r).documents = d.documents
    BY <2>1, <2>2, CancelledInv, PapersStay
  <2> QED
    BY <2>1, <2>2, <2>3, WriteKeeps
<1> QED
  BY <1>1, <1>2, <1>3, <1>4

LEMMA ReviewStepKeeps ==
  ASSUME DeskInv, NEW c \in Calls, ReviewStep(c)
  PROVE  DeskInv'
<1> DEFINE d == snap[c]
<1>1. CASE \E status \in {"missing", "provided", "contradicted"}, high \in BOOLEAN :
             Reevaluate(c, status, high)
  <2>1. PICK status \in {"missing", "provided", "contradicted"}, high \in BOOLEAN :
          Reevaluate(c, status, high)
    BY <1>1
  <2>2. Put(c, reevaluated(d, status, high)) /\ d.state \in Reevaluable
        /\ may_report(d, status) /\ UNCHANGED acked
    BY <2>1 DEF Reevaluate
  <2>3. d = doc /\ CaseInv(d) /\ d \in CaseDoc
    BY <2>2, WriterKnows DEF CaseInv
  <2> HIDE DEF d
  <2>4. CaseInv(reevaluated(d, status, high))
        /\ reevaluated(d, status, high).documents = d.documents
    BY <2>2, <2>3, ReevaluatedInv, PapersStay
  <2> QED
    BY <2>2, <2>3, <2>4, WriteKeeps
<1>2. CASE \E a \in Approvals :
             (\E action \in Actions : Approve(c, a, action)) \/ ApproveException(c, a)
  <2>1. PICK a \in Approvals, action \in Actions, waiver \in BOOLEAN :
          /\ Put(c, approved(d, a, action, waiver)) /\ may_approve(d, action)
          /\ action = "release" /\ ~waiver => d.evaluation.status = "provided"
          /\ UNCHANGED acked
    BY <1>2 DEF Approve, ApproveException, Actions
  <2>2. d = doc /\ CaseInv(d) /\ d \in CaseDoc
    BY <2>1, WriterKnows DEF CaseInv
  <2> HIDE DEF d
  <2>3. CaseInv(approved(d, a, action, waiver))
        /\ approved(d, a, action, waiver).documents = d.documents
    BY <2>1, <2>2, ApprovedInv, PapersStay
  <2> QED
    BY <2>1, <2>2, <2>3, WriteKeeps
<1> QED
  BY <1>1, <1>2 DEF ReviewStep

\* An upload is on file when the shipper is told so, through a link in force.
LEMMA UploadKeeps ==
  ASSUME DeskInv, NEW c \in Calls, Upload(c)
  PROVE  /\ DeskInv'
         /\ \A k \in acked' \ acked : /\ k.request \in open_requests(doc)
                                      /\ k.seq = doc.requests[k.request].seq
<1> DEFINE d == snap[c]
<1>1. PICK r \in Requests, s \in 1 .. MaxSeq, t \in DocTypes, usable \in BOOLEAN :
        ReceiveEvidence(c, r, s, t, usable)
  BY DEF Upload
<1> DEFINE n == received(d, r, t, usable)
           k == [request |-> r, seq |-> s, type |-> t, version |-> d.version + 1, usable |-> usable]
<1>2. Put(c, n) /\ link_is_good(d, r, s, t) /\ acked' = acked \cup {k}
  BY <1>1 DEF ReceiveEvidence
<1>3. d = doc /\ CaseInv(d) /\ d.version \in Nat
  BY <1>2, WriterKnows DEF CaseInv, CaseDoc
<1>4. r \in open_requests(d) /\ s = d.requests[r].seq /\ s \in Nat
  BY <1>2, LoopBoundsAreNumbers DEF link_is_good
<1>5. CaseInv(n) /\ n.documents = d.documents \cup {[request |-> r, type |-> t,
                                   version |-> d.version + 1, usable |-> usable]}
  BY <1>3, <1>4, ReceivedInv
<1>6. k \in Receipts /\ k.request = r /\ k.seq = s /\ k.type = t /\ k.usable = usable
      /\ k.version = d.version + 1
  BY <1>3, <1>4 DEF Receipts
<1> HIDE DEF n, k, d
<1>7. DocInv' /\ doc' = n
  BY <1>2, <1>5, PutKeepsDocInv, WriterHoldsDoc DEF DeskInv, CaseInv
<1>8. NoUploadLost'
  BY <1>2, <1>3, <1>5, <1>6, <1>7 DEF DeskInv, NoUploadLost
<1>9. acked' \subseteq Receipts
  BY <1>2, <1>6 DEF DeskInv
<1> QED
  BY <1>2, <1>3, <1>4, <1>5, <1>6, <1>7, <1>8, <1>9 DEF DeskInv

\* Reading and leaving touch nobody's case.
LEMMA ReadingKeeps ==
  ASSUME DeskInv, NEW c \in Calls, Read(c) \/ Leave(c)
  PROVE  DeskInv'
<1>1. DocInv' /\ UNCHANGED <<doc, acked>>
  BY GetKeepsDocInv, DropKeepsDocInv DEF Read, Leave, Get, Drop, DeskInv
<1> QED
  BY <1>1 DEF DeskInv, NoUploadLost

-----------------------------------------------------------------------------
\* The inductive step: whoever writes back, in whatever order, the papers on
\* file, the evaluation, the approvals, the requests and the way back keep
\* matching, and no receipt loses its paper.
THEOREM DeskStep ==
  /\ LoopInit => DeskInv
  /\ DeskInv /\ [DeskNext]_loopVars => DeskInv'
<1>1. LoopInit => DeskInv
  <2> SUFFICES ASSUME LoopInit PROVE DeskInv
    OBVIOUS
  <2>1. CaseInv(doc) /\ doc \in CaseDoc
    BY NewCaseInv DEF LoopInit, CaseInv
  <2>2. DocInv
    BY <2>1 DEF LoopInit, DocInv, DocTypeOK, FreshCopyIsCurrent
  <2> QED
    BY <2>1, <2>2 DEF LoopInit, DeskInv, NoUploadLost
<1>2. ASSUME DeskInv, [DeskNext]_loopVars PROVE DeskInv'
  <2>1. CASE UNCHANGED loopVars
    BY <1>2, <2>1
    DEF loopVars, docVars, DeskInv, DocInv, DocTypeOK, FreshCopyIsCurrent, NoUploadLost
  <2>2. ASSUME NEW c \in Desk,
               Read(c) \/ Leave(c) \/ RequestStep(c) \/ Upload(c) \/ ReviewStep(c)
        PROVE  DeskInv'
    <3>1. c \in Calls
      BY DeskCalls
    <3> QED
      BY <1>2, <2>2, <3>1, ReadingKeeps, RequestStepKeeps, UploadKeeps, ReviewStepKeeps
  <2> QED
    BY <1>2, <2>1, <2>2 DEF DeskNext
<1> QED
  BY <1>1, <1>2

\* What the invariant says in the words of the loop's properties.
LEMMA DeskInvSays ==
  ASSUME DeskInv
  PROVE  /\ NoUploadLost /\ StandingApprovalIsCurrent /\ ReleaseIsBacked
         /\ ReceivedIsComplete /\ DecidedMeansClosed /\ ComesBackToAPerson
<1>1. CaseInv(doc)
  BY DEF DeskInv
<1>2. StandingApprovalIsCurrent /\ ReleaseIsBacked
  BY <1>1 DEF CaseInv, ApprovalsCurrent, ReleasesBacked, StandingApprovalIsCurrent, ReleaseIsBacked
<1>3. ReceivedIsComplete
  BY <1>1 DEF CaseInv, SlotsFilled, Papered, ReceivedIsComplete
<1>4. DecidedMeansClosed /\ ComesBackToAPerson
  BY <1>1 DEF CaseInv, DecidedClosed, Remembers, DecidedMeansClosed, ComesBackToAPerson
<1> QED
  BY <1>2, <1>3, <1>4 DEF DeskInv

\* No receipt ever loses its paper, however long an upload takes and whoever
\* else writes the case (receive_evidence).
THEOREM UploadsAreKept == LoopSpec => []NoUploadLost
BY DeskStep, DeskInvSays, PTL DEF LoopSpec

\* A standing approval was given on the evidence that is on file, in every order
\* of uploads, evaluations and approvals (_supersede_stale_approvals, approve).
THEOREM ApprovalsStandOnEvidence ==
  LoopSpec => [](StandingApprovalIsCurrent /\ ReleaseIsBacked)
BY DeskStep, DeskInvSays, PTL DEF LoopSpec

\* A case that waits for papers comes back to a state a person acts on, and a
\* request that closed was answered in full (cancel_request, receive_evidence).
THEOREM RequestsComeToAnEnd ==
  LoopSpec => [](ComesBackToAPerson /\ ReceivedIsComplete /\ DecidedMeansClosed)
BY DeskStep, DeskInvSays, PTL DEF LoopSpec

\* No upload counts through a link that was retired or whose request has closed,
\* however long it took to read (_issue, receive_evidence).
THEOREM RetiredLinksAddNothing == LoopSpec => RetiredLinkNeverCounts
<1>1. DeskInv /\ [DeskNext]_loopVars =>
        [LinksInForce]_loopVars
  <2> SUFFICES ASSUME DeskInv, DeskNext PROVE LinksInForce
    OBVIOUS
  <2>1. PICK c \in Desk : Read(c) \/ Leave(c) \/ RequestStep(c) \/ Upload(c) \/ ReviewStep(c)
    BY DEF DeskNext
  <2>2. CASE Upload(c)
    BY <2>2, DeskCalls, UploadKeeps DEF LinksInForce
  <2>3. CASE Read(c) \/ Leave(c) \/ RequestStep(c) \/ ReviewStep(c)
    <3>1. UNCHANGED acked
      BY <2>3 DEF Read, Leave, RequestStep, RequestEvidence, ReissueLink, CancelRequest,
                  ReviewStep, Reevaluate, Approve, ApproveException
    <3> QED
      BY <3>1 DEF LinksInForce
  <2> QED
    BY <2>1, <2>2, <2>3
<1>2. LoopSpec => []DeskInv
  BY DeskStep, PTL DEF LoopSpec
<1> QED
  BY <1>1, <1>2, PTL DEF LoopSpec, RetiredLinkNeverCounts

=============================================================================
