---------------------------- MODULE EvidenceLoop ----------------------------
(***************************************************************************)
(* Asking for documents, receiving them, evaluating them and approving a   *)
(* decision on them: the operations of evidence.py before the execution.   *)
(*                                                                         *)
(* Each member of Desk is one request handler.  It reads the case (Read),  *)
(* checks and computes on that copy only, and writes it back under the     *)
(* optimistic lock; any other handler may write in between, most easily    *)
(* during an upload, which screens, archives and reads the file with a     *)
(* model before it writes.  So every operation is a Read and then one      *)
(* action whose guards and values come from the copy, never from `doc`.    *)
(***************************************************************************)
EXTENDS CaseDocument

CONSTANTS
  Desk,        \* the calls made by reviewers and, through a link, by shippers
  MaxVersion,  \* bound: uploads (each one raises evidence_version)
  MaxSeq       \* bound: links issued on one request

ASSUME DeskCalls          == Desk \subseteq Calls
ASSUME LoopBoundsAreNumbers == MaxVersion \in Nat /\ MaxSeq \in Nat
ASSUME NoEvalIsNone       == NoEval \notin EvaluationRec

VARIABLE acked  \* uploads whose sender was told "received": history

loopVars == <<docVars, acked>>

Receipts == [request : Requests, seq : Nat, type : DocTypes, version : Nat, usable : BOOLEAN]

LoopTypeOK == DocTypeOK /\ acked \subseteq Receipts

-----------------------------------------------------------------------------

\* A case the agents handed to a person.
NewDoc(state) ==
  [state        |-> state,
   version      |-> 0,
   resume       |-> NoState,
   requests     |-> [r \in Requests |-> NoRequest],
   documents    |-> {},
   evaluation   |-> NoEval,
   approvals    |-> [a \in Approvals |-> NoApprovalYet],
   executions   |-> <<>>,
   auditPending |-> FALSE]

LoopInit == /\ \E state \in Reviewable : doc = NewDoc(state)
            /\ snap = [c \in Calls |-> NoDoc]
            /\ fresh = {}
            /\ acked = {}

Read(c) == ~Holds(c) /\ Get(c) /\ UNCHANGED acked

\* The call ends without a write: refused by a guard, refused by the store (the
\* copy is stale, 409), or killed.
Leave(c) == Holds(c) /\ Drop(c) /\ UNCHANGED acked

-----------------------------------------------------------------------------
(* Requests                                                                 *)

\* Mutant: documents can be asked for after a send has failed.
RequestableAfterFailure ==
  {"PENDING_HUMAN", "HELD_FOR_REVIEW", "ESCALATED", "AWAITING_EVIDENCE", "APPROVED", "EXECUTION_FAILED"}

Requestable == Reviewable \cup {"AWAITING_EVIDENCE", "APPROVED"}

\* Mutant: every request remembers the state it found.
requested_anew(d, r, wanted) ==
  [d EXCEPT !.requests[r] = [status |-> "SENT", seq |-> 1, wanted |-> wanted, received |-> {}],
            !.resume      = d.state,
            !.state       = "AWAITING_EVIDENCE"]

\* A second request may be added to an open one; only the first remembers the
\* state to go back to.  It is refused, and the call leaves, where an open request
\* asks for the same documents over the same findings; the findings a request
\* names are not modelled, so the same documents may be asked for over others.
requested(d, r, wanted) ==
  [d EXCEPT !.requests[r] = [status |-> "SENT", seq |-> 1, wanted |-> wanted, received |-> {}],
            !.resume      = IF d.state = "AWAITING_EVIDENCE" THEN @ ELSE d.state,
            !.state       = "AWAITING_EVIDENCE"]

RequestEvidence(c, r, wanted) == LET d == snap[c] IN
  /\ Holds(c)
  /\ d.state \in Requestable
  /\ d.requests[r].status = "NONE"
  /\ wanted # {}
  /\ Put(c, requested(d, r, wanted))
  /\ UNCHANGED acked

\* A new link retires the ones issued before it.
relinked(request) == [request EXCEPT !.status = "SENT", !.seq = @ + 1]

ReissueLink(c, r) == LET d == snap[c] IN
  /\ Holds(c)
  /\ r \in open_requests(d)
  /\ d.requests[r].seq < MaxSeq
  /\ Put(c, [d EXCEPT !.requests[r] = relinked(@)])
  /\ UNCHANGED acked

\* Mutant: the requests that are still open do not hold the case back.
cancelled_alone(d, r) ==
  [d EXCEPT !.requests[r].status = "CANCELLED",
            !.state  = IF d.state = "AWAITING_EVIDENCE" THEN d.resume ELSE @,
            !.resume = NoState]

\* When the last open request closes the case goes back to where it was.
cancelled(d, r) ==
  LET closed   == [d EXCEPT !.requests[r].status = "CANCELLED"]
      goesBack == d.state = "AWAITING_EVIDENCE" /\ open_requests(closed) = {}
  IN IF goesBack
     THEN [closed EXCEPT !.state  = IF d.resume = NoState THEN "HELD_FOR_REVIEW" ELSE d.resume,
                         !.resume = NoState]
     ELSE closed

CancelRequest(c, r) == /\ Holds(c)
                       /\ r \in open_requests(snap[c])
                       /\ Put(c, cancelled(snap[c], r))
                       /\ UNCHANGED acked

-----------------------------------------------------------------------------
(* Receiving a document through a link                                      *)

\* Mutant: the number of the link is not compared.
any_link_is_good(d, r, s, t) == /\ r \in open_requests(d)
                                /\ t \in d.requests[r].wanted \ d.requests[r].received

\* Link number s of request r is honoured for a document of type t.
link_is_good(d, r, s, t) == /\ r \in open_requests(d)
                            /\ s = d.requests[r].seq
                            /\ t \in d.requests[r].wanted \ d.requests[r].received

\* Mutants: any copy fills the slot; a full request is promoted to RECONCILED.
filled_by_any(request, t, usable) ==
  [request EXCEPT !.received = @ \cup {t},
                  !.status   = IF request.wanted \subseteq request.received \cup {t}
                               THEN "RECEIVED" ELSE @]

filled_reconciled(request, t, usable) ==
  [request EXCEPT !.received = IF usable THEN @ \cup {t} ELSE @,
                  !.status   = IF usable /\ request.wanted \subseteq request.received \cup {t}
                               THEN "RECONCILED" ELSE @]

\* Only a usable copy fills its slot; the request closes when every slot is full.
filled(request, t, usable) ==
  LET got == IF usable THEN request.received \cup {t} ELSE request.received IN
  [request EXCEPT !.received = got,
                  !.status   = IF request.wanted \subseteq got THEN "RECEIVED" ELSE @]

\* Mutant: new evidence leaves the approvals alone.
superseded_none(approvals, version) == approvals

superseded(approvals, version) ==
  [a \in Approvals |->
     IF approvals[a].status = "VALID" /\ approvals[a].version < version
     THEN [approvals[a] EXCEPT !.status = "SUPERSEDED"] ELSE approvals[a]]

\* Every upload, the blocked and the unreadable ones included, is new evidence.
received(d, r, t, usable) == LET v == d.version + 1 IN
  [d EXCEPT !.version     = v,
            !.documents   = @ \cup {[request |-> r, type |-> t, version |-> v, usable |-> usable]},
            !.requests[r] = filled(@, t, usable),
            !.approvals   = superseded(@, v)]

ReceiveEvidence(c, r, s, t, usable) == LET d == snap[c] IN
  /\ Holds(c)
  /\ link_is_good(d, r, s, t)
  /\ d.version < MaxVersion
  /\ Put(c, received(d, r, t, usable))
  /\ acked' = acked \cup {[request |-> r, seq |-> s, type |-> t,
                           version |-> d.version + 1, usable |-> usable]}

-----------------------------------------------------------------------------
(* Re-evaluation                                                            *)

Reevaluable == Reviewable \cup {"AWAITING_EVIDENCE"}

in_hand(d) == {t \in DocTypes : \E p \in d.documents : p.type = t /\ p.usable}

evaluated(d) == d.evaluation # NoEval /\ d.evaluation.version = d.version

\* What check_origin_evidence may report on these documents.  It is a function of
\* them, so the same evidence gets the same answer; which answer a new set gets
\* depends on what the papers say.
may_report(d, status) ==
  /\ status = "provided" => in_hand(d) = DocTypes
  /\ status = "contradicted" => in_hand(d) # {}
  /\ evaluated(d) => status = d.evaluation.status

\* `high` says that the floor computed now, from today's rules and the evidence,
\* is 70 or more.  A contradiction always makes it so; the rules may.
reevaluated(d, status, high) ==
  LET before == IF d.state = "AWAITING_EVIDENCE" THEN d.resume ELSE d.state IN
  [d EXCEPT !.evaluation = [version |-> d.version, status |-> status],
            !.state      = IF high \/ before = "ESCALATED" THEN "ESCALATED" ELSE "HELD_FOR_REVIEW"]

Reevaluate(c, status, high) == LET d == snap[c] IN
  /\ Holds(c)
  /\ d.state \in Reevaluable
  /\ \E r \in Requests : d.requests[r].status # "NONE"
  /\ may_report(d, status)
  /\ status = "contradicted" => high
  /\ Put(c, reevaluated(d, status, high))
  /\ UNCHANGED acked

-----------------------------------------------------------------------------
(* Approval                                                                 *)

\* Mutant: an evaluation of earlier evidence will do.
may_approve_stale(d, action) ==
  /\ d.state \in Reviewable
  /\ open_requests(d) = {}
  /\ d.evaluation # NoEval \/ (action = "block" /\ d.version = 0)

\* A release needs an evaluation of the evidence on file; a block needs one only
\* when there is evidence.
may_approve(d, action) ==
  /\ d.state \in Reviewable
  /\ open_requests(d) = {}
  /\ evaluated(d) \/ (action = "block" /\ d.version = 0)

approved(d, a, action, waiver) ==
  [d EXCEPT !.approvals[a] = [status |-> "VALID", action |-> action, version |-> d.version,
                              waiver |-> waiver],
            !.state        = "APPROVED"]

Approve(c, a, action) == LET d == snap[c] IN
  /\ Holds(c)
  /\ d.approvals[a].status = "NONE"
  /\ may_approve(d, action)
  /\ action = "release" => d.evaluation.status = "provided"
  /\ Put(c, approved(d, a, action, FALSE))
  /\ UNCHANGED acked

\* A release over missing or contradicting evidence, which names what it waives.
ApproveException(c, a) == LET d == snap[c] IN
  /\ Holds(c)
  /\ d.approvals[a].status = "NONE"
  /\ may_approve(d, "release")
  /\ d.evaluation.status # "provided"
  /\ Put(c, approved(d, a, "release", TRUE))
  /\ UNCHANGED acked

-----------------------------------------------------------------------------

RequestStep(c) == \E r \in Requests :
  \/ \E wanted \in SUBSET DocTypes : RequestEvidence(c, r, wanted)
  \/ ReissueLink(c, r)
  \/ CancelRequest(c, r)

Upload(c) == \E r \in Requests, s \in 1..MaxSeq, t \in DocTypes, usable \in BOOLEAN :
               ReceiveEvidence(c, r, s, t, usable)

ReviewStep(c) ==
  \/ \E status \in {"missing", "provided", "contradicted"}, high \in BOOLEAN :
       Reevaluate(c, status, high)
  \/ \E a \in Approvals : (\E action \in Actions : Approve(c, a, action)) \/ ApproveException(c, a)

DeskNext == \E c \in Desk : Read(c) \/ Leave(c) \/ RequestStep(c) \/ Upload(c) \/ ReviewStep(c)

LoopSpec == LoopInit /\ [][DeskNext]_loopVars

-----------------------------------------------------------------------------
(* Safety                                                                   *)

\* What the shipper was told is received is on file: no write by another handler,
\* however long the upload took to read, makes a receipt disappear
\* (receive_evidence against every other writer).
NoUploadLost ==
  \A k \in acked :
    [request |-> k.request, type |-> k.type, version |-> k.version, usable |-> k.usable]
      \in doc.documents

\* The uploads a step acknowledges came through a link in force.
LinksInForce ==
  \A k \in acked' \ acked :
    /\ k.request \in open_requests(doc)
    /\ k.seq = doc.requests[k.request].seq

\* A retired link, or a link of a request that has closed, adds nothing, also when
\* it was retired while the upload was being read (_issue, receive_evidence).
RetiredLinkNeverCounts == [][LinksInForce]_loopVars

\* A closed request was answered in full, by papers that can count (N04).
ReceivedIsComplete ==
  \A r \in Requests :
    doc.requests[r].status = "RECEIVED" =>
      \A t \in doc.requests[r].wanted :
        \E p \in doc.documents : p.request = r /\ p.type = t /\ p.usable

\* A standing approval was given on the evidence that is on file now.
StandingApprovalIsCurrent ==
  \A a \in Approvals :
    doc.approvals[a].status \in {"VALID", "CLAIMING"} => doc.approvals[a].version = doc.version

\* A standing release rests on an evaluation of exactly the evidence on file, and
\* either all the papers are in hand or the approval waives what is not.
ReleaseIsBacked ==
  \A a \in Approvals :
    doc.approvals[a].status \in {"VALID", "CLAIMING"} /\ doc.approvals[a].action = "release" =>
      /\ evaluated(doc)
      /\ doc.approvals[a].waiver \/ in_hand(doc) = DocTypes

\* While a document is still asked for, nobody has decided: an approved case (and
\* one being executed) has no open request.
DecidedMeansClosed ==
  doc.state \in InExecution \cup {"APPROVED"} => open_requests(doc) = {}

\* A case that waits for evidence remembers where it came from, so the last
\* cancellation takes it back to a state a person acts on.
ComesBackToAPerson ==
  doc.state = "AWAITING_EVIDENCE" => doc.resume \in Reviewable \cup {"APPROVED"}

=============================================================================
