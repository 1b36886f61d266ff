---------------------------- MODULE CasePipeline ----------------------------
(***************************************************************************)
(* The pipeline that takes one case from its intake to a decision:         *)
(* orchestrator.py over FirestoreStore.                                    *)
(*                                                                         *)
(* Four kinds of handlers meet on the stored case.  A delivery of the      *)
(* shipment event and an upload of its document open the case and then     *)
(* chain it forward without a claim; a drain claims it first; a reviewer   *)
(* decides it.  A handler works on its own copy and may be overtaken       *)
(* between any two of its awaits, so every store call, tool call and gate  *)
(* is an action of its own.  What the agents score and what the boundary   *)
(* allows are inputs: every answer is possible.                            *)
(***************************************************************************)
EXTENDS Naturals, Sequences

CONSTANTS
  Drains,       \* drain() and tick(): handlers that claim
  Ticks,        \* the drains that are ticks: one step for each claim
  Deliveries,   \* push deliveries of the shipment event
  Uploads,      \* uploads of the shipment's document
  Reviewers,    \* human_decide() and deep_review()
  MAX_ATTEMPTS,
  MaxFaults,    \* bound: exceptions and killed handlers
  MaxReviews,   \* bound: calls of reviewers
  QUERY_LIMIT,  \* documents the query of a claim reads: 60
  MaxAhead,     \* bound: documents that come to stand before the case
  NoCase        \* no case is stored, no copy is held

Intakes  == Deliveries \cup Uploads
Workers  == Drains \cup Intakes
Handlers == Workers \cup Reviewers

ASSUME TicksAreDrains == Ticks \subseteq Drains
ASSUME PipelineBounds == MAX_ATTEMPTS \in Nat \ {0} /\ MaxFaults \in Nat /\ MaxReviews \in Nat
                           /\ QUERY_LIMIT \in Nat /\ MaxAhead \in Nat

VARIABLES
  stored,   \* the case document
  audit,    \* audit rows, as a set: which tools ran for which outcome
  pc,       \* [Handlers -> where the handler is]
  copy,     \* [Handlers -> its in-memory case]
  pack,     \* [Handlers -> the decision it carries out]
  faults,   \* exceptions and killed handlers so far
  reviews,  \* calls of reviewers so far
  flags,    \* what uploads found in the document: history
  ahead     \* documents of other cases whose names sort before this one's

vars == <<stored, audit, pc, copy, pack, faults, reviews, flags, ahead>>

-----------------------------------------------------------------------------

ACTIONABLE     == {"INGESTED", "SPECIALISTS_DONE", "INVESTIGATED"}
AWAITING_HUMAN == {"PENDING_HUMAN", "HELD_FOR_REVIEW", "ESCALATED"}
DecidedByHuman == {"RELEASED_BY_HUMAN", "BLOCKED_BY_HUMAN"}
CaseStates     == ACTIONABLE \cup AWAITING_HUMAN \cup DecidedByHuman
                    \cup {"AUTO_CLEARED", "DEAD_LETTER"}

Tools == {"release_shipment", "hold_shipment", "assign_analyst", "draft_sar",
          "notify_webhook", "publish_decision"}

\* `claimed` is a claim whose lease still runs, `backoff` a not_before still to come,
\* `trigger` an input_security that governance reads as a non-waivable trigger.
CaseRec == [version        : Nat,
            state          : CaseStates,
            claimed        : BOOLEAN,
            attempts       : Nat,
            backoff        : BOOLEAN,
            trigger        : BOOLEAN,
            requires_human : BOOLEAN]

ASSUME NoCaseIsNoRecord == NoCase \notin CaseRec

\* The rows kept are the lineage records and those of the tools that move a shipment
\* or reach a subscriber; assigning, drafting and notifying only add a row.
Witnessed == {"release_shipment", "hold_shipment", "publish_decision"}
Rows == [action : Witnessed \cup {"decision_record"}, outcome : CaseStates]

PackRec == [outcome : CaseStates, left : Seq(Tools)]
NoPack  == [outcome |-> "INGESTED", left |-> <<>>]

Places == {"idle", "opening", "annotating", "blocking", "found", "ready", "acting",
           "recording", "committing", "failing", "again", "logging", "done"}

\* The case, its copies and its rows are of the shapes the handlers read and write.
CaseTyped ==
  /\ stored \in CaseRec \cup {NoCase}
  /\ audit \subseteq Rows
  /\ pc \in [Handlers -> Places]
  /\ copy \in [Handlers -> CaseRec \cup {NoCase}]
  /\ pack \in [Handlers -> PackRec]
  /\ faults \in 0..MaxFaults
  /\ reviews \in 0..MaxReviews
  /\ flags \subseteq {"injection", "blocked"}

\* And the documents before it are counted.
TypeOK == CaseTyped /\ ahead \in 0..MaxAhead

NewCase == [version |-> 1, state |-> "INGESTED", claimed |-> FALSE, attempts |-> 0,
            backoff |-> FALSE, trigger |-> FALSE, requires_human |-> FALSE]

Init ==
  /\ stored  = NoCase
  /\ audit   = {}
  /\ pc      = [h \in Handlers |-> "idle"]
  /\ copy    = [h \in Handlers |-> NoCase]
  /\ pack    = [h \in Handlers |-> NoPack]
  /\ faults  = 0
  /\ reviews = 0
  /\ flags   = {}
  /\ ahead   = 0

-----------------------------------------------------------------------------
(* The store                                                               *)

Exists == stored # NoCase

\* get_case
Get(h, place) == /\ copy' = [copy EXCEPT ![h] = stored]
                 /\ pc'   = [pc EXCEPT ![h] = place]

\* put_case without expected_version: no check, and the count restarts at 1.
PutBlind(h, new, place) ==
  /\ stored' = [new EXCEPT !.version = 1]
  /\ copy'   = [copy EXCEPT ![h] = stored']
  /\ pc'     = [pc EXCEPT ![h] = place]

\* Mutant: the version is not compared.
Current_or_not(h) == TRUE

\* put_case with the version of the copy; a stale one raises OptimisticLockError.
Current(h) == stored.version = copy[h].version
written(h, new) == [new EXCEPT !.version = copy[h].version + 1]

Put(h, new, place) ==
  /\ Current(h)
  /\ stored' = written(h, new)
  /\ copy'   = [copy EXCEPT ![h] = stored']
  /\ pc'     = [pc EXCEPT ![h] = place]

\* The handler is finished; an upload is one call, the others may be made again.
Leave(h) == /\ pc'   = [pc EXCEPT ![h] = IF h \in Uploads THEN "done" ELSE "idle"]
            /\ copy' = [copy EXCEPT ![h] = NoCase]
            /\ pack' = [pack EXCEPT ![h] = NoPack]

-----------------------------------------------------------------------------
(* Intake                                                                  *)

\* ingest_shipment looks for the case its shipment id names.  A redelivered event
\* goes on with the case it finds; an upload writes its findings over it.  No shipment
\* id names the case of a blocked document.
Receive(i) ==
  /\ pc[i] = "idle"
  /\ "blocked" \notin flags
  /\ Get(i, IF ~Exists THEN "opening"
            ELSE IF i \in Uploads THEN "annotating" ELSE "ready")
  /\ UNCHANGED <<stored, audit, pack, faults, reviews, flags, ahead>>

\* The shipment's paper is rendered and archived before the case is written.
Open(i) ==
  /\ pc[i] = "opening"
  /\ PutBlind(i, NewCase, IF i \in Uploads THEN "annotating" ELSE "ready")
  /\ UNCHANGED <<audit, pack, faults, reviews, flags, ahead>>

\* ingest_document writes what the screens found once the case is open.  Only an
\* injection or a forbidden field is a trigger; what Model Armor says is advice.
annotated(c, injection, advice) ==
  [c EXCEPT !.trigger        = injection,
            !.requires_human = @ \/ injection \/ advice]

Annotate(u) == \E injection, advice \in BOOLEAN :
  /\ ~(injection /\ advice)   \* both together write what the injection alone does
  /\ pc[u] = "annotating"
  /\ PutBlind(u, annotated(copy[u], injection, advice), "again")
  /\ flags' = flags \cup (IF injection THEN {"injection"} ELSE {})
  /\ UNCHANGED <<audit, pack, faults, reviews, ahead>>

\* A PDF that is blocked before any model reads it gets a case of its own, under an
\* id no other handler of the shipment knows.
OpenBlocked(u) ==
  /\ pc[u] = "idle" /\ ~Exists
  /\ \A i \in Intakes : pc[i] \notin {"opening", "annotating"}
  /\ PutBlind(u, NewCase, "blocking")
  /\ flags' = flags \cup {"blocked"}
  /\ UNCHANGED <<audit, pack, faults, reviews, ahead>>

Block(u) ==
  /\ pc[u] = "blocking"
  /\ PutBlind(u, [copy[u] EXCEPT !.state = "PENDING_HUMAN", !.requires_human = TRUE], "again")
  /\ UNCHANGED <<audit, pack, faults, reviews, flags, ahead>>

-----------------------------------------------------------------------------
(* Claiming                                                                *)

is_claimable(c) == c.state \in ACTIONABLE /\ ~c.backoff /\ ~c.claimed

\* Another case is stored under a name before this one.  Finished cases stay in the
\* collection; only a board reset, which is not modelled, takes them out.
Crowd ==
  /\ ahead < MaxAhead
  /\ ahead' = ahead + 1
  /\ UNCHANGED <<stored, audit, pc, copy, pack, faults, reviews, flags>>

\* The query reads the first documents in the order of their names, whatever state
\* those are in, and filters them afterwards.
InReach == ahead < QUERY_LIMIT

Find(d) ==
  /\ pc[d] = "idle"
  /\ Exists
  /\ InReach
  /\ is_claimable(stored)
  /\ pc' = [pc EXCEPT ![d] = "found"]
  /\ UNCHANGED <<stored, audit, copy, pack, faults, reviews, flags, ahead>>

\* The transaction.  It looks at the claim only, and leaves the version alone.
Take(d) ==
  /\ pc[d] = "found"
  /\ ~stored.claimed
  /\ stored.state \in ACTIONABLE
  /\ stored' = [stored EXCEPT !.claimed = TRUE]
  /\ copy'   = [copy EXCEPT ![d] = stored']
  /\ pc'     = [pc EXCEPT ![d] = "ready"]
  /\ UNCHANGED <<audit, pack, faults, reviews, flags, ahead>>

\* The case left ACTIONABLE between the query and the transaction.  A drain stops
\* there, with the claim set; a tick puts the case back with the claim cleared.
TakeFinished(d) ==
  /\ pc[d] = "found"
  /\ ~stored.claimed
  /\ stored.state \notin ACTIONABLE
  /\ stored' = [stored EXCEPT !.claimed = TRUE]
  /\ \/ d \notin Ticks /\ Leave(d)
     \/ /\ d \in Ticks
        /\ copy' = [copy EXCEPT ![d] = [stored EXCEPT !.claimed = FALSE]]
        /\ pc'   = [pc EXCEPT ![d] = "committing"]
        /\ UNCHANGED pack
  /\ UNCHANGED <<audit, faults, reviews, flags, ahead>>

TakenByAnother(d) ==
  /\ pc[d] = "found"
  /\ stored.claimed
  /\ Leave(d)
  /\ UNCHANGED <<stored, audit, faults, reviews, flags, ahead>>

\* Mutant: a claim is kept until its holder gives it back.
LeaseKept == FALSE /\ UNCHANGED vars

\* The 180 s of a claim pass, also under a holder that is only slow.
LeaseRunsOut ==
  /\ Exists /\ stored.claimed
  /\ stored' = [stored EXCEPT !.claimed = FALSE]
  /\ UNCHANGED <<audit, pc, copy, pack, faults, reviews, flags, ahead>>

BackoffEnds ==
  /\ Exists /\ stored.backoff
  /\ stored' = [stored EXCEPT !.backoff = FALSE]
  /\ UNCHANGED <<audit, pc, copy, pack, faults, reviews, flags, ahead>>

-----------------------------------------------------------------------------
(* One transition: advance()                                               *)

\* The agents, the rules or the thresholds propose an outcome and its tools.
Propose(h, state, outcome, tools, claimed) ==
  /\ pc[h] = "ready"
  /\ copy[h].state = state
  /\ pack' = [pack EXCEPT ![h] = [outcome |-> outcome, left |-> tools]]
  /\ copy' = [copy EXCEPT ![h].claimed = claimed]
  /\ pc'   = [pc EXCEPT ![h] = "acting"]
  /\ UNCHANGED <<stored, audit, faults, reviews, flags, ahead>>

\* The two prefilter branches put the case with the claim it came with.
RulesClear(h) ==
  Propose(h, "INGESTED", "AUTO_CLEARED", <<"release_shipment">>, copy[h].claimed)

RulesReject(h) ==
  Propose(h, "INGESTED", "ESCALATED", <<"hold_shipment", "assign_analyst">>, copy[h].claimed)

Clear(h) ==
  Propose(h, "SPECIALISTS_DONE", "AUTO_CLEARED", <<"release_shipment", "publish_decision">>, FALSE)

HoldForReview(h) ==
  Propose(h, "SPECIALISTS_DONE", "HELD_FOR_REVIEW", <<"assign_analyst", "publish_decision">>, FALSE)

Escalate(h) ==
  Propose(h, "INVESTIGATED", "ESCALATED",
          <<"hold_shipment", "draft_sar", "notify_webhook", "assign_analyst", "publish_decision">>,
          FALSE)

\* The screenings and the investigation change the state and call no tool.
Analyse(h, from, to) ==
  /\ pc[h] = "ready"
  /\ copy[h].state = from
  /\ copy' = [copy EXCEPT ![h].state = to, ![h].claimed = FALSE]
  /\ pc'   = [pc EXCEPT ![h] = "committing"]
  /\ UNCHANGED <<stored, audit, pack, faults, reviews, flags, ahead>>

Specialists(h) == Analyse(h, "INGESTED", "SPECIALISTS_DONE")
Investigate(h) == Analyse(h, "SPECIALISTS_DONE", "INVESTIGATED")

\* advance_until_terminal stops at a case that is not ACTIONABLE.
NothingToDo(h) ==
  /\ pc[h] = "ready"
  /\ copy[h].state \notin ACTIONABLE
  /\ Leave(h)
  /\ UNCHANGED <<stored, audit, faults, reviews, flags, ahead>>

-----------------------------------------------------------------------------
(* The decision pack: _decide() and governance.execute()                   *)

\* A non-waivable trigger refuses every protected action.  Otherwise the boundary
\* decides, and it may be changed between two actions of a pack.
gate_may_allow(c) == ~c.trigger

Row(tool, outcome) == [action |-> tool, outcome |-> outcome]

rows_of(tool, outcome) == IF tool \in Witnessed THEN {Row(tool, outcome)} ELSE {}

Act(h) == LET tool == Head(pack[h].left)
              rest == Tail(pack[h].left) IN
  /\ pc[h] = "acting"
  /\ gate_may_allow(copy[h])
  /\ audit' = audit \cup rows_of(tool, pack[h].outcome)
  /\ pack'  = [pack EXCEPT ![h].left = rest]
  /\ IF rest = <<>>
     THEN /\ copy' = [copy EXCEPT ![h].state = pack[h].outcome]
          /\ pc'   = [pc EXCEPT ![h] = "recording"]
     ELSE UNCHANGED <<copy, pc>>
  /\ UNCHANGED <<stored, faults, reviews, flags, ahead>>

\* Mutants: the state is named after the event; the outcome becomes official; the
\* rest of the pack is carried out.
refused_as_event(h) == [copy[h] EXCEPT !.state = "gate_denied"]
refused_official(h) == [copy[h] EXCEPT !.state = pack[h].outcome]
rest_carried_out(h) == UNION {rows_of(pack[h].left[i], pack[h].outcome) :
                               i \in 2..Len(pack[h].left)}

\* The first refusal ends the pack and leaves the outcome a proposal.
refused(h) == [copy[h] EXCEPT !.state = "PENDING_HUMAN"]
after_refusal(h) == {}

Refuse(h) ==
  /\ pc[h] = "acting"
  /\ audit' = audit \cup after_refusal(h)
  /\ copy'  = [copy EXCEPT ![h] = refused(h)]
  /\ pack'  = [pack EXCEPT ![h].left = <<>>]
  /\ pc'    = [pc EXCEPT ![h] = "recording"]
  /\ UNCHANGED <<stored, faults, reviews, flags, ahead>>

\* lineage.record_decision
Record(h) ==
  /\ pc[h] = "recording"
  /\ audit' = audit \cup {Row("decision_record", copy[h].state)}
  /\ pc'    = [pc EXCEPT ![h] = "committing"]
  /\ UNCHANGED <<stored, copy, pack, faults, reviews, flags, ahead>>

-----------------------------------------------------------------------------
(* The end of a transition                                                 *)

Commit(h) ==
  /\ pc[h] = "committing"
  /\ Put(h, copy[h], "again")
  /\ pack' = [pack EXCEPT ![h] = NoPack]
  /\ UNCHANGED <<audit, faults, reviews, flags, ahead>>

\* advance_until_terminal reads the case again before its next step ...
Again(h) ==
  /\ pc[h] = "again" /\ h \notin Ticks
  /\ Get(h, "ready")
  /\ UNCHANGED <<stored, audit, pack, faults, reviews, flags, ahead>>

\* ... or ends when its budget is spent.  A tick always ends here.
Stop(h) ==
  /\ pc[h] = "again"
  /\ Leave(h)
  /\ UNCHANGED <<stored, audit, faults, reviews, flags, ahead>>

\* An exception in a transition: the copy is as far as the transition got with it.
Raise(h) ==
  /\ \/ pc[h] = "ready" /\ copy[h].state \in ACTIONABLE
     \/ pc[h] \in {"acting", "recording", "committing"}
  /\ faults < MaxFaults
  /\ faults' = faults + 1
  /\ pc' = [pc EXCEPT ![h] = "failing"]
  /\ UNCHANGED <<stored, audit, copy, pack, reviews, flags, ahead>>

failed(c) == LET n == c.attempts + 1 IN
  IF n >= MAX_ATTEMPTS
  THEN [c EXCEPT !.attempts = n, !.claimed = FALSE, !.state = "DEAD_LETTER"]
  ELSE [c EXCEPT !.attempts = n, !.claimed = FALSE, !.backoff = TRUE]

Fail(h) ==
  /\ pc[h] = "failing"
  /\ Current(h)
  /\ stored' = written(h, failed(copy[h]))
  /\ Leave(h)
  /\ UNCHANGED <<audit, faults, reviews, flags, ahead>>

\* Mutant: a lost race is a failed attempt of the case as it is now.
superseded_counted(h) ==
  /\ pc[h] \in {"committing", "failing"}
  /\ ~Current(h)
  /\ Get(h, "failing")
  /\ UNCHANGED <<stored, audit, pack, faults, reviews, flags, ahead>>

\* Somebody committed first: nothing is written, the claim is left as it is.
Superseded(h) ==
  /\ pc[h] \in {"committing", "failing"}
  /\ ~Current(h)
  /\ Leave(h)
  /\ UNCHANGED <<stored, audit, faults, reviews, flags, ahead>>

\* The process dies, or an exception ends the request without a write.
Killed(h) ==
  /\ pc[h] \notin {"idle", "done"}
  /\ faults < MaxFaults
  /\ faults' = faults + 1
  /\ Leave(h)
  /\ UNCHANGED <<stored, audit, reviews, flags, ahead>>

-----------------------------------------------------------------------------
(* The reviewer                                                            *)

ReviewRead(r) ==
  /\ pc[r] = "idle"
  /\ Exists
  /\ stored.state \in AWAITING_HUMAN
  /\ reviews < MaxReviews
  /\ reviews' = reviews + 1
  /\ Get(r, "ready")
  /\ UNCHANGED <<stored, audit, pack, faults, flags, ahead>>

\* human_decide runs its tool before it writes the case.
Disposes(r, outcome, rows) ==
  /\ pc[r] = "ready"
  /\ audit' = audit \cup rows
  /\ copy'  = [copy EXCEPT ![r].state = outcome, ![r].claimed = FALSE]
  /\ pack'  = [pack EXCEPT ![r].outcome = outcome]
  /\ pc'    = [pc EXCEPT ![r] = "committing"]
  /\ UNCHANGED <<stored, faults, reviews, flags, ahead>>

Release(r)     == Disposes(r, "RELEASED_BY_HUMAN", {Row("release_shipment", "RELEASED_BY_HUMAN")})
BlockCase(r)   == Disposes(r, "BLOCKED_BY_HUMAN", {Row("hold_shipment", "BLOCKED_BY_HUMAN")})
RequestInfo(r) == Disposes(r, "PENDING_HUMAN", {})

\* deep_review adds the debate to the case and changes nothing else.
DeepReview(r) ==
  /\ pc[r] = "ready"
  /\ pc' = [pc EXCEPT ![r] = "committing"]
  /\ UNCHANGED <<stored, audit, copy, pack, faults, reviews, flags, ahead>>

ReviewCommit(r) ==
  /\ pc[r] = "committing"
  /\ Put(r, copy[r], "logging")
  /\ UNCHANGED <<audit, pack, faults, reviews, flags, ahead>>

ReviewLog(r) ==
  /\ pc[r] = "logging"
  /\ audit' = IF pack[r] = NoPack THEN audit
              ELSE audit \cup {Row("decision_record", pack[r].outcome)}
  /\ Leave(r)
  /\ UNCHANGED <<stored, faults, reviews, flags, ahead>>

-----------------------------------------------------------------------------

IntakeStep(i) == Receive(i) \/ Open(i)

UploadStep(u) == Annotate(u) \/ OpenBlocked(u) \/ Block(u)

ClaimStep(d) == Find(d) \/ Take(d) \/ TakeFinished(d) \/ TakenByAnother(d)

Transition(h) ==
  \/ RulesClear(h) \/ RulesReject(h) \/ Specialists(h)
  \/ Clear(h) \/ HoldForReview(h) \/ Investigate(h) \/ Escalate(h)
  \/ NothingToDo(h) \/ Act(h) \/ Refuse(h) \/ Record(h)

WorkStep(h) ==
  \/ Transition(h) \/ Commit(h) \/ Again(h) \/ Stop(h)
  \/ Fail(h) \/ Superseded(h)

ReviewStep(r) ==
  \/ ReviewRead(r) \/ Release(r) \/ BlockCase(r) \/ RequestInfo(r) \/ DeepReview(r)
  \/ ReviewCommit(r) \/ ReviewLog(r) \/ Superseded(r)

Next ==
  \/ \E i \in Intakes : IntakeStep(i)
  \/ \E u \in Uploads : UploadStep(u)
  \/ \E d \in Drains : ClaimStep(d)
  \/ \E h \in Workers : WorkStep(h) \/ Raise(h)
  \/ \E h \in Handlers : Killed(h)
  \/ \E r \in Reviewers : ReviewStep(r)
  \/ LeaseRunsOut \/ BackoffEnds \/ Crowd

Spec == Init /\ [][Next]_vars

\* A running handler goes on, somebody keeps draining (the worker loop, or a board
\* that polls), and the clock moves.
Fairness ==
  /\ \A d \in Drains : WF_vars(ClaimStep(d))
  /\ \A h \in Workers : WF_vars(WorkStep(h))
  /\ \A u \in Uploads : WF_vars(Annotate(u)) /\ WF_vars(Block(u))
  /\ WF_vars(LeaseRunsOut) /\ WF_vars(BackoffEnds)

FairSpec == Spec /\ Fairness

-----------------------------------------------------------------------------
(* Safety                                                                  *)

\* The tool whose work each final state announces.
Backing == [AUTO_CLEARED      |-> "release_shipment",
            ESCALATED         |-> "hold_shipment",
            RELEASED_BY_HUMAN |-> "release_shipment",
            BLOCKED_BY_HUMAN  |-> "hold_shipment"]

\* A state is not a proposal: a case reads as released or held only when that was
\* carried out for it, whatever was refused, raised or lost on the way (_decide,
\* _fail, human_decide).
StateIsBacked ==
  Exists /\ stored.state \in DOMAIN Backing =>
    Row(Backing[stored.state], stored.state) \in audit

\* Subscribers hear of an outcome only after it was carried out: no release or hold
\* is announced that the boundary refused (_decide stops the pack).
AnnouncedWasDone ==
  \A o \in {"AUTO_CLEARED", "ESCALATED"} :
    Row("publish_decision", o) \in audit => Row(Backing[o], o) \in audit

\* Only failures count against a case: races lost to reviewers and to other drains
\* never bring it nearer to DEAD_LETTER (_superseded).
AttemptsAreFailures == Exists => stored.attempts <= faults

\* What a person decided stays decided: no chain, drain, retry or redelivery that
\* started before writes over it (expected_version in advance and _fail).
ReviewerDecisionStands ==
  [][Exists /\ stored.state \in DecidedByHuman => stored'.state = stored.state]_vars

-----------------------------------------------------------------------------
(* What the code's own text says of flagged documents and of the record    *)

\* A document that tripped a non-waivable trigger never clears by itself.
TriggerStopsTheRelease ==
  "injection" \in flags => ~(Exists /\ stored.state = "AUTO_CLEARED")

\* A case flagged for a person is not cleared without one.
FlaggedMeetsAPerson ==
  Exists /\ stored.requires_human => stored.state # "AUTO_CLEARED"

\* Every outcome that became official left a decision record.
OutcomeHasARecord ==
  Exists /\ stored.state \in {"AUTO_CLEARED", "HELD_FOR_REVIEW", "ESCALATED"} =>
    Row("decision_record", stored.state) \in audit

-----------------------------------------------------------------------------
(* Liveness                                                                *)

\* A case the query reaches is not left on the board: whatever fails, dies or is lost,
\* an open case comes to a decision, to a person or to DEAD_LETTER (claim_next_pending).
LeavesTheBoard ==
  []InReach => (Exists /\ stored.state \in ACTIONABLE ~> Exists /\ stored.state \notin ACTIONABLE)

\* What the docs say of every case: one its holder left is offered again.
NoCaseIsStranded ==
  Exists /\ stored.state \in ACTIONABLE ~> Exists /\ stored.state \notin ACTIONABLE

=============================================================================
