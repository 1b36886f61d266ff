-------------------------------- MODULE Worklist --------------------------------
(* worklist.py: the Today screen (which case waits on whom, for what) and the *)
(* Outcomes screen (what was resolved in a window), both read page by page    *)
(* through the store's cursor while cases arrive and move on.  How a case     *)
(* moves is CasePipeline's and EvidenceLoop's; here it moves among the states *)
(* those allow, with the entries the screens read.                            *)
EXTENDS Integers, FiniteSets

CONSTANTS
  Cases,
  Facts,             \* [Cases -> what it carries: [created, sla, denied, blocked, disputed, floors]]
  PAGE,              \* rows of a query
  SCAN_LIMIT,        \* rows of a walk
  ITEMS_PER_BUCKET,  \* items a bucket shows
  Windows,           \* [since, until) an Outcomes request may name
  MaxMoves,          \* bound: moves of cases, none of them after a walk
  Never              \* no instant, no figure

\* Two cases are not created at one instant: the cursor of a query is the
\* instant of its last row (store.py:665-668).
ASSUME DeskAssumption ==
  /\ IsFiniteSet(Cases)
  /\ \A c \in Cases : Facts[c].created \in Int
  /\ \A c, d \in Cases : Facts[c].created = Facts[d].created => c = d
  /\ PAGE \in Nat \ {0}
  /\ SCAN_LIMIT \in Nat \ {0}
  /\ Never \notin Int
  /\ \A w \in Windows : {w[1], w[2]} \subseteq Int \cup {Never}

VARIABLES
  held,      \* [Cases -> the stored case]
  denials,   \* the audit trail's refusals, by the instant of each
  moment,    \* the clock: no two rows are written at one instant
  walk,      \* what a reader has read so far
  there      \* rows that were in the walk's range all along: history

deskVars == <<held, denials, moment, walk, there>>

WORK_STATES == {"PENDING_HUMAN", "HELD_FOR_REVIEW", "ESCALATED", "AWAITING_EVIDENCE", "APPROVED"}
RESOLVED_STATES == {"AUTO_CLEARED", "RELEASED_BY_HUMAN", "BLOCKED_BY_HUMAN"}
HUMAN_ACTIONS == [release |-> "RELEASED_BY_HUMAN", block |-> "BLOCKED_BY_HUMAN",
                  request_info |-> "PENDING_HUMAN"]
BUCKETS == {"awaiting_documents", "awaiting_review", "awaiting_sign_off", "awaiting_execution"}

NoReview == [action |-> "none", state_after |-> "none", at |-> 0]
NoWalk == [kind |-> "none", over |-> FALSE]

DeskInit ==
  /\ held = [c \in Cases |->
       [state |-> "INGESTED", created |-> Facts[c].created, updated_at |-> 0, facts |-> Facts[c],
        last |-> NoReview, resume_state |-> "none"]]
  /\ denials = {}
  /\ moment = 1
  /\ walk = NoWalk
  /\ there = {}

-----------------------------------------------------------------------------
(* One case.                                                                  *)

\* The last review says whether a parked case waits on the shipper.
bucket_for(case) ==
  IF case.state = "AWAITING_EVIDENCE" THEN "awaiting_documents"
  ELSE IF case.state = "APPROVED" THEN "awaiting_execution"
  ELSE IF case.state = "ESCALATED" THEN "awaiting_sign_off"
  ELSE IF case.state = "PENDING_HUMAN" /\ case.last.action = "request_info"
       THEN "awaiting_documents"
  ELSE IF case.state \in {"PENDING_HUMAN", "HELD_FOR_REVIEW"} THEN "awaiting_review"
  ELSE "none"

next_action(case) ==
  LET bucket == bucket_for(case) IN
  IF bucket = "awaiting_documents" THEN "chase_documents"
  ELSE IF bucket = "awaiting_execution" THEN "execute_approval"
  ELSE IF bucket = "awaiting_sign_off" THEN "sign_off_escalation"
  ELSE IF case.facts.denied THEN "decide_refused_action"
  ELSE IF case.facts.blocked THEN "check_injection"
  ELSE IF case.facts.disputed THEN "settle_dispute"
  ELSE IF case.facts.floors # {} THEN "review_findings"
  ELSE "review_case"

waiting_since(case) ==
  IF case.last.state_after = case.state THEN case.last.at ELSE case.updated_at

\* Mutant: a case without a deadline sorts as though it were due at once.
due_at_unset_first(case) == IF case.facts.sla = Never THEN 0 ELSE waiting_since(case) + case.facts.sla
due_at(case) ==
  IF case.facts.sla = Never THEN 9999 ELSE waiting_since(case) + case.facts.sla

Riskiest(S) == IF S = {} THEN -1 ELSE CHOOSE n \in S : \A m \in S : m <= n

work_item(c, case) ==
  [case_id |-> c, bucket |-> bucket_for(case), next_action |-> next_action(case),
   sla |-> case.facts.sla, due |-> due_at(case), risk |-> Riskiest(case.facts.floors),
   since |-> waiting_since(case)]

\* Soonest due first, then the riskiest, then whoever waits longest.
Before(a, b) ==
  \/ a.due < b.due
  \/ a.due = b.due /\ a.risk > b.risk
  \/ a.due = b.due /\ a.risk = b.risk /\ a.since < b.since

\* The sort is stable: equals stay as they were read, the newest first.
Precedes(i, j) == Before(i.row, j.row) \/ (~Before(j.row, i.row) /\ i.at > j.at)

_in(items, bucket) == {i \in items : i.row.bucket = bucket}
group_work(items) ==
  [b \in BUCKETS |->
     [count |-> Cardinality(_in(items, b)),
      items |-> {i \in _in(items, b) :
                   Cardinality({j \in _in(items, b) : Precedes(j, i)}) < ITEMS_PER_BUCKET}]]

resolution_kind(case) ==
  IF case.state = "RELEASED_BY_HUMAN" THEN "released_by_reviewer"
  ELSE IF case.state = "BLOCKED_BY_HUMAN" THEN "blocked_by_reviewer" ELSE "cleared"

-----------------------------------------------------------------------------
(* What the screens read: rows newest first, an instant naming its row, so     *)
(* that a page is the set of the instants on it.                               *)

In(states, h) == {h[c].created : c \in {d \in Cases : h[d].state \in states}}
Rows(kind, h, d) == IF kind = "worklist" THEN In(WORK_STATES, h)
                    ELSE IF kind = "outcomes" THEN In(RESOLVED_STATES, h) ELSE d
CaseAt(at) == CHOOSE c \in Cases : held[c].created = at

Newest(S, n) == {at \in S : Cardinality({b \in S : b > at}) < n}
Older(S, cursor) == IF cursor = Never THEN S ELSE {at \in S : at < cursor}
FirstOf(S, cursor) == Newest(Older(S, cursor), PAGE)

\* Mutant: the newest rows are fetched and filtered afterwards, "the bug this
\* replaces".
query_windowed(kind, cursor) ==
  LET everything == IF kind = "refused" THEN denials ELSE {held[c].created : c \in Cases} IN
  FirstOf(everything, cursor) \cap Rows(kind, held, denials)
query(kind, cursor) == FirstOf(Rows(kind, held, denials), cursor)

\* A short page is the last one.
Oldest(page) == CHOOSE at \in page : \A b \in page : at <= b
next_cursor(page) == IF Cardinality(page) = PAGE THEN Oldest(page) ELSE Never

Item(kind, at) ==
  [at |-> at,
   row |-> IF kind = "worklist" THEN work_item(CaseAt(at), held[CaseAt(at)])
           ELSE IF kind = "outcomes" THEN resolution_kind(held[CaseAt(at)]) ELSE "denied"]
Inside(w, at) == w.until = Never \/ at < w.until

\* build_worklist, and build_outcomes with its two walks, from the first page on.
Open(kind, since, until) ==
  /\ walk = NoWalk
  /\ kind = "worklist" => (since = Never /\ until = Never)
  /\ walk' = [kind |-> kind, since |-> since, until |-> until, cursor |-> Never,
              found |-> {}, rows |-> 0, scanned |-> 0, truncated |-> FALSE, over |-> FALSE]
  /\ there' = {at \in Rows(kind, held, denials) :
                 (since # Never => at >= since) /\ (until # Never => at < until)}
  /\ UNCHANGED <<held, denials, moment>>

\* One page of _scan, or of _refused_actions, which stops where a page ends.
\* `rows` counts what is appended to `found`.
ReadPage ==
  /\ walk # NoWalk
  /\ ~walk.over
  /\ LET kind == walk.kind
         page == query(kind, walk.cursor)
         cursor == next_cursor(page)
         inside == {at \in page : walk.since # Never => at >= walk.since}
         room == SCAN_LIMIT - walk.scanned
         full == Cardinality(IF kind = "refused" THEN page ELSE inside) >= room
         taken == IF kind = "refused" THEN inside ELSE Newest(inside, room)
         kept == {at \in taken : Inside(walk, at)}
     IN  walk' = [walk EXCEPT
           !.cursor = cursor,
           !.found = @ \cup {Item(kind, at) : at \in kept},
           !.rows = @ + Cardinality(kept),
           !.scanned = @ + Cardinality(IF kind = "refused" THEN page ELSE taken),
           !.over = full \/ inside # page \/ cursor = Never,
           !.truncated = /\ kind # "refused" /\ full
                         /\ cursor # Never \/ room < Cardinality(page)]
  /\ UNCHANGED <<held, denials, moment, there>>

-----------------------------------------------------------------------------
(* Cases move, the first time when the agent is done with them: until then no  *)
(* screen shows them, so one that arrives late is one that settles late.       *)

Put(c, case) ==
  /\ moment <= MaxMoves
  /\ ~walk.over
  /\ held' = [held EXCEPT ![c] = [case EXCEPT !.updated_at = moment]]
  /\ there' = IF walk = NoWalk THEN there ELSE there \cap Rows(walk.kind, held', denials')
  /\ moment' = moment + 1
  /\ UNCHANGED walk

\* The agent leaves a case to a person, or clears it; a refused action is denied.
Settle(c, state) ==
  /\ held[c].state = "INGESTED"
  /\ denials' = IF state = "PENDING_HUMAN" /\ held[c].facts.denied
                THEN denials \cup {moment} ELSE denials
  /\ Put(c, [held[c] EXCEPT !.state = state])

\* resume_state outlives the request, here the sign of a verification record.
Review(action, state) == [action |-> action, state_after |-> state, at |-> moment]

human_decide(c, action) ==
  /\ held[c].state \in {"PENDING_HUMAN", "HELD_FOR_REVIEW", "ESCALATED"}
  /\ held[c].resume_state = "none"
  /\ UNCHANGED denials
  /\ Put(c, [held[c] EXCEPT !.state = HUMAN_ACTIONS[action],
                            !.last = Review(action, HUMAN_ACTIONS[action])])

create_request(c) ==
  /\ held[c].state \in {"PENDING_HUMAN", "HELD_FOR_REVIEW", "ESCALATED"}
  /\ UNCHANGED denials
  /\ Put(c, [held[c] EXCEPT !.state = "AWAITING_EVIDENCE", !.resume_state = held[c].state,
                            !.last = Review("request_info", "AWAITING_EVIDENCE")])

\* The request is withdrawn, or answered and the case judged again.
Reopen(c, state) ==
  /\ held[c].state = "AWAITING_EVIDENCE"
  /\ state \in {held[c].resume_state, "HELD_FOR_REVIEW", "ESCALATED"}
  /\ UNCHANGED denials
  /\ Put(c, [held[c] EXCEPT !.state = state])

\* approve, execute_approval, and an execution whose send fails.
Approved(c, state) ==
  /\ \/ held[c].state \in {"HELD_FOR_REVIEW", "ESCALATED"} /\ state = "APPROVED"
     \/ /\ held[c].state \in {"APPROVED", "EXECUTION_FAILED"}
        /\ state \in {"RELEASED_BY_HUMAN", "BLOCKED_BY_HUMAN", "EXECUTION_FAILED"}
  /\ held[c].resume_state # "none"
  /\ UNCHANGED denials
  /\ Put(c, [held[c] EXCEPT !.state = state])

DeskNext ==
  \/ \E kind \in {"worklist", "outcomes", "refused"}, w \in Windows : Open(kind, w[1], w[2])
  \/ ReadPage
  \/ \E c \in Cases :
       \/ \E s \in {"AUTO_CLEARED", "HELD_FOR_REVIEW", "ESCALATED", "PENDING_HUMAN"} : Settle(c, s)
       \/ \E a \in DOMAIN HUMAN_ACTIONS : human_decide(c, a)
       \/ create_request(c)
       \/ \E s \in WORK_STATES : Reopen(c, s)
       \/ \E s \in {"APPROVED", "EXECUTION_FAILED", "RELEASED_BY_HUMAN", "BLOCKED_BY_HUMAN"} :
            Approved(c, s)

DeskSpec == DeskInit /\ [][DeskNext]_deskVars

-----------------------------------------------------------------------------
Found == {i.at : i \in walk.found}

\* A walk that does not call itself truncated has read every row that was in
\* its range throughout, whatever arrived, left or came back meanwhile, each
\* once and none from outside its window; a case that waits has a place on the
\* screen (worklist.py:55-59, store.py:653-668).  The refusals are counted
\* without the sign, so for them only while they fit.
NobodyForgotten ==
  (walk.over /\ ~walk.truncated) =>
    /\ (walk.kind # "refused" \/ Cardinality(denials) <= SCAN_LIMIT) => there \subseteq Found
    /\ Cardinality(Found) = walk.rows
    /\ \A at \in Found : (walk.since # Never => at >= walk.since) /\ Inside(walk, at)
    /\ walk.kind = "worklist" => \A i \in walk.found : i.row.bucket \in BUCKETS

\* What a bucket leaves off its page is never due before what it shows: a case
\* with a deadline is not pushed off by cases that have none (worklist.py:271-276).
DeadlinesAreShown ==
  (walk.over /\ walk.kind = "worklist") =>
    LET screen == group_work(walk.found)
    IN  \A b \in BUCKETS, i \in walk.found :
          (i.row.bucket = b /\ i.row.sla # Never /\ i \notin screen[b].items) =>
            \A k \in screen[b].items : k.row.sla # Never

\* "decided, not yet carried out" (worklist.py:51): a decision that has still to
\* be carried out by a person is on the Today screen.
DecidedIsOnTheScreen ==
  \A c \in Cases : held[c].state = "EXECUTION_FAILED" =>
    /\ held[c].state \in WORK_STATES
    /\ bucket_for(held[c]) = "awaiting_execution"
=============================================================================
