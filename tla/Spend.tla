------------------------------- MODULE Spend -------------------------------
(***************************************************************************)
(* The spend ceiling of a tenant: budget.py, asked by nebius_client before *)
(* every model call, and the places that pay: the transitions of           *)
(* orchestrator.advance, a deep review, the transcription of an upload     *)
(* and the endpoints that call an agent directly.                          *)
(*                                                                         *)
(* The figure asked is the sum of what the tenant's case documents have    *)
(* recorded, through a cache each process keeps.  What a transition pays   *)
(* is on its own copy until it commits or fails.  The attempts of one call *)
(* are one action: only the last of them is answered or raises.            *)
(***************************************************************************)
EXTENDS Integers, FiniteSets

CONSTANTS
  Tenants, Cases, Handlers, Processes,
  Owner,        \* [Cases -> Tenants]
  RunsIn,       \* [Handlers -> Processes]
  Begin,        \* the beginnings: [Cases -> the state of a case, "ABSENT" until an upload opens it]
  Coded,        \* the cases whose shipment states a description and a code
  SINGLE_TENANT_ID,
  Ceiling,      \* VF_TENANT_SPEND_CEILING_USD, in replies
  MAX_ATTEMPTS, \* of a case
  MaxFaults,    \* bound: calls that raise, reads of the store that fail
  MaxExtra,     \* bound: direct calls, uploads and reviews
  NoFigure

ASSUME SpendConstants ==
  /\ Owner \in [Cases -> Tenants] /\ RunsIn \in [Handlers -> Processes]
  /\ Begin \subseteq [Cases -> {"ABSENT", "INGESTED", "SPECIALISTS_DONE", "HELD_FOR_REVIEW"}]
  /\ SINGLE_TENANT_ID \in Tenants /\ Coded \subseteq Cases
  /\ IsFiniteSet(Cases) /\ NoFigure \notin Int
  /\ Ceiling \in Nat \ {0} /\ MAX_ATTEMPTS \in Nat \ {0}
  /\ MaxFaults \in Nat /\ MaxExtra \in Nat

VARIABLES
  doc,      \* [Cases -> the stored case: its state and what it has recorded]
  cache,    \* [Processes -> [Tenants -> the figure kept]]
  work,     \* [Handlers -> what the handler is doing, on which copy]
  lane,     \* [Handlers -> [Agents -> where the agent's call is]]
  paid,     \* [Cases -> replies received for the case]: history
  faults, extra

spendVars == <<doc, cache, work, lane, paid, faults, extra>>

Agents == {"fraud", "compliance", "hs_classifier", "debate", "investigation",
           "document_intake"}

-----------------------------------------------------------------------------

CaseDoc(state) == [state |-> state, version |-> 1, cost |-> 0, attempts |-> 0]

\* `tenant` is what set_current_tenant declared; a direct call declares nothing and
\* current_tenant falls back to the single tenant.
\* A handler without work; one whose transition is over while a call it made beside the
\* failing one still runs, since gather() cancels nothing.
Idle == [kind |-> "idle"]
Over(w) == [kind |-> "over", case |-> w.case, tenant |-> w.tenant]
Work(kind, c, t) == [kind |-> kind, case |-> c, copy |-> doc[c], tenant |-> t]

SpendInit ==
  /\ \E first \in Begin : doc = [c \in Cases |-> CaseDoc(first[c])]
  /\ cache   = [p \in Processes |-> [t \in Tenants |-> NoFigure]]
  /\ work    = [h \in Handlers |-> Idle]
  /\ lane    = [h \in Handlers |-> [a \in Agents |-> "off"]]
  /\ paid    = [c \in Cases |-> 0]
  /\ faults  = 0
  /\ extra   = 0

\* A case records its cost in replies: the replies that some cases have recorded.
Replies(cases) == UNION {{c} \X (1 .. doc[c].cost) : c \in cases}

\* Mutant: the aggregation is not scoped to the tenant.
sum_rollups_unscoped(t) == Cardinality(Replies(Cases))

\* sum_rollups: what the tenant's stored cases have recorded.
OwnedBy(t) == {c \in Cases : Owner[c] = t}
sum_rollups(t) == Cardinality(Replies(OwnedBy(t)))

\* Mutant: a call that raised is waited for.
Ended_answered == {"answered"}

\* A call is over when it has answered, has raised, or was refused.
Ended == {"answered", "raised", "refused"}

Silent(h) == \A a \in Agents : lane[h][a] \in Ended \cup {"off"}

\* The handler begins a piece of work whose agents are due.
Starts(h, piece, agents) ==
  /\ work' = [work EXCEPT ![h] = piece]
  /\ lane' = [lane EXCEPT ![h] = [a \in Agents |-> IF a \in agents THEN "due" ELSE "off"]]

Free(h) == work[h].kind \in {"idle", "over"} /\ Silent(h)

\* advance: the first pair of agents of a case just taken in, or its investigation.
Advance(h) ==
  /\ Free(h)
  /\ \E c \in Cases :
       \/ /\ doc[c].state = "INGESTED"
          /\ Starts(h, Work("specialists", c, Owner[c]), {"fraud", "compliance"})
       \/ /\ doc[c].state = "SPECIALISTS_DONE"
          /\ Starts(h, Work("investigation", c, Owner[c]), {"investigation"})
  /\ UNCHANGED <<doc, cache, paid, faults, extra>>

\* deep_review of a case that awaits a person.
DeepReview(h) ==
  /\ Free(h) /\ extra < MaxExtra
  /\ \E c \in Cases : /\ doc[c].state = "HELD_FOR_REVIEW"
                      /\ Starts(h, Work("review", c, Owner[c]), {"debate"})
  /\ extra' = extra + 1
  /\ UNCHANGED <<doc, cache, paid, faults>>

\* ingest_document: the transcription, whether or not the shipment has a case; `copy'
\* is the case that would be opened.
Upload(h) ==
  /\ Free(h) /\ extra < MaxExtra
  /\ \E c \in Cases :
       Starts(h, [kind |-> "upload", case |-> c, tenant |-> Owner[c],
                  copy |-> CaseDoc("INGESTED")], {"document_intake"})
  /\ extra' = extra + 1
  /\ UNCHANGED <<doc, cache, paid, faults>>

\* fraud_analyze and its neighbours: an agent called by a request, for no case.
Direct(h) ==
  /\ Free(h) /\ extra < MaxExtra
  /\ Starts(h, [kind |-> "direct", tenant |-> SINGLE_TENANT_ID], {"fraud"})
  /\ extra' = extra + 1
  /\ UNCHANGED <<doc, cache, paid, faults>>

-----------------------------------------------------------------------------
(* assert_within_budget                                                    *)

kept(h) == cache[RunsIn[h]][work[h].tenant]
Within(spent) == spent < Ceiling

\* The answer to one check: the call is opened, or BudgetExceeded is raised.
Answered(h, a, spent) ==
  lane' = [lane EXCEPT ![h][a] = IF Within(spent) THEN "open" ELSE "refused"]

\* spend_so_far from the cache.  How old the figure is depends on the clock alone: one
\* that is kept may be in its CACHE_TTL_SECONDS or past them.
CheckCached(h, a) ==
  /\ lane[h][a] = "due" /\ kept(h) # NoFigure
  /\ Answered(h, a, kept(h))
  /\ UNCHANGED <<doc, cache, work, paid, faults, extra>>

\* spend_so_far from the store; a figure overtaken on its way is as old as a kept one.
CheckStored(h, a) ==
  /\ lane[h][a] = "due"
  /\ LET spent == sum_rollups(work[h].tenant)
     IN  /\ cache' = [cache EXCEPT ![RunsIn[h]][work[h].tenant] = spent]
         /\ Answered(h, a, spent)
  /\ UNCHANGED <<doc, work, paid, faults, extra>>

\* The store does not answer: zero is assumed, and not kept.
CheckBlind(h, a) ==
  /\ lane[h][a] = "due" /\ faults < MaxFaults
  /\ faults' = faults + 1
  /\ Answered(h, a, 0)
  /\ UNCHANGED <<doc, cache, work, paid, extra>>

-----------------------------------------------------------------------------
(* The calls, and what becomes of their cost                               *)

\* _with_retry returns: the reply is paid for, whoever still waits for it.
Reply(h, a) ==
  /\ lane[h][a] = "open"
  /\ lane' = [lane EXCEPT ![h][a] = "answered"]
  /\ paid' = IF work[h].kind = "direct" THEN paid ELSE [paid EXCEPT ![work[h].case] = @ + 1]
  /\ UNCHANGED <<doc, cache, work, faults, extra>>

\* _with_retry gives up.
GivesUp(h, a) ==
  /\ lane[h][a] = "open" /\ faults < MaxFaults
  /\ faults' = faults + 1
  /\ lane' = [lane EXCEPT ![h][a] = "raised"]
  /\ UNCHANGED <<doc, cache, work, paid, extra>>

\* _record_step for each of `agents`: the cost goes on the copy and the process
\* forgets the figure it kept.  Then the agents of `then` are due.
RecordSteps(h, agents, then, due) ==
  /\ work'  = [work EXCEPT ![h].copy.cost = @ + Cardinality(agents), ![h].kind = then]
  /\ cache' = [cache EXCEPT ![RunsIn[h]][work[h].tenant] = NoFigure]
  /\ lane'  = [lane EXCEPT ![h] = [a \in Agents |-> IF a \in due THEN "due" ELSE "off"]]

\* The transition is over; a call made beside the failing one may still run.
Leaves(h) ==
  IF Silent(h) THEN Starts(h, Idle, {})
               ELSE /\ work' = [work EXCEPT ![h] = Over(work[h])]
                    /\ UNCHANGED lane

\* The steps of the first model hops are recorded; a disputed score is debated at once.
Scored(h, agents) == \/ RecordSteps(h, agents, "debating", {"debate"})
                     \/ RecordSteps(h, agents, "saving", {})

\* Both of the first pair have answered; a shipment that states both is classified
\* before they are recorded.
Gathered(h) ==
  /\ work[h].kind = "specialists"
  /\ lane[h]["fraud"] = "answered" /\ lane[h]["compliance"] = "answered"
  /\ IF work[h].case \in Coded
     THEN Starts(h, [work[h] EXCEPT !.kind = "classifying"], {"hs_classifier"}) /\ UNCHANGED cache
     ELSE Scored(h, {"fraud", "compliance"})
  /\ UNCHANGED <<doc, paid, faults, extra>>

\* A classification that raised is an unknown verdict and no step.
Classified(h) ==
  /\ work[h].kind = "classifying" /\ lane[h]["hs_classifier"] \in Ended
  /\ Scored(h, {"fraud", "compliance"} \cup
               {a \in {"hs_classifier"} : lane[h][a] = "answered"})
  /\ UNCHANGED <<doc, paid, faults, extra>>

\* A debate that raised is logged and the transition goes on.
Debated(h) ==
  /\ work[h].kind = "debating"
  /\ \/ /\ lane[h]["debate"] = "answered"
        /\ RecordSteps(h, {"debate"}, "saving", {})
     \/ /\ lane[h]["debate"] \in {"raised", "refused"}
        /\ Starts(h, [work[h] EXCEPT !.kind = "saving"], {})
        /\ UNCHANGED cache
  /\ UNCHANGED <<doc, paid, faults, extra>>

Investigated(h) ==
  /\ work[h].kind = "investigation" /\ lane[h]["investigation"] = "answered"
  /\ RecordSteps(h, {"investigation"}, "saving", {})
  /\ UNCHANGED <<doc, paid, faults, extra>>

-----------------------------------------------------------------------------
(* The versioned writes                                                    *)

\* put_case with the version of the copy; a stale one is superseded and discarded.
Current(h) == doc[work[h].case].version = work[h].copy.version

Puts(h, new) ==
  doc' = IF Current(h)
         THEN [doc EXCEPT ![work[h].case] = [new EXCEPT !.version = @ + 1]]
         ELSE doc

\* The state after the work is committed.
next(state) == IF state = "INGESTED" THEN "SPECIALISTS_DONE" ELSE "HELD_FOR_REVIEW"

\* The end of advance(): a case that needs no investigation is decided without one.
Commit(h) ==
  /\ work[h].kind = "saving"
  /\ Puts(h, [work[h].copy EXCEPT !.state = next(@)])
  /\ Leaves(h)
  /\ UNCHANGED <<cache, paid, faults, extra>>

Decide(h) ==
  /\ Free(h)
  /\ \E c \in Cases :
       /\ doc[c].state = "SPECIALISTS_DONE"
       /\ doc' = [doc EXCEPT ![c].state = "HELD_FOR_REVIEW", ![c].version = @ + 1]
  /\ UNCHANGED <<cache, work, lane, paid, faults, extra>>

\* Mutant: the failed transition is charged for once more.
failed_twice(copy) ==
  [copy EXCEPT !.attempts = @ + 1, !.cost = @ + 1,
               !.state = IF copy.attempts + 1 >= MAX_ATTEMPTS THEN "DEAD_LETTER" ELSE @]

\* What _fail makes of the copy.
failed(copy) ==
  [copy EXCEPT !.attempts = @ + 1,
               !.state = IF copy.attempts + 1 >= MAX_ATTEMPTS THEN "DEAD_LETTER" ELSE @]

\* A specialist or the investigation raised: the transition has failed.
Fail(h) ==
  /\ work[h].kind \in {"specialists", "investigation"}
  /\ \E a \in Agents : lane[h][a] \in {"raised", "refused"}
  /\ Puts(h, failed(work[h].copy))
  /\ Leaves(h)
  /\ UNCHANGED <<cache, paid, faults, extra>>

\* The end of deep_review; one that raised has written nothing.
Reviewed(h) ==
  /\ work[h].kind = "review" /\ lane[h]["debate"] \in Ended
  /\ \/ /\ lane[h]["debate"] = "answered"
        /\ cache' = [cache EXCEPT ![RunsIn[h]][work[h].tenant] = NoFigure]
        /\ Puts(h, [work[h].copy EXCEPT !.cost = @ + 1])
     \/ /\ lane[h]["debate"] \in {"raised", "refused"}
        /\ UNCHANGED <<doc, cache>>
  /\ Leaves(h)
  /\ UNCHANGED <<paid, faults, extra>>

-----------------------------------------------------------------------------
(* Intake, whose writes compare no version                                 *)

\* The transcription is over.  One that does not parse opens no case and its cost is
\* recorded nowhere; nor is that of a file whose shipment has a case already, which is
\* the case that is read here.
Uploaded(h) ==
  /\ work[h].kind = "upload" /\ lane[h]["document_intake"] \in Ended
  /\ \/ /\ lane[h]["document_intake"] = "answered"
        /\ LET c == work[h].case IN
           Starts(h, IF doc[c].state = "ABSENT"
                     THEN [work[h] EXCEPT !.kind = "opening", !.copy.cost = 1]
                     ELSE [work[h] EXCEPT !.kind = "flagging", !.copy = doc[c]], {})
     \/ Leaves(h)
  /\ UNCHANGED <<doc, cache, paid, faults, extra>>

\* put_case without a version: whatever is stored now is replaced, the count begins anew.
Replaces(h) == doc' = [doc EXCEPT ![work[h].case] = [work[h].copy EXCEPT !.version = 1]]

\* ingest_shipment's put of the case that was not there when it looked.
Opens(h) ==
  /\ work[h].kind = "opening"
  /\ Replaces(h)
  /\ work' = [work EXCEPT ![h].kind = "flagging"]
  /\ UNCHANGED <<cache, lane, paid, faults, extra>>

\* ingest_document's own put, with the case opened or found: what transitions have
\* recorded on it since is gone.
Flags(h) ==
  /\ work[h].kind = "flagging"
  /\ Replaces(h)
  /\ Leaves(h)
  /\ UNCHANGED <<cache, paid, faults, extra>>

\* A direct call answers its request; its cost is recorded nowhere.
Returned(h) ==
  /\ work[h].kind = "direct" /\ lane[h]["fraud"] \in Ended
  /\ Leaves(h)
  /\ UNCHANGED <<doc, cache, paid, faults, extra>>

-----------------------------------------------------------------------------

\* What the program does of itself once a piece of work has begun.
Proceed(h) ==
  \/ \E a \in Agents : \/ CheckCached(h, a) \/ CheckStored(h, a)
                       \/ Reply(h, a)
  \/ Gathered(h) \/ Classified(h) \/ Debated(h) \/ Investigated(h)
  \/ Commit(h) \/ Fail(h) \/ Reviewed(h)
  \/ Uploaded(h) \/ Opens(h) \/ Flags(h) \/ Returned(h)

SpendNext == \E h \in Handlers :
  \/ Proceed(h) \/ Advance(h) \/ Decide(h) \/ DeepReview(h) \/ Upload(h) \/ Direct(h)
  \/ \E a \in Agents : CheckBlind(h, a) \/ GivesUp(h, a)

\* The worker takes up a case again while there is one, and what runs is not stopped.
SpendSpec == /\ SpendInit /\ [][SpendNext]_spendVars
        /\ \A h \in Handlers : WF_spendVars(Proceed(h)) /\ WF_spendVars(Advance(h))

-----------------------------------------------------------------------------
(* Properties                                                              *)

\* The replies that were received for some cases.
Received(cases) == UNION {{c} \X (1 .. paid[c]) : c \in cases}

\* A call is refused only when replies up to the ceiling were paid for the tenant's own
\* cases (assert_within_budget): the figure asked, however old, however often a case was
\* retried or taken in anew beside a transition, counts no reply twice and none of another
\* tenant's.
RefusedOnlyWhenSpent ==
  [][\A h \in Handlers, a \in Agents :
       lane'[h][a] = "refused" /\ lane[h][a] = "due"
         => Cardinality(Received(OwnedBy(work[h].tenant))) >= Ceiling]_spendVars

\* What a case has recorded was paid for: a retry, a second handler on the same case, a
\* discarded transition or a second intake never bills a reply twice.
RecordedWasPaid == \A c \in Cases : doc[c].cost <= paid[c]

\* A ceiling that refuses every call keeps no case circling: each comes to rest with a
\* person, or gives up after its attempts.
EveryCaseComesToRest ==
  <>[](\A c \in Cases : doc[c].state \in {"ABSENT", "HELD_FOR_REVIEW", "DEAD_LETTER"})

-----------------------------------------------------------------------------
(* What the code's own text says and its unversioned and late writes do not keep. *)

\* "Accumulated estimated model spend for a tenant" (budget.py, spend_so_far): what has
\* been recorded is not taken back.
CostIsKept == [][\A c \in Cases : doc'[c].cost >= doc[c].cost]_spendVars

\* "the orchestrator routes the case to a human rather than silently dropping it": a case
\* whose last call the ceiling refused is not given up.
RefusalReachesAPerson ==
  [][\A h \in Handlers :
       Fail(h) /\ (\E a \in Agents : lane[h][a] = "refused")
         => doc'[work[h].case].state # "DEAD_LETTER"]_spendVars

=============================================================================
