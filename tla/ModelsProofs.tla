----------------------------- MODULE ModelsProofs -----------------------------
(* What the spend control and the agents with tools promise, for any number of *)
(* tenants, cases, handlers and processes, any ceiling and any answers.        *)
EXTENDS Spend, AgentTools, FiniteSetTheorems, WellFoundedInduction, TLAPS

-----------------------------------------------------------------------------
(* Spend.  A figure that is kept may be ahead of the store, since an intake    *)
(* writes without comparing versions and takes recorded cost back.  It is      *)
(* never ahead of what was paid: no case has recorded a reply it did not get,  *)
(* because the copy of every handler that will write carries at most what its  *)
(* case was paid, less the answers the handler still has to record.            *)

LaneStates == {"off", "due", "open", "refused", "answered", "raised"}
Holding == {"specialists", "classifying", "debating", "saving", "investigation", "review",
            "upload", "opening", "flagging"}
CaseStates == {"ABSENT", "INGESTED", "SPECIALISTS_DONE", "HELD_FOR_REVIEW", "DEAD_LETTER"}
Docs == [state : CaseStates, version : Nat, cost : Nat, attempts : Nat]
Works == [kind : {"idle"}] \cup [kind : {"direct"}, tenant : Tenants]
         \cup [kind : {"over"}, case : Cases, tenant : Tenants]
         \cup [kind : Holding, case : Cases, copy : Docs, tenant : Tenants]
Calls == [Agents -> LaneStates]

SpendTyped ==
  /\ doc \in [Cases -> Docs]
  /\ cache \in [Processes -> [Tenants -> Nat \cup {NoFigure}]]
  /\ work \in [Handlers -> Works]
  /\ lane \in [Handlers -> Calls]
  /\ paid \in [Cases -> Nat]

\* The answers a handler has got and not recorded: in its lanes, and from the first
\* pair while the classification is under way.
One(s) == IF s = "answered" THEN 1 ELSE 0
Got(calls) == One(calls["fraud"]) + One(calls["compliance"]) + One(calls["hs_classifier"])
              + One(calls["debate"]) + One(calls["investigation"]) + One(calls["document_intake"])
Held(kind) == IF kind = "classifying" THEN 2 ELSE 0
Covered(w, n, p) == w.kind \in Holding => w.copy.cost + Held(w.kind) + n <= p[w.case]

Bill(t) == Cardinality(Received(OwnedBy(t)))
FiguresArePaid == \A p \in Processes, t \in Tenants : cache[p][t] # NoFigure => cache[p][t] <= Bill(t)

\* A handler without work waits for no call, a direct one for its own only.
IdleIsOff ==
  \A h \in Handlers, a \in Agents :
    work[h].kind = "idle" \/ (work[h].kind = "direct" /\ a # "fraud") => lane[h][a] = "off"

SpendInv == SpendTyped /\ RecordedWasPaid /\ FiguresArePaid /\ IdleIsOff
            /\ \A h \in Handlers : Covered(work[h], Got(lane[h]), paid)

LEMMA CountsGrow ==
  ASSUME NEW f \in [Cases -> Nat], NEW g \in [Cases -> Nat], \A c \in Cases : f[c] <= g[c],
         NEW S \in SUBSET Cases
  PROVE  LET A == UNION {{c} \X (1 .. f[c]) : c \in S}
             B == UNION {{c} \X (1 .. g[c]) : c \in S}
         IN  Cardinality(A) \in Nat /\ Cardinality(B) \in Nat /\ Cardinality(A) <= Cardinality(B)
<1> DEFINE A == UNION {{c} \X (1 .. f[c]) : c \in S}
           B == UNION {{c} \X (1 .. g[c]) : c \in S}
           R(c) == {c} \X (1 .. g[c])
           F == {R(c) : c \in S}
<1>1. IsFiniteSet(S) BY SpendConstants, FS_Subset
<1>2. IsFiniteSet(F)
  <2> DEFINE e == [c \in S |-> R(c)]
  <2>1. e \in Surjection(S, F) BY DEF Surjection
  <2> QED BY <1>1, <2>1, FS_Surjection
<1>3. ASSUME NEW x \in F PROVE IsFiniteSet(x)
  <2>1. PICK c \in S : x = R(c) OBVIOUS
  <2>2. IsFiniteSet({c}) BY FS_Singleton
  <2>3. IsFiniteSet(1 .. g[c]) BY FS_Interval
  <2> QED BY <2>1, <2>2, <2>3, FS_Product
<1>4. IsFiniteSet(B) BY <1>2, <1>3, FS_UNION
<1>5. A \subseteq B
  <2>1. ASSUME NEW c \in S PROVE 1 .. f[c] \subseteq 1 .. g[c] OBVIOUS
  <2> QED BY <2>1
<1> HIDE DEF A, B
<1>6. Cardinality(A) \in Nat /\ Cardinality(B) \in Nat /\ Cardinality(A) <= Cardinality(B)
  BY <1>4, <1>5, FS_Subset, FS_CardinalityType
<1> QED BY <1>6 DEF A, B

\* What the store sums is at most what was paid.
LEMMA SumsArePaid ==
  ASSUME doc \in [Cases -> Docs], paid \in [Cases -> Nat], RecordedWasPaid, NEW t \in Tenants
  PROVE  sum_rollups(t) \in Nat /\ Bill(t) \in Nat /\ sum_rollups(t) <= Bill(t)
<1> DEFINE f == [c \in Cases |-> doc[c].cost]
<1>1. f \in [Cases -> Nat] /\ \A c \in Cases : f[c] <= paid[c] BY DEF Docs, RecordedWasPaid
<1>2. OwnedBy(t) \in SUBSET Cases BY DEF OwnedBy
<1>3. UNION {{c} \X (1 .. f[c]) : c \in OwnedBy(t)} = Replies(OwnedBy(t)) BY <1>2 DEF Replies
<1> HIDE DEF f
<1> QED BY <1>1, <1>2, <1>3, CountsGrow DEF sum_rollups, Bill, Received

\* What was paid only grows.
LEMMA BillsGrow ==
  ASSUME paid \in [Cases -> Nat], paid' \in [Cases -> Nat], \A c \in Cases : paid[c] <= paid'[c],
         NEW t \in Tenants
  PROVE  Bill(t) \in Nat /\ Bill(t)' \in Nat /\ Bill(t) <= Bill(t)'
<1>1. OwnedBy(t) \in SUBSET Cases BY DEF OwnedBy
<1>2. Bill(t)' = Cardinality(UNION {{c} \X (1 .. paid'[c]) : c \in OwnedBy(t)})
  BY DEF Bill, Received, OwnedBy
<1> QED BY <1>1, <1>2, CountsGrow DEF Bill, Received

LEMMA OneMoreAnswer ==
  ASSUME NEW calls \in Calls, NEW a \in Agents, NEW s \in LaneStates, calls[a] # "answered"
  PROVE  /\ Got(calls) \in Nat
         /\ Got([calls EXCEPT ![a] = s]) = Got(calls) + One(s)
<1>1. \A b \in Agents : One(calls[b]) \in Nat BY DEF One
<1>2. One(calls[a]) = 0 /\ One(s) \in Nat BY DEF One
<1>3. \A b \in Agents : One([calls EXCEPT ![a] = s][b]) = IF b = a THEN One(s) ELSE One(calls[b])
  BY DEF Calls
<1>4. a \in {"fraud", "compliance", "hs_classifier", "debate", "investigation", "document_intake"}
  BY DEF Agents
<1> HIDE DEF One
<1> QED BY <1>1, <1>2, <1>3, <1>4 DEF Got, Agents

LEMMA KindsApart ==
  ASSUME NEW w \in Works
  PROVE  /\ w.kind \in Holding => w.case \in Cases /\ w.copy \in Docs /\ w.tenant \in Tenants
         /\ w.kind = "over" => w.case \in Cases
         /\ w.kind \in Holding \cup {"over", "direct", "idle"}
         /\ w.kind # "idle" => w.tenant \in Tenants
         /\ w.kind \in Holding =>
              \A k \in Holding, d \in Docs :
                 [w EXCEPT !.kind = k] \in Works /\ [w EXCEPT !.kind = k, !.copy = d] \in Works
BY DEF Works, Holding

LEMMA InitSpends == SpendInit => SpendInv
<1> SUFFICES ASSUME SpendInit PROVE SpendInv OBVIOUS
<1>1. doc \in [Cases -> Docs] /\ \A c \in Cases : doc[c].cost = 0
  <2>1. PICK first \in Begin : doc = [c \in Cases |-> CaseDoc(first[c])] BY DEF SpendInit
  <2>2. ASSUME NEW c \in Cases PROVE first[c] \in CaseStates
    BY SpendConstants DEF CaseStates
  <2>3. ASSUME NEW c \in Cases PROVE doc[c] \in Docs /\ doc[c].cost = 0
    BY <2>1, <2>2 DEF CaseDoc, Docs
  <2> QED BY <2>1, <2>3
<1>2. SpendTyped BY <1>1 DEF SpendInit, SpendTyped, Idle, Works, LaneStates, Calls
<1>3. RecordedWasPaid BY <1>1 DEF SpendInit, RecordedWasPaid
<1>4. FiguresArePaid BY DEF SpendInit, FiguresArePaid
<1>5. IdleIsOff /\ \A h \in Handlers : Covered(work[h], Got(lane[h]), paid)
  BY DEF SpendInit, Covered, Idle, Holding, IdleIsOff
<1> QED BY <1>2, <1>3, <1>4, <1>5 DEF SpendInv

-----------------------------------------------------------------------------
(* The steps.                                                                  *)

\* A step that keeps the types, changes the work of one handler and forgets or asks a
\* figure keeps the invariant.
LEMMA SpendKeeps ==
  ASSUME SpendInv, SpendTyped', RecordedWasPaid', IdleIsOff', NEW h \in Handlers,
         \A c \in Cases : paid[c] <= paid'[c],
         \A g \in Handlers \ {h} : work'[g] = work[g] /\ lane'[g] = lane[g],
         Covered(work'[h], Got(lane'[h]), paid'),
         \A p \in Processes, t \in Tenants :
           cache'[p][t] \in {cache[p][t], NoFigure, sum_rollups(t)}
  PROVE  SpendInv'
<1>1. ASSUME NEW g \in Handlers PROVE Covered(work'[g], Got(lane'[g]), paid')
  <2>1. CASE g = h BY <2>1
  <2>2. CASE g # h
    <3> DEFINE w == work[g]
    <3>1. work'[g] = w /\ lane'[g] = lane[g] /\ w \in Works /\ lane[g] \in Calls
      BY <2>2 DEF SpendInv, SpendTyped
    <3>2. w.kind \in Holding => w.copy.cost \in Nat /\ w.case \in Cases
      BY <3>1, KindsApart DEF Docs
    <3>3. \A c \in Cases : paid[c] \in Nat /\ paid'[c] \in Nat BY DEF SpendInv, SpendTyped
    <3>4. Held(w.kind) \in Nat /\ Got(lane[g]) \in Nat BY DEF Held, Got, One
    <3>5. Covered(w, Got(lane[g]), paid) BY DEF SpendInv
    <3> HIDE DEF w
    <3> QED BY <3>1, <3>2, <3>3, <3>4, <3>5 DEF Covered
  <2> QED BY <2>1, <2>2
<1>2. FiguresArePaid'
  <2> SUFFICES ASSUME NEW p \in Processes, NEW t \in Tenants, cache'[p][t] # NoFigure
               PROVE  cache'[p][t] <= Bill(t)'
    BY DEF FiguresArePaid
  <2>1. Bill(t) \in Nat /\ Bill(t)' \in Nat /\ Bill(t) <= Bill(t)'
    BY BillsGrow DEF SpendInv, SpendTyped
  <2>2. sum_rollups(t) \in Nat /\ sum_rollups(t) <= Bill(t)
    BY SumsArePaid DEF SpendInv, SpendTyped
  <2>3. cache[p][t] \in Nat \cup {NoFigure} BY DEF SpendInv, SpendTyped
  <2>4. cache'[p][t] \in {cache[p][t], sum_rollups(t)} OBVIOUS
  <2>5. cache[p][t] # NoFigure => cache[p][t] <= Bill(t) BY DEF SpendInv, FiguresArePaid
  <2> QED BY <2>1, <2>2, <2>3, <2>4, <2>5
<1> QED BY <1>1, <1>2 DEF SpendInv

\* What a step may do to a cache: keep it, forget a figure, ask the store for one.
Asked == \/ UNCHANGED cache
         \/ \E p \in Processes, t \in Tenants : cache' = [cache EXCEPT ![p][t] = NoFigure]
         \/ \E p \in Processes, t \in Tenants : cache' = [cache EXCEPT ![p][t] = sum_rollups(t)]

LEMMA AskedIsTyped ==
  ASSUME SpendInv, Asked
  PROVE  /\ cache' \in [Processes -> [Tenants -> Nat \cup {NoFigure}]]
         /\ \A p \in Processes, t \in Tenants : cache'[p][t] \in {cache[p][t], NoFigure, sum_rollups(t)}
<1>1. \A t \in Tenants : sum_rollups(t) \in Nat BY SumsArePaid DEF SpendInv, SpendTyped
<1> QED BY <1>1 DEF Asked, SpendInv, SpendTyped

\* A call that is not off comes to another state, and is paid for if it is answered.
LEMMA LaneMoves ==
  ASSUME SpendInv, NEW h \in Handlers, NEW a \in Agents, NEW s \in LaneStates,
         lane[h][a] \notin {"off", "answered"}, lane' = [lane EXCEPT ![h][a] = s], UNCHANGED <<doc, work>>,
         Asked,
         paid' = IF work[h].kind = "direct" \/ s # "answered" THEN paid
                 ELSE [paid EXCEPT ![work[h].case] = @ + 1]
  PROVE  SpendInv'
<1> DEFINE w == work[h]
<1>1. w \in Works /\ lane[h] \in Calls BY DEF SpendInv, SpendTyped
<1>2. w.kind # "idle" BY DEF SpendInv, IdleIsOff
<1>3. w.kind # "direct" => w.case \in Cases BY <1>1, <1>2, KindsApart
<1>4. /\ paid' \in [Cases -> Nat] /\ \A c \in Cases : paid[c] <= paid'[c]
      /\ w.kind \in Holding => paid'[w.case] = paid[w.case] + One(s)
  BY <1>3 DEF SpendInv, SpendTyped, One, Holding
<1>5. lane' \in [Handlers -> Calls] /\ lane'[h] = [lane[h] EXCEPT ![a] = s]
      /\ \A g \in Handlers \ {h} : lane'[g] = lane[g]
  BY DEF SpendInv, SpendTyped, Calls
<1>6. SpendTyped' BY <1>4, <1>5, AskedIsTyped DEF SpendInv, SpendTyped
<1>7. RecordedWasPaid'
  <2>1. \A c \in Cases : doc[c].cost \in Nat /\ paid[c] \in Nat /\ paid'[c] \in Nat
    BY <1>4 DEF SpendInv, SpendTyped, Docs
  <2> QED BY <1>4, <2>1 DEF SpendInv, RecordedWasPaid
<1>8. IdleIsOff' BY <1>1, <1>5 DEF SpendInv, IdleIsOff, Calls
<1>9. Covered(w, Got(lane'[h]), paid')
  <2>1. Got(lane[h]) \in Nat /\ Got(lane'[h]) = Got(lane[h]) + One(s)
    BY <1>1, <1>5, OneMoreAnswer
  <2>2. Covered(w, Got(lane[h]), paid) BY DEF SpendInv
  <2>3. w.kind \in Holding => w.copy.cost \in Nat /\ paid[w.case] \in Nat
    BY <1>1, KindsApart DEF SpendInv, SpendTyped, Docs
  <2>4. Held(w.kind) \in Nat /\ One(s) \in Nat BY DEF Held, One
  <2> HIDE DEF w
  <2> QED BY <1>4, <2>1, <2>2, <2>3, <2>4 DEF Covered
<1> QED BY <1>4, <1>5, <1>6, <1>7, <1>8, <1>9, AskedIsTyped, SpendKeeps

LEMMA CallsKeep ==
  ASSUME SpendInv, NEW h \in Handlers, NEW a \in Agents,
         CheckCached(h, a) \/ CheckStored(h, a) \/ CheckBlind(h, a) \/ Reply(h, a) \/ GivesUp(h, a)
  PROVE  SpendInv'
<1>1. CASE CheckCached(h, a) \/ CheckStored(h, a) \/ CheckBlind(h, a) \/ GivesUp(h, a)
  <2>1. PICK s \in LaneStates \ {"answered"} : lane' = [lane EXCEPT ![h][a] = s]
    BY <1>1 DEF CheckCached, CheckStored, CheckBlind, GivesUp, Answered, LaneStates
  <2>2. lane[h][a] \in {"due", "open"} BY <1>1 DEF CheckCached, CheckStored, CheckBlind, GivesUp
  <2>3. RunsIn[h] \in Processes /\ work[h].tenant \in Tenants
    BY <2>2, SpendConstants, KindsApart DEF SpendInv, SpendTyped, IdleIsOff
  <2>4. Asked BY <1>1, <2>3 DEF CheckCached, CheckStored, CheckBlind, GivesUp, Asked
  <2>5. UNCHANGED <<doc, work, paid>> BY <1>1 DEF CheckCached, CheckStored, CheckBlind, GivesUp
  <2> QED BY <2>1, <2>2, <2>4, <2>5, LaneMoves
<1>2. CASE Reply(h, a)
  <2>1. lane' = [lane EXCEPT ![h][a] = "answered"] /\ "answered" \in LaneStates
        /\ lane[h][a] = "open"
    BY <1>2 DEF Reply, LaneStates
  <2>2. UNCHANGED <<doc, work>> /\ Asked BY <1>2 DEF Reply, Asked
  <2>3. paid' = IF work[h].kind = "direct" THEN paid ELSE [paid EXCEPT ![work[h].case] = @ + 1]
    BY <1>2 DEF Reply
  <2> QED BY <2>1, <2>2, <2>3, LaneMoves
<1> QED BY <1>1, <1>2

\* A handler goes on to another piece of work, with a copy that is paid for; what it
\* writes on its way is paid for too.
LEMMA StartKeeps ==
  ASSUME SpendInv, NEW h \in Handlers, NEW w \in Works, NEW agents \in SUBSET Agents,
         Starts(h, w, agents), Covered(w, 0, paid),
         w.kind = "idle" => agents = {}, w.kind = "direct" => agents \subseteq {"fraud"},
         doc' \in [Cases -> Docs], \A c \in Cases : doc'[c].cost <= paid[c],
         UNCHANGED paid, Asked
  PROVE  SpendInv'
<1>1. /\ work' = [work EXCEPT ![h] = w]
      /\ lane' = [lane EXCEPT ![h] = [a \in Agents |-> IF a \in agents THEN "due" ELSE "off"]]
  BY DEF Starts
<1>2. SpendTyped' BY <1>1, AskedIsTyped DEF SpendInv, SpendTyped, LaneStates, Calls
<1>3. IdleIsOff' BY <1>1 DEF SpendInv, SpendTyped, IdleIsOff
<1>4. work'[h] = w /\ lane'[h] = [a \in Agents |-> IF a \in agents THEN "due" ELSE "off"]
      /\ \A g \in Handlers \ {h} : work'[g] = work[g] /\ lane'[g] = lane[g]
  BY <1>1 DEF SpendInv, SpendTyped
<1>5. Got(lane'[h]) = 0 BY <1>4 DEF Got, One, Agents
<1>6. \A c \in Cases : paid[c] <= paid'[c] BY DEF SpendInv, SpendTyped
<1>7. RecordedWasPaid' BY DEF RecordedWasPaid
<1> QED BY <1>2, <1>3, <1>4, <1>5, <1>6, <1>7, AskedIsTyped, SpendKeeps

LEMMA DocsStay == ASSUME SpendInv, UNCHANGED doc
                  PROVE  doc' \in [Cases -> Docs] /\ \A c \in Cases : doc'[c].cost <= paid[c]
BY DEF SpendInv, SpendTyped, RecordedWasPaid

LEMMA BeginningsKeep ==
  ASSUME SpendInv, NEW h \in Handlers,
         Advance(h) \/ DeepReview(h) \/ Upload(h) \/ Direct(h)
  PROVE  SpendInv'
<1>0. UNCHANGED <<doc, paid>> /\ Asked BY DEF Advance, DeepReview, Upload, Direct, Asked
<1>1. ASSUME NEW w \in Works, w.kind # "idle", Covered(w, 0, paid), NEW agents \in SUBSET Agents,
             w.kind = "direct" => agents \subseteq {"fraud"}, Starts(h, w, agents)
      PROVE  SpendInv'
  BY <1>0, <1>1, DocsStay, StartKeeps
<1>2. ASSUME NEW c \in Cases, NEW k \in {"specialists", "investigation", "review"}
      PROVE  Work(k, c, Owner[c]) \in Works /\ Covered(Work(k, c, Owner[c]), 0, paid)
             /\ Work(k, c, Owner[c]).kind = k
  BY <1>2, SpendConstants
     DEF Work, Works, Covered, Held, SpendInv, SpendTyped, RecordedWasPaid, Docs, Holding
<1>3. CASE Advance(h) \/ DeepReview(h)
  <2>1. PICK c \in Cases, k \in {"specialists", "investigation", "review"}, agents \in SUBSET Agents :
          Starts(h, Work(k, c, Owner[c]), agents)
    BY <1>3 DEF Advance, DeepReview, Agents
  <2> DEFINE w == Work(k, c, Owner[c])
  <2>2. w \in Works /\ Covered(w, 0, paid) /\ w.kind = k BY <1>2
  <2>3. Starts(h, w, agents) BY <2>1
  <2> HIDE DEF w
  <2> QED BY <1>1, <2>2, <2>3
<1>4. CASE Upload(h)
  <2> DEFINE new(c) == [kind |-> "upload", case |-> c, tenant |-> Owner[c], copy |-> CaseDoc("INGESTED")]
  <2>1. PICK c \in Cases : Starts(h, new(c), {"document_intake"}) BY <1>4 DEF Upload
  <2> DEFINE w == new(c)
  <2>2. CaseDoc("INGESTED") \in Docs /\ CaseDoc("INGESTED").cost = 0 BY DEF CaseDoc, Docs, CaseStates
  <2>3. w \in Works /\ w.kind = "upload" /\ w.case = c /\ w.copy = CaseDoc("INGESTED")
    BY <2>2, SpendConstants DEF Works, Holding
  <2>4. Covered(w, 0, paid) BY <2>2, <2>3 DEF Covered, Held, SpendInv, SpendTyped
  <2>5. Starts(h, w, {"document_intake"}) /\ {"document_intake"} \in SUBSET Agents
    BY <2>1 DEF Agents
  <2> HIDE DEF w
  <2> QED BY <1>1, <2>3, <2>4, <2>5
<1>5. CASE Direct(h)
  <2> DEFINE w == [kind |-> "direct", tenant |-> SINGLE_TENANT_ID]
  <2>1. w \in Works /\ Covered(w, 0, paid) /\ w.kind = "direct"
    BY SpendConstants DEF Works, Covered, Holding
  <2>2. Starts(h, w, {"fraud"}) /\ {"fraud"} \in SUBSET Agents BY <1>5 DEF Direct, Agents
  <2> HIDE DEF w
  <2> QED BY <1>1, <2>1, <2>2
<1> QED BY <1>3, <1>4, <1>5

\* What is recorded is what the handler has got.
LEMMA RecordKeeps ==
  ASSUME SpendInv, NEW h \in Handlers, work[h].kind \in Holding, NEW agents,
         Cardinality(agents) \in Nat, Cardinality(agents) <= Held(work[h].kind) + Got(lane[h]),
         NEW then \in Holding \ {"classifying"}, NEW due \in SUBSET Agents,
         RecordSteps(h, agents, then, due), UNCHANGED <<doc, paid>>
  PROVE  SpendInv'
<1> DEFINE n == Cardinality(agents)
           copy == [work[h].copy EXCEPT !.cost = @ + n]
           w == [work[h] EXCEPT !.copy.cost = @ + n, !.kind = then]
<1>1. Starts(h, w, due) BY DEF RecordSteps, Starts, SpendInv, SpendTyped
<1> HIDE DEF n
<1>2. n \in Nat /\ n <= Held(work[h].kind) + Got(lane[h]) BY DEF n
<1>3. /\ work[h] \in Works /\ work[h].case \in Cases /\ work[h].copy \in Docs /\ work[h].tenant \in Tenants
      /\ Covered(work[h], Got(lane[h]), paid)
  BY KindsApart DEF SpendInv, SpendTyped
<1>4. copy \in Docs /\ copy.cost = work[h].copy.cost + n BY <1>2, <1>3 DEF Docs
<1>5. w.kind = then /\ w.case = work[h].case /\ w.copy = copy
      /\ w = [work[h] EXCEPT !.kind = then, !.copy = copy]
  BY <1>3 DEF Works, Holding
<1> HIDE DEF w, copy
<1>6. w \in Works
  <2>1. then \in Holding /\ work[h].kind \in Holding OBVIOUS
  <2>2. [work[h] EXCEPT !.kind = then, !.copy = copy] \in Works BY <1>3, <1>4, <2>1, KindsApart
  <2> QED BY <1>5, <2>2
<1>7. Covered(w, 0, paid)
  <2>1. Held(then) = 0 /\ Held(work[h].kind) \in Nat /\ Got(lane[h]) \in Nat BY DEF Held, Got, One
  <2>2. work[h].copy.cost \in Nat /\ paid[work[h].case] \in Nat BY <1>3 DEF Docs, SpendInv, SpendTyped
  <2> QED BY <1>2, <1>3, <1>4, <1>5, <2>1, <2>2 DEF Covered
<1>8. RunsIn[h] \in Processes BY SpendConstants
<1>9. Asked BY <1>3, <1>8 DEF RecordSteps, Asked
<1>10. w.kind # "idle" /\ w.kind # "direct" BY <1>5 DEF Holding
<1> QED BY <1>1, <1>6, <1>7, <1>9, <1>10, DocsStay, StartKeeps

\* The transition goes on with the same copy, having left no answer unrecorded.
LEMMA GoesOnKeeps ==
  ASSUME SpendInv, NEW h \in Handlers, work[h].kind \in Holding, NEW kind \in Holding,
         Held(kind) <= Held(work[h].kind) + Got(lane[h]),
         NEW due \in SUBSET Agents, Starts(h, [work[h] EXCEPT !.kind = kind], due),
         UNCHANGED <<doc, paid, cache>>
  PROVE  SpendInv'
<1> DEFINE w == [work[h] EXCEPT !.kind = kind]
<1>1. work[h] \in Works /\ work[h].copy \in Docs /\ work[h].case \in Cases
      /\ Covered(work[h], Got(lane[h]), paid)
  BY KindsApart DEF SpendInv, SpendTyped
<1>2. w \in Works BY <1>1, KindsApart
<1>3. w.kind = kind /\ w.case = work[h].case /\ w.copy = work[h].copy
  BY <1>1 DEF Works, Holding
<1>4. Starts(h, w, due) OBVIOUS
<1> HIDE DEF w
<1>5. Covered(w, 0, paid)
  <2>1. Held(kind) \in Nat /\ Held(work[h].kind) \in Nat /\ Got(lane[h]) \in Nat BY DEF Held, Got, One
  <2>2. work[h].copy.cost \in Nat /\ paid[work[h].case] \in Nat BY <1>1 DEF Docs, SpendInv, SpendTyped
  <2> QED BY <1>1, <1>3, <2>1, <2>2 DEF Covered
<1>6. w.kind # "idle" /\ w.kind # "direct" BY <1>3 DEF Holding
<1>7. Asked BY DEF Asked
<1> QED BY <1>2, <1>4, <1>5, <1>6, <1>7, DocsStay, StartKeeps

LEMMA SizesOfSteps ==
  /\ \A x : Cardinality({x}) = 1
  /\ Cardinality({"fraud", "compliance"}) = 2
  /\ Cardinality({"fraud", "compliance", "hs_classifier"}) = 3
<1>1. \A x : IsFiniteSet({x}) /\ Cardinality({x}) = 1 BY FS_Singleton
<1>2. IsFiniteSet({"fraud", "compliance"}) /\ Cardinality({"fraud", "compliance"}) = 2
  <2>1. {"fraud", "compliance"} = {"fraud"} \cup {"compliance"} OBVIOUS
  <2>2. IsFiniteSet({"fraud"}) /\ Cardinality({"fraud"}) = 1 /\ "compliance" \notin {"fraud"} BY <1>1
  <2>3. 1 + 1 = 2 OBVIOUS
  <2> QED BY <2>1, <2>2, <2>3, FS_AddElement
<1>3. Cardinality({"fraud", "compliance", "hs_classifier"}) = 3
  <2>1. {"fraud", "compliance", "hs_classifier"} = {"fraud", "compliance"} \cup {"hs_classifier"} OBVIOUS
  <2>2. "hs_classifier" \notin {"fraud", "compliance"} /\ 2 + 1 = 3 OBVIOUS
  <2> QED BY <1>2, <2>1, <2>2, FS_AddElement
<1> QED BY <1>1, <1>2, <1>3

LEMMA StepsKeep ==
  ASSUME SpendInv, NEW h \in Handlers,
         Gathered(h) \/ Classified(h) \/ Debated(h) \/ Investigated(h)
  PROVE  SpendInv'
<1>1. UNCHANGED <<doc, paid>> BY DEF Gathered, Classified, Debated, Investigated
<1>2. work[h].kind \in Holding BY DEF Gathered, Classified, Debated, Investigated, Holding
<1>3. /\ \A a \in Agents : One(lane[h][a]) \in Nat /\ (lane[h][a] = "answered" => One(lane[h][a]) = 1)
      /\ Got(lane[h]) \in Nat
  BY DEF One, Got
<1>4. Agents = {"fraud", "compliance", "hs_classifier", "debate", "investigation", "document_intake"}
  BY DEF Agents
<1>5. ASSUME NEW agents, Cardinality(agents) \in Nat,
             Cardinality(agents) <= Held(work[h].kind) + Got(lane[h]), Scored(h, agents)
      PROVE  SpendInv'
  BY <1>1, <1>2, <1>4, <1>5, RecordKeeps DEF Scored, Holding
<1>6. CASE Gathered(h)
  <2>1. lane[h]["fraud"] = "answered" /\ lane[h]["compliance"] = "answered" /\ Held(work[h].kind) = 0
    BY <1>6 DEF Gathered, Held
  <2>2. Got(lane[h]) >= 2
    BY <1>3, <1>4, <2>1 DEF Got
  <2>3. CASE Scored(h, {"fraud", "compliance"}) BY <1>3, <1>5, <2>1, <2>2, <2>3, SizesOfSteps
  <2>4. CASE Starts(h, [work[h] EXCEPT !.kind = "classifying"], {"hs_classifier"}) /\ UNCHANGED cache
    <3>1. "classifying" \in Holding /\ {"hs_classifier"} \in SUBSET Agents /\ Held("classifying") = 2
      BY DEF Holding, Agents, Held
    <3>2. Held("classifying") <= Held(work[h].kind) + Got(lane[h]) BY <1>3, <2>1, <2>2, <3>1
    <3> QED BY <1>1, <1>2, <2>4, <3>1, <3>2, GoesOnKeeps
  <2> QED BY <1>6, <2>3, <2>4 DEF Gathered
<1>7. CASE Classified(h)
  <2> DEFINE late == {a \in {"hs_classifier"} : lane[h][a] = "answered"}
  <2>1. Held(work[h].kind) = 2 /\ Scored(h, {"fraud", "compliance"} \cup late)
    BY <1>7 DEF Classified, Held
  <2>2. CASE lane[h]["hs_classifier"] = "answered"
    <3>1. {"fraud", "compliance"} \cup late = {"fraud", "compliance", "hs_classifier"} BY <2>2
    <3>2. Got(lane[h]) >= 1 BY <1>3, <1>4, <2>2 DEF Got
    <3> QED BY <1>3, <1>5, <2>1, <3>1, <3>2, SizesOfSteps
  <2>3. CASE lane[h]["hs_classifier"] # "answered"
    <3>1. {"fraud", "compliance"} \cup late = {"fraud", "compliance"} BY <2>3
    <3> QED BY <1>3, <1>5, <2>1, <3>1, SizesOfSteps
  <2> QED BY <2>2, <2>3
<1>8. CASE Debated(h)
  <2>0. "saving" \in Holding \ {"classifying"} /\ {} \in SUBSET Agents
        /\ Held("saving") = 0 /\ Held(work[h].kind) = 0
    BY <1>8 DEF Holding, Held, Debated
  <2>1. CASE lane[h]["debate"] = "answered" /\ RecordSteps(h, {"debate"}, "saving", {})
    <3>1. Got(lane[h]) >= 1 BY <1>3, <1>4, <2>1 DEF Got
    <3>c. Cardinality({"debate"}) = 1 BY SizesOfSteps
    <3>g. Got(lane[h]) \in Nat BY <1>3
    <3>2. Cardinality({"debate"}) \in Nat /\ Cardinality({"debate"}) <= Held(work[h].kind) + Got(lane[h])
      BY <2>0, <3>1, <3>c, <3>g
    <3> QED BY <1>1, <1>2, <2>0, <2>1, <3>2, RecordKeeps
  <2>2. CASE Starts(h, [work[h] EXCEPT !.kind = "saving"], {}) /\ UNCHANGED cache
    BY <1>1, <1>2, <1>3, <2>0, <2>2, GoesOnKeeps
  <2> QED BY <1>8, <2>1, <2>2 DEF Debated
<1>9. CASE Investigated(h)
  <2>0. "saving" \in Holding \ {"classifying"} /\ {} \in SUBSET Agents /\ Held(work[h].kind) = 0
    BY <1>9 DEF Holding, Held, Investigated
  <2>1. lane[h]["investigation"] = "answered" /\ RecordSteps(h, {"investigation"}, "saving", {})
    BY <1>9 DEF Investigated
  <2>2. Got(lane[h]) >= 1 BY <1>3, <1>4, <2>1 DEF Got
  <2>c. Cardinality({"investigation"}) = 1 BY SizesOfSteps
  <2>g. Got(lane[h]) \in Nat BY <1>3
  <2>3. /\ Cardinality({"investigation"}) \in Nat
        /\ Cardinality({"investigation"}) <= Held(work[h].kind) + Got(lane[h])
    BY <2>0, <2>2, <2>c, <2>g
  <2> QED BY <1>1, <1>2, <2>0, <2>1, <2>3, RecordKeeps
<1> QED BY <1>6, <1>7, <1>8, <1>9

\* A versioned write of what was paid for.
LEMMA PutsArePaid ==
  ASSUME SpendInv, NEW h \in Handlers, work[h].kind \in Holding, NEW new \in Docs,
         new.cost <= paid[work[h].case], Puts(h, new)
  PROVE  doc' \in [Cases -> Docs] /\ \A c \in Cases : doc'[c].cost <= paid[c]
<1>1. CASE ~Current(h) BY <1>1, DocsStay DEF Puts
<1>2. CASE Current(h)
  <2> DEFINE put == [new EXCEPT !.version = @ + 1]
  <2>1. put \in Docs /\ put.cost = new.cost BY DEF Docs
  <2>2. doc' = [doc EXCEPT ![work[h].case] = put] BY <1>2 DEF Puts
  <2> HIDE DEF put
  <2> QED BY <2>1, <2>2 DEF SpendInv, SpendTyped, RecordedWasPaid
<1> QED BY <1>1, <1>2

\* The piece of work is over, with what it wrote or without.
LEMMA LeavesKeep ==
  ASSUME SpendInv, NEW h \in Handlers, Leaves(h), work[h].kind # "idle",
         work[h].kind = "direct" => Silent(h),
         doc' \in [Cases -> Docs], \A c \in Cases : doc'[c].cost <= paid[c], UNCHANGED paid, Asked
  PROVE  SpendInv'
<1>1. CASE Silent(h)
  <2> DEFINE w == Idle
  <2>1. Starts(h, w, {}) BY <1>1 DEF Leaves
  <2>2. w \in Works /\ w.kind = "idle" /\ Covered(w, 0, paid) BY DEF Idle, Works, Covered, Holding
  <2> HIDE DEF w
  <2> QED BY <2>1, <2>2, StartKeeps
<1>2. CASE ~Silent(h)
  <2>1. work[h] \in Works /\ work[h].case \in Cases /\ work[h].tenant \in Tenants
    BY <1>2, KindsApart DEF SpendInv, SpendTyped
  <2>2. Over(work[h]) \in Works /\ Over(work[h]).kind = "over" BY <2>1 DEF Over, Works
  <2>3. work' = [work EXCEPT ![h] = Over(work[h])] /\ lane' = lane BY <1>2 DEF Leaves
  <2>4. SpendTyped' BY <2>2, <2>3, AskedIsTyped DEF SpendInv, SpendTyped
  <2>5. IdleIsOff' BY <2>2, <2>3 DEF SpendInv, SpendTyped, IdleIsOff
  <2>6. Covered(work'[h], Got(lane'[h]), paid')
    BY <2>2, <2>3 DEF Covered, Holding, SpendInv, SpendTyped
  <2>7. \A g \in Handlers \ {h} : work'[g] = work[g] /\ lane'[g] = lane[g]
    BY <2>3 DEF SpendInv, SpendTyped
  <2>8. RecordedWasPaid' /\ \A c \in Cases : paid[c] <= paid'[c]
    BY DEF RecordedWasPaid, SpendInv, SpendTyped
  <2> QED BY <2>4, <2>5, <2>6, <2>7, <2>8, AskedIsTyped, SpendKeeps
<1> QED BY <1>1, <1>2

\* A copy is paid for, and so is what a failure or the next state makes of it.
LEMMA CopiesArePaid ==
  ASSUME SpendInv, NEW h \in Handlers, work[h].kind \in Holding
  PROVE  /\ work[h].copy \in Docs /\ work[h].case \in Cases /\ paid[work[h].case] \in Nat
         /\ work[h].copy.cost \in Nat
         /\ work[h].copy.cost + Got(lane[h]) <= paid[work[h].case]
<1>1. work[h].copy \in Docs /\ work[h].case \in Cases /\ Covered(work[h], Got(lane[h]), paid)
  BY KindsApart DEF SpendInv, SpendTyped
<1>2. work[h].copy.cost \in Nat /\ paid[work[h].case] \in Nat BY <1>1 DEF Docs, SpendInv, SpendTyped
<1>3. Held(work[h].kind) \in Nat /\ Got(lane[h]) \in Nat BY DEF Held, Got, One
<1> QED BY <1>1, <1>2, <1>3 DEF Covered

LEMMA FailedWrites ==
  ASSUME NEW copy \in Docs
  PROVE  failed(copy) \in Docs /\ failed(copy).cost = copy.cost
<1> DEFINE s == IF copy.attempts + 1 >= MAX_ATTEMPTS THEN "DEAD_LETTER" ELSE copy.state
<1>1. s \in CaseStates BY DEF Docs, CaseStates
<1>2. failed(copy) = [copy EXCEPT !.attempts = @ + 1, !.state = s] BY DEF failed, Docs
<1>3. copy.attempts + 1 \in Nat BY DEF Docs
<1> HIDE DEF s
<1>4. failed(copy) = [state |-> s, version |-> copy.version, cost |-> copy.cost,
                      attempts |-> copy.attempts + 1]
  BY <1>2 DEF Docs
<1> QED BY <1>1, <1>3, <1>4 DEF Docs

LEMMA EndsKeep ==
  ASSUME SpendInv, NEW h \in Handlers, Commit(h) \/ Fail(h) \/ Reviewed(h) \/ Returned(h)
  PROVE  SpendInv'
<1>1. work[h].kind # "idle" /\ UNCHANGED paid /\ Leaves(h)
  BY DEF Commit, Fail, Reviewed, Returned
<1>2. work[h].kind = "direct" => Silent(h)
  <2>1. ASSUME work[h].kind = "direct" PROVE Silent(h)
    BY <2>1 DEF Commit, Fail, Reviewed, Returned, Silent, SpendInv, IdleIsOff
  <2> QED BY <2>1
<1>3. Asked
  <2>1. RunsIn[h] \in Processes /\ work[h].tenant \in Tenants
    BY <1>1, SpendConstants, KindsApart DEF SpendInv, SpendTyped
  <2> QED BY <2>1 DEF Commit, Fail, Reviewed, Returned, Asked
<1>4. doc' \in [Cases -> Docs] /\ \A c \in Cases : doc'[c].cost <= paid[c]
  <2> DEFINE copy == work[h].copy
  <2>0. Got(lane[h]) \in Nat /\ (lane[h]["debate"] = "answered" => Got(lane[h]) >= 1) BY DEF Got, One
  <2>1. CASE Commit(h)
    <3> DEFINE new == [copy EXCEPT !.state = next(@)]
    <3>0. work[h].kind \in Holding BY <2>1 DEF Commit, Holding
    <3>1. new \in Docs /\ new.cost = copy.cost BY <3>0, CopiesArePaid DEF Docs, next, CaseStates
    <3>2. new.cost <= paid[work[h].case] BY <2>0, <3>0, <3>1, CopiesArePaid
    <3>3. Puts(h, new) BY <2>1 DEF Commit
    <3> HIDE DEF new
    <3> QED BY <3>0, <3>1, <3>2, <3>3, PutsArePaid
  <2>2. CASE Fail(h)
    <3> DEFINE new == failed(copy)
    <3>0. work[h].kind \in Holding BY <2>2 DEF Fail, Holding
    <3>1. new \in Docs /\ new.cost = copy.cost BY <3>0, CopiesArePaid, FailedWrites
    <3>2. new.cost <= paid[work[h].case] BY <2>0, <3>0, <3>1, CopiesArePaid
    <3>3. Puts(h, new) BY <2>2 DEF Fail
    <3> HIDE DEF new
    <3> QED BY <3>0, <3>1, <3>2, <3>3, PutsArePaid
  <2>3. CASE Reviewed(h)
    <3> DEFINE new == [copy EXCEPT !.cost = @ + 1]
    <3>0. work[h].kind \in Holding BY <2>3 DEF Reviewed, Holding
    <3>1. new \in Docs /\ new.cost = copy.cost + 1 BY <3>0, CopiesArePaid DEF Docs
    <3>2. CASE UNCHANGED doc BY <3>2, DocsStay
    <3>3. CASE lane[h]["debate"] = "answered" /\ Puts(h, new)
      <4>1. new.cost <= paid[work[h].case] BY <2>0, <3>0, <3>1, <3>3, CopiesArePaid
      <4> HIDE DEF new
      <4> QED BY <3>0, <3>1, <3>3, <4>1, PutsArePaid
    <3> QED BY <2>3, <3>2, <3>3 DEF Reviewed
  <2>4. CASE Returned(h) BY <2>4, DocsStay DEF Returned
  <2> QED BY <2>1, <2>2, <2>3, <2>4
<1> QED BY <1>1, <1>2, <1>3, <1>4, LeavesKeep

\* What an intake writes, comparing nothing, is paid for as well.
LEMMA ReplacesArePaid ==
  ASSUME SpendInv, NEW h \in Handlers, work[h].kind \in Holding, Replaces(h)
  PROVE  doc' \in [Cases -> Docs] /\ \A c \in Cases : doc'[c].cost <= paid[c]
<1> DEFINE put == [work[h].copy EXCEPT !.version = 1]
<1>1. put \in Docs /\ put.cost = work[h].copy.cost BY CopiesArePaid DEF Docs
<1>2. doc' = [doc EXCEPT ![work[h].case] = put] BY DEF Replaces
<1>3. Got(lane[h]) \in Nat BY DEF Got, One
<1>4. put.cost <= paid[work[h].case] BY <1>1, <1>3, CopiesArePaid
<1> HIDE DEF put
<1> QED BY <1>1, <1>2, <1>4 DEF SpendInv, SpendTyped, RecordedWasPaid

LEMMA IntakeKeeps ==
  ASSUME SpendInv, NEW h \in Handlers, Uploaded(h) \/ Opens(h) \/ Flags(h)
  PROVE  SpendInv'
<1>0. work[h].kind \in Holding /\ work[h] \in Works /\ work[h].case \in Cases /\ work[h].copy \in Docs
      /\ UNCHANGED paid /\ Asked /\ work[h].kind # "idle" /\ work[h].kind # "direct"
  BY KindsApart DEF Uploaded, Opens, Flags, Holding, Asked, SpendInv, SpendTyped
<1>1. CASE Uploaded(h)
  <2>1. CASE Leaves(h) BY <1>0, <1>1, <2>1, DocsStay, LeavesKeep DEF Uploaded
  <2>2. ASSUME lane[h]["document_intake"] = "answered",
               Starts(h, [work[h] EXCEPT !.kind = "opening", !.copy.cost = 1], {})
        PROVE  SpendInv'
    <3> DEFINE copy == [work[h].copy EXCEPT !.cost = 1]
               w == [work[h] EXCEPT !.kind = "opening", !.copy.cost = 1]
    <3>1. copy \in Docs /\ copy.cost = 1 BY <1>0 DEF Docs
    <3>2. w = [work[h] EXCEPT !.kind = "opening", !.copy = copy] BY <1>0 DEF Works, Holding
    <3>3. w.kind = "opening" /\ w.case = work[h].case /\ w.copy = copy
      BY <1>0, <3>2 DEF Works, Holding
    <3> HIDE DEF copy
    <3>4. w \in Works BY <1>0, <3>1, <3>2, KindsApart DEF Holding
    <3>5. Got(lane[h]) \in Nat /\ Got(lane[h]) >= 1 BY <2>2 DEF Got, One
    <3>6. 1 <= paid[work[h].case] BY <1>0, <3>5, CopiesArePaid
    <3>7. Covered(w, 0, paid)
      <4>1. Held("opening") = 0 BY DEF Held
      <4> QED BY <1>0, <3>1, <3>3, <3>6, <4>1, CopiesArePaid DEF Covered
    <3>8. Starts(h, w, {}) BY <2>2
    <3> HIDE DEF w
    <3> QED BY <1>0, <1>1, <3>3, <3>4, <3>7, <3>8, DocsStay, StartKeeps DEF Uploaded
  <2>3. ASSUME Starts(h, [work[h] EXCEPT !.kind = "flagging", !.copy = doc[work[h].case]], {})
        PROVE  SpendInv'
    <3> DEFINE copy == doc[work[h].case]
               w == [work[h] EXCEPT !.kind = "flagging", !.copy = copy]
    <3>1. copy \in Docs /\ copy.cost \in Nat /\ copy.cost <= paid[work[h].case]
      BY <1>0 DEF Docs, SpendInv, SpendTyped, RecordedWasPaid
    <3> HIDE DEF copy
    <3>2. w \in Works BY <1>0, <3>1, KindsApart DEF Holding
    <3>3. w.kind = "flagging" /\ w.case = work[h].case /\ w.copy = copy
      BY <1>0 DEF Works, Holding
    <3>4. Covered(w, 0, paid)
      <4>1. Held("flagging") = 0 BY DEF Held
      <4> QED BY <1>0, <3>1, <3>3, <4>1, CopiesArePaid DEF Covered
    <3>5. Starts(h, w, {}) BY <2>3 DEF copy
    <3> HIDE DEF w
    <3> QED BY <1>0, <1>1, <3>2, <3>3, <3>4, <3>5, DocsStay, StartKeeps DEF Uploaded
  <2> QED BY <1>1, <2>1, <2>2, <2>3 DEF Uploaded
<1>2. CASE Opens(h)
  <2> DEFINE w == [work[h] EXCEPT !.kind = "flagging"]
  <2>1. w \in Works /\ w.kind = "flagging" /\ w.case = work[h].case /\ w.copy = work[h].copy
    <3>1. "flagging" \in Holding BY DEF Holding
    <3>2. w \in Works BY <1>0, <3>1, KindsApart
    <3> QED BY <1>0, <3>2 DEF Works, Holding
  <2>2. work' = [work EXCEPT ![h] = w] /\ lane' = lane /\ Replaces(h)
    BY <1>2 DEF Opens, SpendInv, SpendTyped
  <2> HIDE DEF w
  <2>3. doc' \in [Cases -> Docs] /\ \A c \in Cases : doc'[c].cost <= paid[c]
    BY <1>0, <2>2, ReplacesArePaid
  <2>4. SpendTyped' BY <1>0, <2>1, <2>2, <2>3, AskedIsTyped DEF SpendInv, SpendTyped
  <2>5. IdleIsOff' BY <2>1, <2>2 DEF SpendInv, SpendTyped, IdleIsOff
  <2>6. Covered(work'[h], Got(lane'[h]), paid')
    <3>1. Held("flagging") = 0 /\ Got(lane[h]) \in Nat BY DEF Held, Got, One
    <3>2. work'[h] = w /\ lane'[h] = lane[h] /\ paid' = paid BY <1>0, <2>2 DEF SpendInv, SpendTyped
    <3> QED BY <1>0, <2>1, <3>1, <3>2, CopiesArePaid DEF Covered
  <2>7. \A g \in Handlers \ {h} : work'[g] = work[g] /\ lane'[g] = lane[g]
    BY <2>2 DEF SpendInv, SpendTyped
  <2>8. RecordedWasPaid' /\ \A c \in Cases : paid[c] <= paid'[c]
    BY <1>0, <2>3 DEF RecordedWasPaid, SpendInv, SpendTyped
  <2> QED BY <1>0, <2>4, <2>5, <2>6, <2>7, <2>8, AskedIsTyped, SpendKeeps
<1>3. CASE Flags(h)
  BY <1>0, <1>3, ReplacesArePaid, LeavesKeep DEF Flags
<1> QED BY <1>1, <1>2, <1>3

LEMMA DecideKeeps ==
  ASSUME SpendInv, NEW h \in Handlers, Decide(h)
  PROVE  SpendInv'
<1>1. PICK c \in Cases : doc' = [doc EXCEPT ![c].state = "HELD_FOR_REVIEW", ![c].version = @ + 1]
  BY DEF Decide
<1>2. doc' \in [Cases -> Docs] /\ \A b \in Cases : doc'[b].cost = doc[b].cost
  BY <1>1 DEF SpendInv, SpendTyped, Docs, CaseStates
<1>3. UNCHANGED <<cache, work, lane, paid>> BY DEF Decide
<1>4. SpendTyped' /\ IdleIsOff' /\ RecordedWasPaid'
  BY <1>2, <1>3 DEF SpendInv, SpendTyped, IdleIsOff, RecordedWasPaid
<1>5. Covered(work'[h], Got(lane'[h]), paid') BY <1>3 DEF SpendInv
<1>6. \A b \in Cases : paid[b] <= paid'[b] BY <1>3 DEF SpendInv, SpendTyped
<1> QED BY <1>3, <1>4, <1>5, <1>6, SpendKeeps

LEMMA SpendStep == SpendInv /\ [SpendNext]_spendVars => SpendInv'
<1> SUFFICES ASSUME SpendInv, [SpendNext]_spendVars PROVE SpendInv' OBVIOUS
<1>1. CASE UNCHANGED spendVars
  BY <1>1 DEF spendVars, SpendInv, SpendTyped, RecordedWasPaid, FiguresArePaid, IdleIsOff,
              Bill, Received, OwnedBy
<1>2. ASSUME NEW h \in Handlers, Proceed(h) PROVE SpendInv'
  BY <1>2, CallsKeep, StepsKeep, EndsKeep, IntakeKeeps DEF Proceed
<1>3. ASSUME NEW h \in Handlers, NEW a \in Agents, CheckBlind(h, a) \/ GivesUp(h, a) PROVE SpendInv'
  BY <1>3, CallsKeep
<1>4. ASSUME NEW h \in Handlers, Advance(h) \/ DeepReview(h) \/ Upload(h) \/ Direct(h) PROVE SpendInv'
  BY <1>4, BeginningsKeep
<1> QED BY <1>1, <1>2, <1>3, <1>4, DecideKeeps DEF SpendNext

LEMMA SpendIsKept == SpendSpec => []SpendInv
<1>1. SpendInv /\ [SpendNext]_spendVars => SpendInv' BY SpendStep
<1> QED BY <1>1, InitSpends, PTL DEF SpendSpec

\* No case bills a reply it did not get, whatever is retried, superseded or taken in anew.
THEOREM BillsAreOwed == SpendSpec => []RecordedWasPaid
<1>1. SpendInv => RecordedWasPaid BY DEF SpendInv
<1> QED BY <1>1, SpendIsKept, PTL

\* Each refusal is of a tenant for whose cases replies up to the ceiling were paid,
\* whatever figure the process had kept and whatever an intake took off the store since.
THEOREM RefusalsAreEarned == SpendSpec => RefusedOnlyWhenSpent
<1> DEFINE A == \A h \in Handlers, a \in Agents :
                  lane'[h][a] = "refused" /\ lane[h][a] = "due"
                    => Cardinality(Received(OwnedBy(work[h].tenant))) >= Ceiling
<1>1. SpendInv /\ [SpendNext]_spendVars => A
  <2> SUFFICES ASSUME SpendInv, [SpendNext]_spendVars, NEW h \in Handlers, NEW a \in Agents,
                      lane'[h][a] = "refused", lane[h][a] = "due"
               PROVE  Bill(work[h].tenant) >= Ceiling
    BY DEF Bill
  <2>1. /\ work[h].tenant \in Tenants /\ RunsIn[h] \in Processes
        /\ sum_rollups(work[h].tenant) \in Nat /\ Bill(work[h].tenant) \in Nat
        /\ sum_rollups(work[h].tenant) <= Bill(work[h].tenant)
    <3>1. work[h].tenant \in Tenants BY KindsApart DEF SpendInv, SpendTyped, IdleIsOff
    <3> QED BY <3>1, SpendConstants, SumsArePaid DEF SpendInv, SpendTyped
  <2>2. CheckCached(h, a) \/ CheckStored(h, a) \/ CheckBlind(h, a)
    <3>1. \A g \in Handlers, b \in Agents : lane[g][b] \in LaneStates /\ DOMAIN lane[g] = Agents
      BY DEF SpendInv, SpendTyped, Calls
    <3>2. ASSUME NEW g \in Handlers, NEW w, NEW due, Starts(g, w, due) PROVE FALSE
      BY <3>2 DEF Starts, SpendInv, SpendTyped
    <3>3. ASSUME NEW g \in Handlers, Leaves(g) PROVE FALSE
      BY <3>2, <3>3 DEF Leaves
    <3>4. ASSUME NEW g \in Handlers, NEW b, NEW due, NEW then, RecordSteps(g, b, then, due) PROVE FALSE
      BY <3>4 DEF RecordSteps, SpendInv, SpendTyped
    <3>5. ASSUME NEW g \in Handlers, NEW b, Scored(g, b) PROVE FALSE BY <3>4, <3>5 DEF Scored
    <3>6. ~UNCHANGED lane OBVIOUS
    <3>7. ASSUME NEW g \in Handlers, NEW b \in Agents,
                 Reply(g, b) \/ GivesUp(g, b)
          PROVE  FALSE
      BY <3>7 DEF Reply, GivesUp, SpendInv, SpendTyped, Calls
    <3>8. ASSUME NEW g \in Handlers, NEW b \in Agents,
                 CheckCached(g, b) \/ CheckStored(g, b) \/ CheckBlind(g, b)
          PROVE  g = h /\ b = a
      <4>1. \E x : lane' = [lane EXCEPT ![g][b] = x]
        BY <3>8 DEF CheckCached, CheckStored, CheckBlind, Answered
      <4> QED BY <4>1 DEF SpendInv, SpendTyped, Calls
    <3>9. ASSUME NEW g \in Handlers, Gathered(g) \/ Classified(g) \/ Debated(g) \/ Investigated(g)
          PROVE  FALSE
      BY <3>2, <3>4, <3>5, <3>9 DEF Gathered, Classified, Debated, Investigated
    <3>10. ASSUME NEW g \in Handlers,
                  \/ Commit(g) \/ Fail(g) \/ Reviewed(g) \/ Returned(g)
                  \/ Uploaded(g) \/ Opens(g) \/ Flags(g)
           PROVE  FALSE
      BY <3>2, <3>3, <3>6, <3>10 DEF Commit, Fail, Reviewed, Returned, Uploaded, Opens, Flags
    <3>11. ASSUME NEW g \in Handlers, Advance(g) \/ DeepReview(g) \/ Upload(g) \/ Direct(g) \/ Decide(g)
           PROVE  FALSE
      BY <3>2, <3>6, <3>11 DEF Advance, DeepReview, Upload, Direct, Decide
    <3>12. ~UNCHANGED spendVars BY <3>6 DEF spendVars
    <3> QED BY <3>7, <3>8, <3>9, <3>10, <3>11, <3>12 DEF SpendNext, Proceed
  <2>3. CASE CheckCached(h, a)
    <3>1. ~Within(kept(h)) /\ kept(h) # NoFigure
      BY <2>3 DEF CheckCached, Answered, SpendInv, SpendTyped, Calls
    <3>2. kept(h) \in Nat /\ kept(h) <= Bill(work[h].tenant)
      BY <2>1, <3>1 DEF kept, SpendInv, SpendTyped, FiguresArePaid
    <3> QED BY <2>1, <3>1, <3>2, SpendConstants DEF Within
  <2>4. CASE CheckStored(h, a)
    <3>1. ~Within(sum_rollups(work[h].tenant))
      BY <2>4 DEF CheckStored, Answered, SpendInv, SpendTyped, Calls
    <3> QED BY <2>1, <3>1, SpendConstants DEF Within
  <2>5. CASE CheckBlind(h, a)
    <3>1. ~Within(0) BY <2>5 DEF CheckBlind, Answered, SpendInv, SpendTyped, Calls
    <3> QED BY <3>1, SpendConstants DEF Within
  <2> QED BY <2>2, <2>3, <2>4, <2>5
<1>2. SpendSpec => [][A]_spendVars BY <1>1, SpendIsKept, PTL DEF SpendSpec
<1> QED BY <1>2 DEF RefusedOnlyWhenSpent

-----------------------------------------------------------------------------
(* The agents with tools.  What the search cache holds and what a model says   *)
(* may be anything: the records are only known by their fields.                *)

LookFields == {"todo", "statuses", "results", "hits", "billable", "told"}
TalkFields == {"round", "calls", "searches"}
CaseFields == {"verdict", "searched", "risk", "escalated"}

\* Every counterparty on the record has its lookup before it or its status behind it.
LookInv(l, stage, names, credits) ==
  /\ DOMAIN l = LookFields
  /\ l.todo \in Seq(Names) /\ l.statuses \in Seq({"ok", "failed"})
  /\ l.billable \in Nat /\ l.billable = credits
  /\ stage \in {"lookup", "asked"} => Len(l.todo) + Len(l.statuses) = Len(names)
  /\ stage = "asked" => l.todo # <<>>

ToolsTyped ==
  /\ DOMAIN at = Dossiers /\ DOMAIN look = Dossiers /\ DOMAIN spent = Dossiers
  /\ DOMAIN zero_day = Dossiers /\ DOMAIN case = Dossiers
  /\ \A c \in Dossiers : /\ DOMAIN zero_day[c] = TalkFields
                         /\ DOMAIN case[c] = CaseFields /\ case[c].risk \in Nat

AgentsInv == /\ ToolsTyped
             /\ \A c \in Dossiers : LookInv(look[c], at[c], Named[c], spent[c])

LEMMA FirstLook ==
  ASSUME NEW names \in Seq(Names)
  PROVE  LookInv([NoLook EXCEPT !.todo = names], "lookup", names, 0)
<1> DEFINE l == [NoLook EXCEPT !.todo = names]
<1>1. /\ DOMAIN l = LookFields /\ l.todo = names /\ l.statuses = <<>> /\ l.billable = 0
  BY DEF NoLook, LookFields
<1>2. <<>> \in Seq({"ok", "failed"}) /\ Len(<<>>) = 0 /\ Len(names) \in Nat OBVIOUS
<1> HIDE DEF l
<1>3. Len(l.todo) + Len(l.statuses) = Len(names) BY <1>1, <1>2
<1>4. LookInv(l, "lookup", names, 0) BY <1>1, <1>2, <1>3 DEF LookInv
<1> QED BY <1>4 DEF l

LEMMA InitTools == AgentsInit => AgentsInv
<1> SUFFICES ASSUME AgentsInit PROVE AgentsInv OBVIOUS
<1>1. ToolsTyped
  BY DEF AgentsInit, ToolsTyped, NoTalk, TalkFields, CaseFields
<1>2. ASSUME NEW c \in Dossiers PROVE LookInv(look[c], at[c], Named[c], spent[c])
  <2>1. look[c] = [NoLook EXCEPT !.todo = Named[c]] /\ at[c] = "lookup" /\ spent[c] = 0
    BY DEF AgentsInit
  <2>2. Named[c] \in Seq(Names) BY ToolConstants
  <2>3. LookInv([NoLook EXCEPT !.todo = Named[c]], "lookup", Named[c], 0) BY <2>2, FirstLook
  <2> QED BY <2>1, <2>3
<1> QED BY <1>1, <1>2 DEF AgentsInv

\* A lookup takes the next counterparty off the list and puts its status behind it.
LEMMA LookedKeeps ==
  ASSUME AgentsInv, NEW c \in Dossiers, at[c] \in {"lookup", "asked"}, look[c].todo # <<>>,
         NEW found, NEW status \in {"ok", "failed"}, NEW hit \in BOOLEAN,
         Looked(c, found, status, hit)
  PROVE  /\ DOMAIN look' = Dossiers /\ \A d \in Dossiers \ {c} : look'[d] = look[d]
         /\ LookInv(look'[c], "lookup", Named[c], spent[c] + billed(status, hit))
         /\ look'[c].told = look[c].told
<1> DEFINE l == look[c]
           m == look'[c]
<1>1. LookInv(l, at[c], Named[c], spent[c]) /\ DOMAIN look = Dossiers
  BY DEF AgentsInv, ToolsTyped
<1>2. /\ DOMAIN look' = Dossiers /\ \A d \in Dossiers \ {c} : look'[d] = look[d]
      /\ DOMAIN m = DOMAIN l /\ m.todo = Tail(l.todo) /\ m.statuses = Append(l.statuses, status)
      /\ m.billable = l.billable + billed(status, hit) /\ m.told = l.told
  <2>1. DOMAIN l = LookFields BY <1>1 DEF LookInv
  <2> QED BY <1>1, <2>1 DEF Looked, LookFields
<1> HIDE DEF m, l
<1>3. /\ Tail(l.todo) \in Seq(Names) /\ Len(Tail(l.todo)) = Len(l.todo) - 1
      /\ Len(l.todo) \in Nat /\ Len(l.statuses) \in Nat
      /\ Append(l.statuses, status) \in Seq({"ok", "failed"})
      /\ Len(Append(l.statuses, status)) = Len(l.statuses) + 1
  <2>1. l.todo # <<>> BY DEF l
  <2> QED BY <1>1, <2>1 DEF LookInv
<1>4. Len(l.todo) + Len(l.statuses) = Len(Named[c]) BY <1>1 DEF LookInv
<1>5. l.billable \in Nat /\ l.billable = spent[c] /\ billed(status, hit) \in Nat
  BY <1>1 DEF LookInv, billed
<1>6. Len(m.todo) + Len(m.statuses) = Len(Named[c])
  <2>1. Len(m.todo) = Len(l.todo) - 1 BY <1>2, <1>3
  <2>2. Len(m.statuses) = Len(l.statuses) + 1 BY <1>2, <1>3
  <2>3. Len(l.todo) \in Nat /\ Len(l.statuses) \in Nat BY <1>3
  <2>4. \A x, y, a, b, n : x \in Nat /\ y \in Nat /\ x + y = n /\ a = x - 1 /\ b = y + 1 => a + b = n
    OBVIOUS
  <2> DEFINE x == Len(l.todo)
             y == Len(l.statuses)
             a == Len(m.todo)
             b == Len(m.statuses)
             n == Len(Named[c])
  <2>5. x \in Nat /\ y \in Nat /\ x + y = n /\ a = x - 1 /\ b = y + 1 BY <1>4, <2>1, <2>2, <2>3
  <2> HIDE DEF x, y, a, b, n
  <2>6. a + b = n BY <2>4, <2>5
  <2> QED BY <2>6 DEF a, b, n
<1>7. m.billable = spent[c] + billed(status, hit) /\ m.billable \in Nat BY <1>2, <1>5
<1>8. m.todo \in Seq(Names) /\ m.statuses \in Seq({"ok", "failed"}) BY <1>2, <1>3
<1>9. DOMAIN m = LookFields BY <1>1, <1>2 DEF LookInv
<1>10. LookInv(m, "lookup", Named[c], spent[c] + billed(status, hit))
  BY <1>6, <1>7, <1>8, <1>9 DEF LookInv
<1> QED BY <1>2, <1>10 DEF m, l

\* The lookups.
LEMMA LookupsKeep ==
  ASSUME AgentsInv, NEW c \in Dossiers,
         LookupHit(c) \/ LookupMiss(c) \/ LookupAnswered(c) \/ LookupFailed(c)
  PROVE  /\ AgentsInv' /\ UNCHANGED <<case, zero_day>>
         /\ \A d \in Dossiers : look'[d].told = look[d].told
<1>1. UNCHANGED <<case, zero_day>>
  BY DEF LookupHit, LookupMiss, LookupAnswered, LookupFailed
<1>2. LookInv(look[c], at[c], Named[c], spent[c]) BY DEF AgentsInv
<1>3. at[c] \in {"lookup", "asked"} /\ look[c].todo # <<>>
  BY <1>2 DEF LookupHit, LookupMiss, LookupAnswered, LookupFailed, Looking, LookInv
<1>4. spent[c] \in Nat /\ spent[c] + 0 = spent[c] BY <1>2 DEF LookInv
<1>5. billed("ok", TRUE) = 0 /\ billed("ok", FALSE) = 1 /\ billed("failed", FALSE) = 0
  BY DEF billed, BILLABLE_STATUSES
<1>6. DOMAIN at = Dossiers /\ DOMAIN look = Dossiers /\ DOMAIN spent = Dossiers
  BY DEF AgentsInv, ToolsTyped
<1>7. /\ DOMAIN at' = Dossiers /\ DOMAIN look' = Dossiers /\ DOMAIN spent' = Dossiers
      /\ \A d \in Dossiers \ {c} : at'[d] = at[d] /\ look'[d] = look[d] /\ spent'[d] = spent[d]
      /\ LookInv(look'[c], at'[c], Named[c], spent'[c]) /\ look'[c].told = look[c].told
  <2>1. CASE LookupHit(c)
    <3> DEFINE found == entry(Next1(c))[1].found
    <3>1. Looked(c, found, "ok", TRUE) /\ UNCHANGED <<at, spent>> /\ at[c] = "lookup"
      BY <2>1 DEF LookupHit, Looking
    <3> HIDE DEF found
    <3>2. /\ DOMAIN look' = Dossiers /\ \A d \in Dossiers \ {c} : look'[d] = look[d]
          /\ LookInv(look'[c], "lookup", Named[c], spent[c] + 0) /\ look'[c].told = look[c].told
      BY <1>3, <1>5, <3>1, LookedKeeps
    <3> QED BY <1>4, <1>6, <3>1, <3>2
  <2>2. CASE LookupMiss(c)
    <3>1. at[c] = "lookup" /\ at' = [at EXCEPT ![c] = "asked"] /\ UNCHANGED <<look, spent>>
      BY <2>2 DEF LookupMiss, Looking
    <3>2. /\ at'[c] = "asked" /\ DOMAIN at' = Dossiers /\ \A d \in Dossiers \ {c} : at'[d] = at[d]
      BY <1>6, <3>1
    <3>3. LookInv(look[c], "asked", Named[c], spent[c]) BY <1>2, <1>3, <3>1 DEF LookInv
    <3> QED BY <1>6, <3>1, <3>2, <3>3
  <2>3. CASE LookupAnswered(c)
    <3> DEFINE found == Next1(c) \in press
    <3>1. /\ Looked(c, found, "ok", FALSE) /\ at' = [at EXCEPT ![c] = "lookup"]
          /\ spent' = [spent EXCEPT ![c] = @ + 1]
      BY <2>3 DEF LookupAnswered
    <3> HIDE DEF found
    <3>2. /\ DOMAIN look' = Dossiers /\ \A d \in Dossiers \ {c} : look'[d] = look[d]
          /\ LookInv(look'[c], "lookup", Named[c], spent[c] + 1) /\ look'[c].told = look[c].told
      BY <1>3, <1>5, <3>1, LookedKeeps
    <3>3. /\ at'[c] = "lookup" /\ spent'[c] = spent[c] + 1 /\ DOMAIN at' = Dossiers
          /\ DOMAIN spent' = Dossiers
          /\ \A d \in Dossiers \ {c} : at'[d] = at[d] /\ spent'[d] = spent[d]
      BY <1>6, <3>1
    <3> QED BY <3>2, <3>3
  <2>4. CASE LookupFailed(c)
    <3>1. /\ Looked(c, FALSE, "failed", FALSE) /\ at' = [at EXCEPT ![c] = "lookup"] /\ UNCHANGED spent
      BY <2>4 DEF LookupFailed
    <3>2. /\ DOMAIN look' = Dossiers /\ \A d \in Dossiers \ {c} : look'[d] = look[d]
          /\ LookInv(look'[c], "lookup", Named[c], spent[c] + 0) /\ look'[c].told = look[c].told
      BY <1>3, <1>5, <3>1, LookedKeeps
    <3>3. at'[c] = "lookup" /\ DOMAIN at' = Dossiers /\ \A d \in Dossiers \ {c} : at'[d] = at[d]
      BY <1>6, <3>1
    <3> QED BY <1>4, <1>6, <3>1, <3>2, <3>3
  <2> QED BY <2>1, <2>2, <2>3, <2>4
<1>8. ASSUME NEW d \in Dossiers PROVE LookInv(look'[d], at'[d], Named[d], spent'[d])
  <2>1. CASE d = c BY <1>7, <2>1
  <2>2. CASE d # c
    <3>1. look'[d] = look[d] /\ at'[d] = at[d] /\ spent'[d] = spent[d] BY <1>7, <2>2
    <3> QED BY <3>1 DEF AgentsInv
  <2> QED BY <2>1, <2>2
<1>9. ToolsTyped' BY <1>1, <1>7 DEF AgentsInv, ToolsTyped
<1>10. \A d \in Dossiers : look'[d].told = look[d].told BY <1>7
<1> QED BY <1>1, <1>8, <1>9, <1>10 DEF AgentsInv

\* Past the lookups only a conversation goes on or is let go.
LEMMA TalksKeep ==
  ASSUME AgentsInv, NEW c \in Dossiers, at[c] \notin {"lookup", "asked"}, UNCHANGED <<look, spent>>,
         NEW stage, stage \notin {"lookup", "asked"}, at' = [at EXCEPT ![c] = stage],
         DOMAIN zero_day' = Dossiers, \A d \in Dossiers : DOMAIN zero_day'[d] = TalkFields,
         DOMAIN case' = Dossiers,
         \A d \in Dossiers : DOMAIN case'[d] = CaseFields /\ case'[d].risk \in Nat
  PROVE  AgentsInv'
<1>1. ToolsTyped' BY DEF AgentsInv, ToolsTyped
<1>2. ASSUME NEW d \in Dossiers PROVE LookInv(look'[d], at'[d], Named[d], spent'[d])
  <2>1. at'[d] = at[d] \/ at'[d] \notin {"lookup", "asked"} BY DEF AgentsInv, ToolsTyped
  <2> QED BY <2>1 DEF AgentsInv, LookInv
<1> QED BY <1>1, <1>2 DEF AgentsInv

\* A debate: only a judgement the auditor gave moves the case.
LEMMA DebatesKeep ==
  ASSUME AgentsInv, NEW c \in Dossiers, AuditorSays(c) \/ AuditorCalls(c) \/ AuditorTool(c)
                                        \/ AuditorForced(c) \/ AuditorFails(c)
  PROVE  /\ AgentsInv' /\ UNCHANGED zero_day
         /\ \A d \in Dossiers : case'[d].searched = case[d].searched
         /\ \A d \in Dossiers :
              case'[d].escalated # case[d].escalated \/ case'[d].risk # case[d].risk
                => /\ at[d] = "trying" /\ Head(debate[d].calls) = "disagree"
                   /\ case'[d].risk >= case[d].risk
<1> DEFINE Moves == \A d \in Dossiers :
              case'[d].escalated # case[d].escalated \/ case'[d].risk # case[d].risk
                => /\ at[d] = "trying" /\ Head(debate[d].calls) = "disagree"
                   /\ case'[d].risk >= case[d].risk
           Stays == \A d \in Dossiers : case'[d].searched = case[d].searched
           Typed == DOMAIN case' = Dossiers
                    /\ \A d \in Dossiers : DOMAIN case'[d] = CaseFields /\ case'[d].risk \in Nat
<1>1. at[c] \notin {"lookup", "asked"} /\ UNCHANGED <<look, spent, zero_day>>
  BY DEF AuditorSays, AuditorCalls, AuditorTool, AuditorForced, AuditorFails
<1>2. /\ DOMAIN case = Dossiers
      /\ \A d \in Dossiers : DOMAIN case[d] = CaseFields /\ case[d].risk \in Nat
  BY DEF AgentsInv, ToolsTyped
<1>3. CASE UNCHANGED case
  <2>1. Moves /\ Stays /\ Typed BY <1>2, <1>3
  <2>2. \E stage \in {"done", "trying", "auditing", "defaulting"} :
           at' = [at EXCEPT ![c] = stage] \/ (UNCHANGED at /\ at[c] = "trying")
    BY <1>3 DEF AuditorSays, AuditorCalls, AuditorTool, AuditorForced, AuditorFails, Concluded, RoundOver
  <2> QED BY <1>1, <1>2, <1>3, <2>1, <2>2, TalksKeep DEF AgentsInv, ToolsTyped
<1>4. CASE AuditorSays(c) \/ AuditorForced(c)
  <2>1. UNCHANGED case BY <1>4 DEF AuditorSays, AuditorForced, Concluded, Forced, escalates
  <2> QED BY <1>3, <2>1
<1>5. ASSUME NEW call, NEW score \in 0..2, call \in Judgements, at[c] = "trying",
             Head(debate[c].calls) = call, Concluded(c, Rendered(call, score))
      PROVE  AgentsInv' /\ Moves /\ Stays
  <2>1. at' = [at EXCEPT ![c] = "done"] BY <1>5 DEF Concluded
  <2>2. CASE call = "disagree"
    <3>1. case' = [case EXCEPT ![c].escalated = TRUE, ![c].risk = raised(@, score)]
      BY <1>5, <2>2 DEF Concluded, Rendered, escalates
    <3>2. raised(case[c].risk, score) \in Nat /\ raised(case[c].risk, score) >= case[c].risk
      BY <1>2 DEF raised
    <3>3. Typed /\ \A d \in Dossiers \ {c} : case'[d] = case[d]
      BY <1>2, <3>1, <3>2 DEF CaseFields
    <3>4. case'[c].risk >= case[c].risk /\ case'[c].searched = case[c].searched
      BY <1>2, <3>1, <3>2 DEF CaseFields
    <3>5. Moves /\ Stays BY <1>5, <2>2, <3>3, <3>4
    <3> QED BY <1>1, <2>1, <3>3, <3>5, TalksKeep DEF AgentsInv, ToolsTyped
  <2>3. CASE call # "disagree"
    <3>1. UNCHANGED case BY <1>5, <2>3 DEF Concluded, Rendered, escalates
    <3>2. Moves /\ Stays /\ Typed BY <1>2, <3>1
    <3> QED BY <1>1, <2>1, <3>2, TalksKeep DEF AgentsInv, ToolsTyped
  <2> QED BY <2>2, <2>3
<1>6. CASE AuditorTool(c)
  <2>1. UNCHANGED case
        \/ \E score \in 0..2 : Head(debate[c].calls) \in Judgements
                               /\ Concluded(c, Rendered(Head(debate[c].calls), score))
    BY <1>6 DEF AuditorTool, RoundOver
  <2>2. at[c] = "trying" BY <1>6 DEF AuditorTool
  <2> QED BY <1>1, <1>3, <1>5, <2>1, <2>2
<1>7. CASE AuditorCalls(c) \/ AuditorFails(c)
  <2>1. UNCHANGED case BY <1>7 DEF AuditorCalls, AuditorFails
  <2> QED BY <1>3, <2>1
<1> QED BY <1>4, <1>6, <1>7

LEMMA LiveRecord ==
  ASSUME NEW n
  PROVE  \A s \in {[name |-> n, status |-> "ok", found |-> n \in press]} :
           s.status = "ok" /\ s.name \in press => s.found
<1> DEFINE f == n \in press
           s == [name |-> n, status |-> "ok", found |-> f]
<1>1. s.name = n /\ s.found = f BY DEF s
<1> HIDE DEF s
<1>2. s.name \in press => s.found BY <1>1 DEF f
<1> QED BY <1>2 DEF s

\* What a zero-day screening puts on the case, and what its searches find.
LEMMA ScreeningsKeep ==
  ASSUME AgentsInv, NEW c \in Dossiers, ZeroDaySays(c) \/ ZeroDayCalls(c) \/ ZeroDayTool(c)
                                        \/ ZeroDayForced(c) \/ ZeroDayFails(c)
  PROVE  /\ AgentsInv'
         /\ \A d \in Dossiers : case'[d].escalated = case[d].escalated /\ case'[d].risk = case[d].risk
         /\ \A d \in Dossiers : case'[d].searched /\ ~case[d].searched
                                  => \E s \in zero_day[d].searches : s.status = "ok"
         /\ \A d \in Dossiers : \A s \in zero_day'[d].searches \ zero_day[d].searches :
              s.status = "ok" /\ s.name \in press => s.found
<1> DEFINE Same == \A d \in Dossiers : case'[d].escalated = case[d].escalated
                                       /\ case'[d].risk = case[d].risk
           True == \A d \in Dossiers : case'[d].searched /\ ~case[d].searched
                                         => \E s \in zero_day[d].searches : s.status = "ok"
           Live == \A d \in Dossiers : \A s \in zero_day'[d].searches \ zero_day[d].searches :
                     s.status = "ok" /\ s.name \in press => s.found
           Typed == DOMAIN case' = Dossiers
                    /\ \A d \in Dossiers : DOMAIN case'[d] = CaseFields /\ case'[d].risk \in Nat
           Talks == DOMAIN zero_day' = Dossiers
                    /\ \A d \in Dossiers : DOMAIN zero_day'[d] = TalkFields
<1>1. at[c] \notin {"lookup", "asked"} /\ UNCHANGED <<look, spent>>
  BY DEF ZeroDaySays, ZeroDayCalls, ZeroDayTool, ZeroDayForced, ZeroDayFails
<1>2. /\ DOMAIN case = Dossiers /\ DOMAIN zero_day = Dossiers
      /\ \A d \in Dossiers : /\ DOMAIN case[d] = CaseFields /\ case[d].risk \in Nat
                             /\ DOMAIN zero_day[d] = TalkFields
  BY DEF AgentsInv, ToolsTyped
<1>3. afterScreening(c) \notin {"lookup", "asked"} /\ nextRound(c) \notin {"lookup", "asked"}
  BY DEF afterScreening, nextRound
<1>4. \E stage : stage \notin {"lookup", "asked"} /\ at' = [at EXCEPT ![c] = stage]
  <2>1. CASE ZeroDaySays(c) BY <1>3, <2>1 DEF ZeroDaySays, ZeroDayOver
  <2>2. CASE ZeroDayCalls(c) BY <2>2 DEF ZeroDayCalls
  <2>3. CASE ZeroDayTool(c) BY <1>3, <2>3 DEF ZeroDayTool, Ran
  <2>4. CASE ZeroDayForced(c) BY <1>3, <2>4 DEF ZeroDayForced, ZeroDayOver
  <2>5. CASE ZeroDayFails(c) BY <1>3, <2>5 DEF ZeroDayFails, ZeroDayOver
  <2> QED BY <2>1, <2>2, <2>3, <2>4, <2>5
<1>6. Same /\ True /\ Typed
  <2>1. CASE UNCHANGED case BY <1>2, <2>1
  <2>2. ASSUME NEW v, Interpreted(c, v) PROVE Same /\ True /\ Typed
    <3> DEFINE said == corrected(c, v.searched)
               usable == v.text /\ v.risk_found \in {"yes", "no"} /\ said \in {"yes", "no"}
               verdict == IF ~usable THEN "unknown"
                          ELSE IF v.risk_found = "yes" THEN "risk_found" ELSE "no_risk_found"
               searched == IF usable THEN said = "yes" ELSE ran(c)
    <3>1. case' = [case EXCEPT ![c].verdict = verdict, ![c].searched = searched]
      BY <2>2 DEF Interpreted
    <3>2. searched => ran(c) BY DEF corrected
    <3> HIDE DEF verdict, searched
    <3>3. /\ Typed /\ Same /\ \A d \in Dossiers \ {c} : case'[d] = case[d]
          /\ case'[c].searched = searched
      BY <1>2, <3>1 DEF CaseFields
    <3>4. True BY <3>2, <3>3 DEF ran
    <3> QED BY <3>3, <3>4
  <2>3. CASE ZeroDayFails(c)
    <3>1. case' = [case EXCEPT ![c].verdict = "unknown", ![c].searched = FALSE]
      BY <2>3 DEF ZeroDayFails
    <3> QED BY <1>2, <3>1 DEF CaseFields
  <2>4. UNCHANGED case \/ ZeroDayFails(c) \/ \E v : Interpreted(c, v)
    BY DEF ZeroDaySays, ZeroDayCalls, ZeroDayTool, ZeroDayForced
  <2> QED BY <2>1, <2>2, <2>3, <2>4
<1>7. Talks /\ Live
  <2>1. CASE UNCHANGED zero_day BY <1>2, <2>1
  <2>2. CASE ZeroDayOver(c)
    <3>1. zero_day' = [zero_day EXCEPT ![c] = NoTalk] BY <2>2 DEF ZeroDayOver
    <3>2. DOMAIN NoTalk = TalkFields /\ NoTalk.searches = {} BY DEF NoTalk, TalkFields
    <3> QED BY <1>2, <3>1, <3>2
  <2>3. CASE ZeroDayCalls(c)
    <3>1. PICK calls : zero_day' = [zero_day EXCEPT ![c].calls = calls] BY <2>3 DEF ZeroDayCalls
    <3> QED BY <1>2, <3>1 DEF TalkFields
  <2>4. CASE ZeroDayTool(c)
    <3> DEFINE call == Head(zero_day[c].calls)
    <3>1. PICK search : /\ Ran(c, search)
                        /\ \A s \in search : s.status = "ok" /\ s.name \in press => s.found
      <4>1. CASE call \in Names
        <5>1. CASE Ran(c, {[name |-> call, status |-> "ok", found |-> news(call)]})
          BY <5>1, LiveRecord DEF news
        <5>2. CASE Ran(c, {[name |-> call, status |-> "failed", found |-> FALSE]})
          BY <5>2
        <5> QED BY <2>4, <4>1, <5>1, <5>2 DEF ZeroDayTool
      <4>2. CASE call \notin Names
        <5>1. Ran(c, {}) BY <2>4, <4>2 DEF ZeroDayTool
        <5> QED BY <5>1
      <4> QED BY <4>1, <4>2
    <3>2. /\ Talks /\ \A d \in Dossiers \ {c} : zero_day'[d] = zero_day[d]
          /\ zero_day'[c].searches = zero_day[c].searches \cup search
      BY <1>2, <3>1 DEF Ran, TalkFields
    <3> QED BY <3>1, <3>2
  <2>5. UNCHANGED zero_day \/ ZeroDayOver(c) \/ ZeroDayCalls(c) \/ ZeroDayTool(c)
    BY DEF ZeroDaySays, ZeroDayForced, ZeroDayFails
  <2> QED BY <2>1, <2>2, <2>3, <2>4, <2>5
<1> QED BY <1>1, <1>4, <1>6, <1>7, TalksKeep

\* What compliance is told of its searches, once they are over.
NothingFound(c) ==
  look'[c].told = "the search found nothing" /\ look[c].told = "nothing yet" =>
    /\ Len(look[c].statuses) = Len(Named[c]) /\ Named[c] # <<>>
    /\ \A i \in 1..Len(look[c].statuses) : look[c].statuses[i] = "ok"

LEMMA LeastOfFinite ==
  ASSUME NEW S, IsFiniteSet(S), S # {}, S \subseteq Nat
  PROVE  \E i \in S : \A j \in S : i <= j
<1> DEFINE UpTo(n) == {m \in S : m <= n}
           Family == {UpTo(n) : n \in S}
<1>1. IsWellFoundedOn(StrictSubsetOrdering(S), SUBSET S)
  BY FS_FiniteSubsetsOfFinite, FS_StrictSubsetOrderingWellFounded
<1>2. Family \subseteq SUBSET S /\ Family # {} OBVIOUS
<1>3. PICK U \in Family : \A V \in Family : <<V, U>> \notin StrictSubsetOrdering(S)
  <2> HIDE DEF Family
  <2> QED BY <1>1, <1>2, WFMin
<1>4. PICK n \in S : U = UpTo(n) OBVIOUS
<1>5. ASSUME NEW m \in S, ~(n <= m) PROVE FALSE
  <2>1. UpTo(m) \subseteq UpTo(n) /\ n \in UpTo(n) /\ n \notin UpTo(m)
    <3> HIDE DEF Family
    <3>1. n \in Nat /\ m \in Nat /\ m < n BY <1>5
    <3>2. \A k \in UpTo(m) : k \in S /\ k <= n
      <4> TAKE k \in UpTo(m)
      <4>1. k \in Nat /\ k <= m /\ k \in S OBVIOUS
      <4> QED BY <3>1, <4>1
    <3>3. n \in UpTo(n) BY <3>1
    <3>4. n \notin UpTo(m) BY <3>1
    <3> QED BY <3>2, <3>3, <3>4
  <2>2. UpTo(m) \in Family /\ UpTo(n) \in SUBSET S /\ UpTo(m) \in SUBSET S OBVIOUS
  <2>3. <<UpTo(m), U>> \in StrictSubsetOrdering(S) BY <1>4, <2>1, <2>2 DEF StrictSubsetOrdering
  <2> QED BY <1>3, <2>2, <2>3
<1> QED BY <1>5

LEMMA WorstStatusWins ==
  ASSUME NEW c, look[c].statuses \in Seq({"ok", "failed"}),
         search_status(c) # "not_attempted", search_status(c) \notin FAILED_STATUSES
  PROVE  /\ look[c].statuses # <<>>
         /\ \A i \in 1..Len(look[c].statuses) : look[c].statuses[i] = "ok"
<1> DEFINE statuses == look[c].statuses
           failing == {i \in DOMAIN statuses : statuses[i] \in FAILED_STATUSES}
           first == CHOOSE i \in failing : \A j \in failing : i <= j
<1>1. statuses # <<>> BY DEF search_status
<1>2. failing = {}
  <2> SUFFICES ASSUME failing # {} PROVE FALSE OBVIOUS
  <2>1. failing \subseteq Nat BY DEF FAILED_STATUSES
  <2>2. \E i \in failing : \A j \in failing : i <= j
    <3>1. IsFiniteSet(failing) 
      <4>1. IsFiniteSet(DOMAIN statuses) BY FS_Interval
      <4> QED BY <4>1, FS_Subset
    <3> QED BY <2>1, <3>1, LeastOfFinite
  <2>3. first \in failing BY <2>2
  <2>4. search_status(c) = statuses[first] BY <1>1 DEF search_status
  <2> QED BY <2>3, <2>4
<1>3. DOMAIN statuses = 1..Len(statuses) /\ \A i \in DOMAIN statuses : statuses[i] \in {"ok", "failed"}
  OBVIOUS
<1> QED BY <1>1, <1>2, <1>3 DEF FAILED_STATUSES

LEMMA NothingLeft == \A b, k : b \in Nat /\ 0 + b = k => b = k
OBVIOUS

\* The prompt of compliance.
LEMMA ScreenKeeps ==
  ASSUME AgentsInv, NEW c \in Dossiers, Screen(c)
  PROVE  AgentsInv' /\ UNCHANGED <<case, zero_day>> /\ \A d \in Dossiers : NothingFound(d)
<1> DEFINE told == format_findings(look[c].results, search_status(c))
           stage == IF c \in Gated THEN "screening" ELSE afterScreening(c)
<1>1. LookInv(look[c], "lookup", Named[c], spent[c]) /\ look[c].todo = <<>>
  BY DEF Screen, AgentsInv
<1>2. /\ look' = [look EXCEPT ![c] = [NoLook EXCEPT !.told = told]]
      /\ at' = [at EXCEPT ![c] = stage] /\ spent' = [spent EXCEPT ![c] = 0]
      /\ UNCHANGED <<case, zero_day>>
  BY DEF Screen
<1>3. stage \notin {"lookup", "asked"} BY DEF afterScreening
<1> HIDE DEF told, stage
<1>4. /\ DOMAIN look' = Dossiers /\ DOMAIN at' = Dossiers /\ DOMAIN spent' = Dossiers
      /\ \A d \in Dossiers \ {c} : look'[d] = look[d] /\ at'[d] = at[d] /\ spent'[d] = spent[d]
      /\ at'[c] = stage /\ spent'[c] = 0
      /\ look'[c].told = told /\ look'[c].todo = <<>> /\ look'[c].statuses = <<>>
      /\ look'[c].billable = 0 /\ DOMAIN look'[c] = LookFields
  BY <1>2 DEF AgentsInv, ToolsTyped, NoLook, LookFields
<1>5. LookInv(look'[c], at'[c], Named[c], spent'[c]) BY <1>3, <1>4 DEF LookInv
<1>6. ASSUME NEW d \in Dossiers PROVE LookInv(look'[d], at'[d], Named[d], spent'[d])
  <2>1. d # c => look'[d] = look[d] /\ at'[d] = at[d] /\ spent'[d] = spent[d] BY <1>4
  <2> QED BY <1>5, <2>1 DEF AgentsInv
<1>7. ToolsTyped' BY <1>2, <1>4 DEF AgentsInv, ToolsTyped
<1>8. NothingFound(c)
  <2> SUFFICES ASSUME told = "the search found nothing"
               PROVE  /\ Len(look[c].statuses) = Len(Named[c]) /\ Named[c] # <<>>
                      /\ \A i \in 1..Len(look[c].statuses) : look[c].statuses[i] = "ok"
    BY <1>4 DEF NothingFound
  <2>1. search_status(c) # "not_attempted" /\ search_status(c) \notin FAILED_STATUSES
    BY DEF told, format_findings
  <2>2. /\ look[c].statuses # <<>> /\ look[c].statuses \in Seq({"ok", "failed"})
        /\ \A i \in 1..Len(look[c].statuses) : look[c].statuses[i] = "ok"
    BY <1>1, <2>1, WorstStatusWins DEF LookInv
  <2>3. Len(look[c].todo) + Len(look[c].statuses) = Len(Named[c]) BY <1>1 DEF LookInv
  <2>4. Len(look[c].todo) = 0 /\ Len(look[c].statuses) \in Nat \ {0}
    <3>1. Len(look[c].todo) = 0
      <4>1. Len(<<>>) = 0 OBVIOUS
      <4> QED BY <1>1, <4>1, Zenon
    <3>2. ASSUME NEW s \in Seq({"ok", "failed"}), s # <<>> PROVE Len(s) \in Nat \ {0}
      BY ONLY <3>2
    <3> QED BY <2>2, <3>1, <3>2
  <2>5. Len(look[c].statuses) = Len(Named[c])
    <3> DEFINE x == Len(look[c].todo)
               y == Len(look[c].statuses)
               n == Len(Named[c])
    <3>1. x = 0 /\ y \in Nat /\ x + y = n BY <2>3, <2>4
    <3> HIDE DEF x, y, n
    <3>2. y = n BY <3>1, NothingLeft
    <3> QED BY <3>2 DEF y, n
  <2>6. Named[c] # <<>> BY <2>4, <2>5
  <2> QED BY <2>2, <2>5, <2>6
<1>9. ASSUME NEW d \in Dossiers PROVE NothingFound(d)
  <2>1. d # c => look'[d] = look[d] BY <1>4
  <2> QED BY <1>8, <2>1 DEF NothingFound
<1> QED BY <1>2, <1>6, <1>7, <1>9 DEF AgentsInv

\* What each step of the agents keeps, and what it may do.
SearchBacked(d) == case'[d].searched /\ ~case[d].searched
                     => \E s \in zero_day[d].searches : s.status = "ok"
LiveSearch(d) == \A s \in zero_day'[d].searches \ zero_day[d].searches :
                   s.status = "ok" /\ s.name \in press => s.found
Judged(d) == case'[d].escalated # case[d].escalated \/ case'[d].risk # case[d].risk
               => /\ at[d] = "trying" /\ Head(debate[d].calls) = "disagree"
                  /\ case'[d].risk >= case[d].risk

LEMMA ToolsStep ==
  AgentsInv /\ [AgentsNext]_agentsVars =>
    /\ AgentsInv'
    /\ \A d \in Dossiers : NothingFound(d) /\ SearchBacked(d) /\ LiveSearch(d) /\ Judged(d)
<1> SUFFICES ASSUME AgentsInv, [AgentsNext]_agentsVars
             PROVE  /\ AgentsInv'
                    /\ \A d \in Dossiers : NothingFound(d) /\ SearchBacked(d) /\ LiveSearch(d) /\ Judged(d)
  OBVIOUS
<1> DEFINE Found == \A d \in Dossiers : NothingFound(d)
           Backed == \A d \in Dossiers : SearchBacked(d)
           Live == \A d \in Dossiers : LiveSearch(d)
           Moves == \A d \in Dossiers : Judged(d)
<1>1. ASSUME \A d \in Dossiers : look'[d].told = look[d].told PROVE Found
  BY <1>1 DEF NothingFound
<1>2. ASSUME UNCHANGED case PROVE Backed /\ Moves BY <1>2 DEF SearchBacked, Judged
<1>3. ASSUME UNCHANGED zero_day PROVE Live BY <1>3 DEF LiveSearch
<1>4. CASE UNCHANGED <<remembered, at, look, zero_day, debate, case, spent>>
  <2>1. AgentsInv' BY <1>4 DEF AgentsInv, ToolsTyped
  <2> QED BY <1>1, <1>2, <1>3, <1>4, <2>1
<1>5. ASSUME NEW c \in Dossiers, Handle(c) PROVE AgentsInv' /\ Found /\ Backed /\ Live /\ Moves
  <2>1. CASE LookupHit(c) \/ LookupMiss(c) \/ LookupAnswered(c) \/ LookupFailed(c)
    BY <1>1, <1>2, <1>3, <2>1, LookupsKeep
  <2>2. CASE Screen(c)
    BY <1>2, <1>3, <2>2, ScreenKeeps
  <2>3. CASE ZeroDaySays(c) \/ ZeroDayCalls(c) \/ ZeroDayTool(c) \/ ZeroDayForced(c) \/ ZeroDayFails(c)
    <3>1. UNCHANGED look
      BY <2>3 DEF ZeroDaySays, ZeroDayCalls, ZeroDayTool, ZeroDayForced, ZeroDayFails
    <3>2. AgentsInv' /\ Backed /\ Live /\ Moves
      BY <2>3, ScreeningsKeep DEF SearchBacked, LiveSearch, Judged
    <3> QED BY <1>1, <3>1, <3>2
  <2>4. CASE AuditorSays(c) \/ AuditorCalls(c) \/ AuditorTool(c) \/ AuditorForced(c) \/ AuditorFails(c)
    <3>1. UNCHANGED look
      BY <2>4 DEF AuditorSays, AuditorCalls, AuditorTool, AuditorForced, AuditorFails
    <3>2. AgentsInv' /\ UNCHANGED zero_day /\ Backed /\ Moves
      BY <2>4, DebatesKeep DEF SearchBacked, Judged
    <3> QED BY <1>1, <1>3, <3>1, <3>2
  <2> QED BY <1>5, <2>1, <2>2, <2>3, <2>4 DEF Handle
<1>6. CASE UNCHANGED agentsVars BY <1>4, <1>6 DEF agentsVars
<1>7. ASSUME NEW n \in Names, Breaks(n) PROVE AgentsInv' /\ Found /\ Backed /\ Live /\ Moves
  BY <1>4, <1>7 DEF Breaks
<1> QED BY <1>5, <1>6, <1>7 DEF AgentsNext

LEMMA ToolsKept == AgentsSpec => []AgentsInv
<1>1. AgentsInv /\ [AgentsNext]_agentsVars => AgentsInv' BY ToolsStep
<1> QED BY <1>1, InitTools, PTL DEF AgentsSpec

\* What is billed to a case is what the search API answered it, for any cache.
THEOREM BillsAreTrue == AgentsSpec => []BilledIsSpent
<1>1. AgentsInv => BilledIsSpent BY DEF AgentsInv, LookInv, BilledIsSpent
<1> QED BY <1>1, ToolsKept, PTL

\* Compliance is told that nothing was found only of a record every counterparty of
\* which was searched, whichever of the searches came first or failed.
THEOREM SilenceIsSearched == AgentsSpec => NothingFoundIsTrue
<1> DEFINE A == \A c \in Dossiers :
       look'[c].told = "the search found nothing" /\ look[c].told = "nothing yet" =>
         /\ Len(look[c].statuses) = Len(Named[c]) /\ Named[c] # <<>>
         /\ \A i \in 1..Len(look[c].statuses) : look[c].statuses[i] = "ok"
<1>1. AgentsInv /\ [AgentsNext]_agentsVars => A BY ToolsStep DEF NothingFound
<1>2. AgentsSpec => [][A]_agentsVars BY <1>1, ToolsKept, PTL DEF AgentsSpec
<1> QED BY <1>2 DEF NothingFoundIsTrue

\* A case is marked searched on the strength of a search that ran, whatever the model
\* claims and in whichever round it claims it.
THEOREM ClaimsAreCorrected == AgentsSpec => SearchedIsTrue
<1> DEFINE A == \A c \in Dossiers : case'[c].searched /\ ~case[c].searched
       => \E s \in zero_day[c].searches : s.status = "ok"
<1>1. AgentsInv /\ [AgentsNext]_agentsVars => A BY ToolsStep DEF SearchBacked
<1>2. AgentsSpec => [][A]_agentsVars BY <1>1, ToolsKept, PTL DEF AgentsSpec
<1> QED BY <1>2 DEF SearchedIsTrue

\* A zero-day search sees what is out when it runs, whatever the cache keeps.
THEOREM SearchesAreLive == AgentsSpec => ZeroDayIsLive
<1> DEFINE A == \A c \in Dossiers : \A s \in zero_day'[c].searches \ zero_day[c].searches :
       s.status = "ok" /\ s.name \in press => s.found
<1>1. AgentsInv /\ [AgentsNext]_agentsVars => A BY ToolsStep DEF LiveSearch
<1>2. AgentsSpec => [][A]_agentsVars BY <1>1, ToolsKept, PTL DEF AgentsSpec
<1> QED BY <1>2 DEF ZeroDayIsLive

\* A debate moves a case only by a judgement of the auditor's own, and never down.
THEOREM DebatesOnlyRaise == AgentsSpec => OnlyAJudgementMoves
<1> DEFINE A == \A c \in Dossiers :
       case'[c].escalated # case[c].escalated \/ case'[c].risk # case[c].risk
       => /\ at[c] = "trying" /\ Head(debate[c].calls) = "disagree"
          /\ case'[c].risk >= case[c].risk
<1>1. AgentsInv /\ [AgentsNext]_agentsVars => A BY ToolsStep DEF Judged
<1>2. AgentsSpec => [][A]_agentsVars BY <1>1, ToolsKept, PTL DEF AgentsSpec
<1> QED BY <1>2 DEF OnlyAJudgementMoves

===============================================================================
