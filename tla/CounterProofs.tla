----------------------------- MODULE CounterProofs -----------------------------
(***************************************************************************)
(* What reaches a reviewer and on what ground: posts that become cases     *)
(* (AuditIntake), files that become cases (DocumentIntake), the screening  *)
(* of a case (Screening), the reviewers' screens (Worklist) and the lists  *)
(* that are screened against (SanctionsRefresh).  The five share no state; *)
(* each has an invariant and a part of its own below.                      *)
(***************************************************************************)
EXTENDS AuditIntake, DocumentIntake, Screening, Worklist, SanctionsRefresh,
        FiniteSetTheorems, TLAPS

-----------------------------------------------------------------------------
(* Posts.  One verdict per shipment, for clients that wait for an answer     *)
(* before they post again: any number of posts, references and workers.     *)

Decisive == CLEARED \cup {"BLOCKED_BY_HUMAN"}
Undecided ==
  IN_FLIGHT \cup {"PENDING_HUMAN", "HELD_FOR_REVIEW", "ESCALATED", "DEAD_LETTER", "ABSENT"}
States == Undecided \cup Decisive
References == {Reference(p) : p \in Posts} \cup {NoReference}
ReferencesOf(s) == {Reference(p) : p \in {q \in Posts : Shipment(q) = s}} \cup {NoReference}
CaseRecords ==
  [shipment : Booked \cup {"none"}, state : States, reference : References, _version : Nat]
Phases == {"idle", "lookup", "find", "put", "read", "attach", "advance"}
HandlerRecords == [phase : Phases, copy : CaseRecords, turn : Nat]

\* What a write may do to a case: the version rises, a decision stays, and the
\* reference is one the shipment was posted under.
Later(old, new) ==
  /\ new.reference \in ReferencesOf(new.shipment)
  /\ new._version > old._version
  /\ old.state \in Decisive => new.state = old.state

RecordsOK(rs) ==
  /\ rs \in [Booked -> CaseRecords]
  /\ \A s \in Booked :
       /\ rs[s] = NotOpened \/ (rs[s].shipment = s /\ rs[s]._version > 0)
       /\ rs[s].reference \in ReferencesOf(s)

\* A copy of the case at some version; the current one, if no write came since.
BackedBy(copy, rs) ==
  /\ copy \in CaseRecords
  /\ copy.shipment \in Booked
  /\ copy._version > 0
  /\ copy._version <= rs[copy.shipment]._version
  /\ copy._version = rs[copy.shipment]._version => copy = rs[copy.shipment]
  /\ copy.state \in Decisive => rs[copy.shipment].state = copy.state

HandlerOK(h, p, rs) ==
  /\ h \in HandlerRecords
  /\ h.phase = "put" => rs[Shipment(p)] = NotOpened
  /\ h.phase \in {"read", "attach", "advance"} => rs[Shipment(p)] # NotOpened
  /\ h.phase \in {"attach", "advance"} => h.copy.shipment = Shipment(p) /\ BackedBy(h.copy, rs)

WorkerOK(copy, rs) == copy = NotOpened \/ (copy.state \in IN_FLIGHT /\ BackedBy(copy, rs))

ToldOK(t, p, rs) ==
  /\ t \subseteq {"CLEARED", "BLOCKED"}
  /\ \A outcome \in t : outcome_for(rs[Shipment(p)]) = outcome

\* Two handlers of one shipment are never at work at once.
Solo(hs) ==
  \A p, q \in Posts :
    Shipment(p) = Shipment(q) /\ hs[p].phase # "idle" /\ hs[q].phase # "idle" => p = q

\* The inductive invariant.
VerdictInv ==
  /\ RecordsOK(records)
  /\ handler \in [Posts -> HandlerRecords]
  /\ \A p \in Posts : HandlerOK(handler[p], p, records)
  /\ worker \in [Workers -> CaseRecords]
  /\ \A w \in Workers : WorkerOK(worker[w], records)
  /\ told \in [Posts -> SUBSET {"CLEARED", "BLOCKED"}]
  /\ \A p \in Posts : ToldOK(told[p], p, records)
  /\ Solo(handler)

-----------------------------------------------------------------------------
\* A post's shipment is booked.
LEMMA ShipmentBooked == \A p \in Posts : Shipment(p) \in Booked
BY DEF Booked, Shipment

\* Nothing is published of a case that is not decided, and a decision for good.
LEMMA OutcomeOfState ==
  ASSUME NEW c \in CaseRecords
  PROVE  /\ outcome_for(c) \in {"CLEARED", "BLOCKED"} <=> c.state \in Decisive
         /\ c.state \in Undecided => c.state \notin Decisive
BY DEF outcome_for, Decisive, CLEARED, IN_FLIGHT, CaseRecords, States, Undecided

\* Where nothing was written before, there is no version and no decision.
LEMMA NotOpenedIsBlank ==
  /\ NotOpened \in CaseRecords
  /\ NotOpened._version = 0
  /\ NotOpened.state \notin Decisive
BY DEF NotOpened, CaseRecords, States, Undecided, Decisive, CLEARED, IN_FLIGHT, References

\* A later write leaves the records in order.
LEMMA RecordsKept ==
  ASSUME NEW rs, RecordsOK(rs), NEW s \in Booked, NEW c \in CaseRecords,
         Later(rs[s], c), c.shipment = s
  PROVE  RecordsOK([rs EXCEPT ![s] = c])
<1>1. rs[s] \in CaseRecords
  BY DEF RecordsOK
<1>2. c._version > 0
  BY <1>1 DEF Later, CaseRecords
<1>3. c.reference \in ReferencesOf(s)
  BY DEF Later
<1> QED
  BY <1>2, <1>3 DEF RecordsOK

\* A copy of any case stays a copy of it.
LEMMA BackedKept ==
  ASSUME NEW rs, RecordsOK(rs), NEW s \in Booked, NEW c \in CaseRecords,
         Later(rs[s], c), NEW copy, BackedBy(copy, rs)
  PROVE  BackedBy(copy, [rs EXCEPT ![s] = c])
<1> DEFINE ns == [rs EXCEPT ![s] = c]
<1>1. CASE copy.shipment = s
  <2>1. ns[s] = c
    BY DEF RecordsOK
  <2>2. rs[s] \in CaseRecords /\ copy \in CaseRecords
    BY DEF RecordsOK, BackedBy
  <2>3. copy._version < c._version
    BY <1>1, <2>2 DEF BackedBy, Later, CaseRecords
  <2>4. copy.state \in Decisive => c.state = copy.state
    BY <1>1 DEF BackedBy, Later
  <2> QED
    BY <1>1, <2>1, <2>2, <2>3, <2>4 DEF BackedBy, CaseRecords
<1>2. CASE copy.shipment # s
  <2>1. copy.shipment \in Booked /\ ns[copy.shipment] = rs[copy.shipment]
    BY <1>2 DEF RecordsOK, BackedBy
  <2> QED
    BY <2>1 DEF BackedBy
<1> QED
  BY <1>1, <1>2

\* A later write disturbs no handler but one that is about to open the case.
LEMMA HandlerKept ==
  ASSUME NEW rs, RecordsOK(rs), NEW s \in Booked, NEW c \in CaseRecords,
         Later(rs[s], c), c.shipment = s,
         NEW p \in Posts, NEW h, HandlerOK(h, p, rs),
         h.phase = "put" => Shipment(p) # s
  PROVE  HandlerOK(h, p, [rs EXCEPT ![s] = c])
<1> DEFINE ns == [rs EXCEPT ![s] = c]
<1>1. Shipment(p) \in Booked
  BY ShipmentBooked
<1>2. ns[s] = c /\ c # NotOpened
  <2>1. ns[s] = c
    BY DEF RecordsOK
  <2>2. c._version > 0
    BY DEF Later, RecordsOK, CaseRecords
  <2> QED
    BY <2>1, <2>2, NotOpenedIsBlank
<1>3. Shipment(p) # s => ns[Shipment(p)] = rs[Shipment(p)]
  BY <1>1 DEF RecordsOK
<1>4. h.phase \in {"attach", "advance"} => h.copy.shipment = Shipment(p) /\ BackedBy(h.copy, ns)
  BY BackedKept DEF HandlerOK
<1> HIDE DEF ns
<1>5. HandlerOK(h, p, ns)
  BY <1>2, <1>3, <1>4 DEF HandlerOK
<1> QED
  BY <1>5 DEF ns

\* Nor a worker, nor what a client was told.
LEMMA OthersKept ==
  ASSUME NEW rs, RecordsOK(rs), NEW s \in Booked, NEW c \in CaseRecords, Later(rs[s], c)
  PROVE  /\ \A copy : WorkerOK(copy, rs) => WorkerOK(copy, [rs EXCEPT ![s] = c])
         /\ \A t : \A p \in Posts : ToldOK(t, p, rs) => ToldOK(t, p, [rs EXCEPT ![s] = c])
<1>1. \A copy : WorkerOK(copy, rs) => WorkerOK(copy, [rs EXCEPT ![s] = c])
  BY BackedKept DEF WorkerOK
<1>2. ASSUME NEW p \in Posts, NEW t, ToldOK(t, p, rs)
      PROVE  ToldOK(t, p, [rs EXCEPT ![s] = c])
  <2> DEFINE ns == [rs EXCEPT ![s] = c]
  <2>1. Shipment(p) \in Booked
    BY ShipmentBooked
  <2>2. rs[s] \in CaseRecords /\ ns[s] = c
    BY DEF RecordsOK
  <2>3. CASE Shipment(p) = s
    <3>1. ASSUME NEW outcome \in t PROVE outcome_for(c) = outcome
      <4>1. outcome_for(rs[s]) = outcome /\ outcome \in {"CLEARED", "BLOCKED"}
        BY <1>2, <2>3 DEF ToldOK
      <4>2. rs[s].state \in Decisive
        BY <2>2, <4>1, OutcomeOfState
      <4>3. c.state = rs[s].state
        BY <4>2 DEF Later
      <4> QED
        BY <4>1, <4>3 DEF outcome_for
    <3> QED
      BY <1>2, <2>2, <2>3, <3>1 DEF ToldOK
  <2>4. CASE Shipment(p) # s
    <3>1. ns[Shipment(p)] = rs[Shipment(p)]
      BY <2>1, <2>4 DEF RecordsOK
    <3> QED
      BY <1>2, <3>1 DEF ToldOK
  <2> QED
    BY <2>3, <2>4
<1> QED
  BY <1>1, <1>2

\* The current case is a copy of itself.
LEMMA RecordIsBacked ==
  ASSUME NEW rs, RecordsOK(rs), NEW s \in Booked, rs[s] # NotOpened
  PROVE  BackedBy(rs[s], rs) /\ rs[s].shipment = s
BY DEF RecordsOK, BackedBy, CaseRecords

\* A case as it is written back: one field anew, and the next version.
Rewritten(copy, state, reference) ==
  [shipment |-> copy.shipment, state |-> state, reference |-> reference,
   _version |-> copy._version + 1]

LEMMA BumpedRewrites ==
  ASSUME NEW copy \in CaseRecords, NEW state, NEW reference
  PROVE  /\ Bumped([copy EXCEPT !.state = state]) = Rewritten(copy, state, copy.reference)
         /\ Bumped([copy EXCEPT !.reference = reference])
            = Rewritten(copy, copy.state, reference)
<1>1. ASSUME NEW d, d = [copy EXCEPT !.state = state]
      PROVE  Bumped(d) = Rewritten(copy, state, copy.reference)
  <2>1. d = [shipment |-> copy.shipment, state |-> state, reference |-> copy.reference,
             _version |-> copy._version]
    BY <1>1 DEF CaseRecords
  <2> QED
    BY <2>1 DEF Bumped, Rewritten
<1>2. ASSUME NEW d, d = [copy EXCEPT !.reference = reference]
      PROVE  Bumped(d) = Rewritten(copy, copy.state, reference)
  <2>1. d = [shipment |-> copy.shipment, state |-> copy.state, reference |-> reference,
             _version |-> copy._version]
    BY <1>2 DEF CaseRecords
  <2> QED
    BY <2>1 DEF Bumped, Rewritten
<1> QED
  BY <1>1, <1>2

\* A copy that fits is the case, and what it is rewritten to is later.
LEMMA RewrittenIsLater ==
  ASSUME NEW rs, RecordsOK(rs), NEW copy, BackedBy(copy, rs),
         copy._version = rs[copy.shipment]._version,
         NEW state \in States, NEW reference \in ReferencesOf(copy.shipment),
         copy.state \in Decisive => state = copy.state,
         NEW c, c = Rewritten(copy, state, reference)
  PROVE  /\ c \in CaseRecords
         /\ c.shipment = copy.shipment
         /\ c.state = state
         /\ c # NotOpened /\ c.reference = reference
         /\ Later(rs[copy.shipment], c)
         /\ BackedBy(c, [rs EXCEPT ![copy.shipment] = c])
<1>1. copy \in CaseRecords /\ copy = rs[copy.shipment] /\ copy.shipment \in Booked
      /\ copy._version > 0
  BY DEF BackedBy
<1>2. c \in CaseRecords /\ c.shipment = copy.shipment /\ c._version = copy._version + 1
      /\ c.state = state /\ c.reference = reference
  <2>1. reference \in References
    BY DEF ReferencesOf, References
  <2> QED
    BY <1>1, <2>1 DEF CaseRecords, Rewritten
<1>3. Later(rs[copy.shipment], c)
  BY <1>1, <1>2 DEF Later, CaseRecords
<1>4. [rs EXCEPT ![copy.shipment] = c][copy.shipment] = c
  BY <1>1 DEF RecordsOK
<1>5. BackedBy(c, [rs EXCEPT ![copy.shipment] = c])
  BY <1>1, <1>2, <1>4 DEF BackedBy, CaseRecords
<1>6. c # NotOpened
  BY <1>1, <1>2, NotOpenedIsBlank DEF CaseRecords
<1> QED
  BY <1>2, <1>3, <1>5, <1>6

-----------------------------------------------------------------------------
(* How a step may change the state.                                           *)

\* A handler that moves keeps the invariant when it fits what is stored, and is
\* the only one of its shipment that is at work.
LEMMA HandlerMoves ==
  ASSUME handler \in [Posts -> HandlerRecords], Solo(handler),
         NEW rs, NEW p \in Posts, \A q \in Posts \ {p} : HandlerOK(handler[q], q, rs),
         NEW h, HandlerOK(h, p, rs), Moves(p, h),
         h.phase # "idle" =>
           \A q \in Posts : q # p /\ Shipment(q) = Shipment(p) => handler[q].phase = "idle"
  PROVE  /\ handler' \in [Posts -> HandlerRecords]
         /\ \A q \in Posts : HandlerOK(handler'[q], q, rs)
         /\ Solo(handler')
<1>1. h \in HandlerRecords
  BY DEF HandlerOK
<1>2. handler' \in [Posts -> HandlerRecords]
  BY <1>1 DEF Moves
<1>3. \A q \in Posts : handler'[q] = IF q = p THEN h ELSE handler[q]
  BY DEF Moves
<1>4. \A q \in Posts : HandlerOK(handler'[q], q, rs)
  BY <1>3
<1>5. Solo(handler')
  BY <1>3 DEF Solo
<1> QED
  BY <1>2, <1>4, <1>5

\* Whoever is at work on a shipment is alone.
LEMMA Alone ==
  ASSUME VerdictInv, NEW p \in Posts, handler[p].phase # "idle"
  PROVE  \A q \in Posts : q # p /\ Shipment(q) = Shipment(p) => handler[q].phase = "idle"
BY DEF VerdictInv, Solo

\* A handler that has ended fits anything.
LEMMA IdleFits == \A rs : \A p \in Posts : HandlerOK(Idle, p, rs)
BY NotOpenedIsBlank DEF HandlerOK, HandlerRecords, Idle, Phases

\* A step that writes a later version of a case keeps what holds of everybody
\* but the handlers it moves and those about to open that case.
LEMMA WriteKeeps ==
  ASSUME VerdictInv, NEW s \in Booked, NEW c \in CaseRecords, Later(records[s], c),
         c.shipment = s, records' = [records EXCEPT ![s] = c]
  PROVE  /\ RecordsOK(records')
         /\ \A q \in Posts : (handler[q].phase = "put" => Shipment(q) # s)
                             => HandlerOK(handler[q], q, records')
         /\ \A w \in Workers : WorkerOK(worker[w], records')
         /\ \A q \in Posts : ToldOK(told[q], q, records')
<1>1. RecordsOK(records)
  BY DEF VerdictInv
<1>2. RecordsOK([records EXCEPT ![s] = c])
  BY <1>1, RecordsKept
<1>3. \A q \in Posts : (handler[q].phase = "put" => Shipment(q) # s)
                     => HandlerOK(handler[q], q, [records EXCEPT ![s] = c])
  BY <1>1, HandlerKept DEF VerdictInv
<1>4. /\ \A w \in Workers : WorkerOK(worker[w], [records EXCEPT ![s] = c])
      /\ \A q \in Posts : ToldOK(told[q], q, [records EXCEPT ![s] = c])
  BY <1>1, OthersKept DEF VerdictInv
<1> QED
  BY <1>2, <1>3, <1>4

-----------------------------------------------------------------------------
(* The steps that write nothing.                                              *)

\* A handler moves and nothing else.
LEMMA MoveKeeps ==
  ASSUME VerdictInv, NEW p \in Posts, NEW h, HandlerOK(h, p, records), Moves(p, h),
         h.phase # "idle" =>
           \A q \in Posts : q # p /\ Shipment(q) = Shipment(p) => handler[q].phase = "idle",
         UNCHANGED <<records, worker, told>>
  PROVE  VerdictInv'
<1>1. /\ handler' \in [Posts -> HandlerRecords]
      /\ \A q \in Posts : HandlerOK(handler'[q], q, records)
      /\ Solo(handler')
  BY HandlerMoves DEF VerdictInv
<1> QED
  BY <1>1 DEF VerdictInv

\* An answer tells the verdict of a case whose decision still stands.
LEMMA AnswersKeep ==
  ASSUME VerdictInv, NEW p \in Posts, NEW c \in CaseRecords,
         c.state \in Decisive => records[Shipment(p)].state = c.state,
         Answers(p, c), UNCHANGED worker
  PROVE  VerdictInv'
<1> DEFINE more == {outcome_for(c)} \cap {"CLEARED", "BLOCKED"}
<1>1. /\ handler' \in [Posts -> HandlerRecords]
      /\ \A q \in Posts : HandlerOK(handler'[q], q, records)
      /\ Solo(handler')
  <2>1. Moves(p, Idle) /\ Idle.phase = "idle"
    BY DEF Answers, Idle
  <2> QED
    BY <2>1, IdleFits, HandlerMoves DEF VerdictInv
<1>2. ToldOK(more, p, records)
  <2>1. more \subseteq {"CLEARED", "BLOCKED"}
    OBVIOUS
  <2>2. ASSUME NEW outcome \in more PROVE outcome_for(records[Shipment(p)]) = outcome
    <3>1. outcome = outcome_for(c) /\ outcome \in {"CLEARED", "BLOCKED"}
      OBVIOUS
    <3>2. c.state \in Decisive
      BY <3>1, OutcomeOfState
    <3> QED
      BY <3>1, <3>2 DEF outcome_for
  <2> QED
    BY <2>1, <2>2 DEF ToldOK
<1>3. told' = [told EXCEPT ![p] = @ \cup more] /\ records' = records
  BY DEF Answers
<1> HIDE DEF more
<1>4. \A q \in Posts : told'[q] = IF q = p THEN told[p] \cup more ELSE told[q]
  BY <1>3 DEF VerdictInv
<1>5. \A q \in Posts : ToldOK(told'[q], q, records)
  BY <1>2, <1>4 DEF VerdictInv, ToldOK
<1>6. told' \in [Posts -> SUBSET {"CLEARED", "BLOCKED"}]
  BY <1>2, <1>3 DEF VerdictInv, ToldOK
<1> QED
  BY <1>1, <1>3, <1>5, <1>6 DEF VerdictInv

\* The steps of a handler before it writes.
LEMMA ReadingKeeps ==
  ASSUME VerdictInv, ~Impatient, NEW p \in Posts,
         Post(p) \/ Find(p) \/ AttachRead(p) \/ Accepted(p) \/ Break(p)
  PROVE  VerdictInv'
<1>1. /\ handler[p] \in HandlerRecords /\ HandlerOK(handler[p], p, records)
      /\ RecordsOK(records) /\ Shipment(p) \in Booked
  BY ShipmentBooked DEF VerdictInv
<1>2. CASE Post(p)
  <2> DEFINE h == [Idle EXCEPT !.phase = "lookup"]
  <2>1. HandlerOK(h, p, records)
    BY NotOpenedIsBlank DEF HandlerOK, HandlerRecords, Idle, Phases
  <2>2. \A q \in Posts : Shipment(q) = Shipment(p) => handler[q].phase = "idle"
    BY <1>2 DEF Post, Stands
  <2>3. Moves(p, h) /\ UNCHANGED <<records, worker, told>>
    BY <1>2 DEF Post
  <2> HIDE DEF h
  <2> QED
    BY <2>1, <2>2, <2>3, MoveKeeps
<1>3. CASE Find(p)
  <2> DEFINE h == [handler[p] EXCEPT !.phase = IF Opened(Shipment(p)) THEN "read" ELSE "put"]
  <2>1. HandlerOK(h, p, records)
    BY <1>1 DEF HandlerOK, HandlerRecords, Phases, Opened
  <2>2. handler[p].phase # "idle" /\ Moves(p, h) /\ UNCHANGED <<records, worker, told>>
    BY <1>3 DEF Find, Stands
  <2> HIDE DEF h
  <2> QED
    BY <2>1, <2>2, MoveKeeps, Alone
<1>4. CASE AttachRead(p)
  <2> DEFINE h == [handler[p] EXCEPT !.phase = "attach", !.copy = records[Shipment(p)]]
  <2>1. handler[p].phase = "read" /\ Moves(p, h) /\ UNCHANGED <<records, worker, told>>
    BY <1>4 DEF AttachRead, Stands
  <2>2. records[Shipment(p)] # NotOpened /\ records[Shipment(p)] \in CaseRecords
    BY <1>1, <2>1 DEF HandlerOK, RecordsOK
  <2>3. BackedBy(records[Shipment(p)], records) /\ records[Shipment(p)].shipment = Shipment(p)
    BY <1>1, <2>2, RecordIsBacked
  <2>4. h \in HandlerRecords /\ h.phase = "attach" /\ h.copy = records[Shipment(p)]
    BY <1>1, <2>2 DEF HandlerRecords, Phases
  <2> HIDE DEF h
  <2>5. HandlerOK(h, p, records)
    BY <2>2, <2>3, <2>4 DEF HandlerOK
  <2> QED
    BY <2>1, <2>5, MoveKeeps, Alone
<1>5. CASE Accepted(p) \/ Break(p)
  <2>1. Moves(p, Idle) /\ UNCHANGED <<records, worker, told>>
    BY <1>5 DEF Accepted, Break, Fails
  <2>2. Idle.phase = "idle"
    BY DEF Idle
  <2> QED
    BY <2>1, <2>2, IdleFits, MoveKeeps
<1> QED
  BY <1>2, <1>3, <1>4, <1>5

\* The steps that tell a verdict.
LEMMA TellingKeeps ==
  ASSUME VerdictInv, NEW p \in Posts, Lookup(p) \/ Answer(p) \/ compliance_audit_get(p)
  PROVE  VerdictInv'
<1>1. /\ handler[p] \in HandlerRecords /\ HandlerOK(handler[p], p, records)
      /\ RecordsOK(records) /\ Shipment(p) \in Booked
  BY ShipmentBooked DEF VerdictInv
<1>2. CASE Lookup(p)
  <2> DEFINE has == {s \in Booked : records[s].reference = Reference(p)}
  <2>1. CASE has # {}
    <3>1. PICK s \in has : Answers(p, records[s])
      BY <1>2, <2>1 DEF Lookup
    <3>2. s = Shipment(p)
      <4>1. s \in Booked /\ Reference(p) \in ReferencesOf(s)
        BY <1>1, <3>1 DEF RecordsOK
      <4>2. Reference(p) # NoReference
        BY PostsAssumption DEF Reference, NoReference
      <4>3. PICK q \in Posts : Shipment(q) = s /\ Reference(q) = Reference(p)
        BY <4>1, <4>2 DEF ReferencesOf
      <4> QED
        BY <4>3, PostsAssumption DEF Reference, Shipment
    <3>3. records[s] \in CaseRecords /\ UNCHANGED worker
      BY <1>1, <1>2, <3>2 DEF RecordsOK, Lookup
    <3> QED
      BY <3>1, <3>2, <3>3, AnswersKeep
  <2>2. CASE has = {}
    <3> DEFINE h == [handler[p] EXCEPT !.phase = "find"]
    <3>1. Moves(p, h) /\ UNCHANGED <<records, worker, told>> /\ handler[p].phase # "idle"
      BY <1>2, <2>2 DEF Lookup, Stands
    <3>2. HandlerOK(h, p, records)
      BY <1>1 DEF HandlerOK, HandlerRecords, Phases
    <3> HIDE DEF h
    <3> QED
      BY <3>1, <3>2, MoveKeeps, Alone
  <2> QED
    BY <2>1, <2>2
<1>3. CASE Answer(p)
  <2>1. Stands(p, "advance") /\ Answers(p, handler[p].copy) /\ UNCHANGED worker
    BY <1>3 DEF Answer
  <2>2. handler[p].copy \in CaseRecords
        /\ (handler[p].copy.state \in Decisive => records[Shipment(p)].state = handler[p].copy.state)
    BY <1>1, <2>1 DEF Stands, HandlerOK, HandlerRecords, BackedBy
  <2> QED
    BY <2>1, <2>2, AnswersKeep
<1>4. CASE compliance_audit_get(p)
  <2>1. records[Shipment(p)] \in CaseRecords /\ UNCHANGED worker
        /\ Answers(p, records[Shipment(p)])
    BY <1>1, <1>4 DEF RecordsOK, compliance_audit_get
  <2> QED
    BY <2>1, AnswersKeep
<1> QED
  BY <1>2, <1>3, <1>4

-----------------------------------------------------------------------------
(* The steps that write a case.                                               *)

\* A handler writes a later version of its case and goes on with it.
LEMMA WriterKeeps ==
  ASSUME VerdictInv, NEW p \in Posts, handler[p].phase # "idle",
         NEW c \in CaseRecords, c.shipment = Shipment(p), Later(records[Shipment(p)], c), Write(c),
         NEW h, HandlerOK(h, p, records'), Moves(p, h), UNCHANGED <<worker, told>>
  PROVE  VerdictInv'
<1>1. Shipment(p) \in Booked /\ records' = [records EXCEPT ![Shipment(p)] = c]
  BY ShipmentBooked DEF Write
<1>2. /\ RecordsOK(records')
      /\ \A q \in Posts : (handler[q].phase = "put" => Shipment(q) # Shipment(p))
                          => HandlerOK(handler[q], q, records')
      /\ \A w \in Workers : WorkerOK(worker[w], records')
      /\ \A q \in Posts : ToldOK(told[q], q, records')
  BY <1>1, WriteKeeps
<1>3. \A q \in Posts \ {p} : HandlerOK(handler[q], q, records')
  BY <1>2, Alone
<1>4. /\ handler' \in [Posts -> HandlerRecords]
      /\ \A q \in Posts : HandlerOK(handler'[q], q, records')
      /\ Solo(handler')
  BY <1>3, Alone, HandlerMoves DEF VerdictInv
<1> QED
  BY <1>2, <1>4 DEF VerdictInv

\* So does a worker or a reviewer, who holds a case that is open already.
LEMMA OutsiderKeeps ==
  ASSUME VerdictInv, NEW s \in Booked, records[s] # NotOpened,
         NEW c \in CaseRecords, c.shipment = s, Later(records[s], c), Write(c),
         UNCHANGED <<handler, told>>,
         worker' \in [Workers -> CaseRecords],
         \A w \in Workers : worker'[w] \in {worker[w], NotOpened}
  PROVE  VerdictInv'
<1>1. records' = [records EXCEPT ![s] = c]
  BY DEF Write
<1>2. /\ RecordsOK(records')
      /\ \A q \in Posts : (handler[q].phase = "put" => Shipment(q) # s)
                          => HandlerOK(handler[q], q, records')
      /\ \A w \in Workers : WorkerOK(worker[w], records')
      /\ \A q \in Posts : ToldOK(told[q], q, records')
  BY <1>1, WriteKeeps
<1>3. \A q \in Posts : handler[q].phase = "put" => Shipment(q) # s
  BY DEF VerdictInv, HandlerOK
<1>4. \A w \in Workers : WorkerOK(worker'[w], records')
  BY <1>2 DEF WorkerOK
<1> QED
  BY <1>2, <1>3, <1>4 DEF VerdictInv

\* A turn of the loop on a copy.
LEMMA TurnFields ==
  ASSUME NEW h \in HandlerRecords, h.phase = "advance", NEW c \in CaseRecords,
         NEW next, next = [h EXCEPT !.copy = c, !.turn = @ + 1]
  PROVE  next \in HandlerRecords /\ next.phase = "advance" /\ next.copy = c
<1>1. h.turn \in Nat
  BY DEF HandlerRecords
<1>2. next = [phase |-> "advance", copy |-> c, turn |-> h.turn + 1]
  <2>1. h = [phase |-> "advance", copy |-> h.copy, turn |-> h.turn]
    BY DEF HandlerRecords
  <2> QED
    BY <2>1
<1> QED
  BY <1>1, <1>2 DEF HandlerRecords, Phases

\* An advance of a case that is not complete leads to a state of cases.
LEMMA AdvancedStates ==
  ASSUME NEW state, NEW next \in Advanced(state)
  PROVE  next \in States
BY DEF Advanced, States, Undecided, IN_FLIGHT, Decisive, CLEARED

\* The handler's own writes.
LEMMA WritingKeeps ==
  ASSUME VerdictInv, NEW p \in Posts, PutCase(p) \/ AttachPut(p) \/ Advance(p)
  PROVE  VerdictInv'
<1>1. /\ handler[p] \in HandlerRecords /\ HandlerOK(handler[p], p, records)
      /\ RecordsOK(records) /\ Shipment(p) \in Booked
  BY ShipmentBooked DEF VerdictInv
<1> DEFINE copy == handler[p].copy
<1>2. CASE PutCase(p)
  <2> DEFINE c == FreshCase(Shipment(p))
             h == [handler[p] EXCEPT !.phase = "read"]
  <2>1. handler[p].phase = "put" /\ Write(c) /\ Moves(p, h) /\ UNCHANGED <<worker, told>>
    BY <1>2 DEF PutCase, Stands
  <2>2. records[Shipment(p)] = NotOpened
    BY <1>1, <2>1 DEF HandlerOK
  <2>3. /\ c \in CaseRecords /\ c.shipment = Shipment(p) /\ c # NotOpened
        /\ Later(records[Shipment(p)], c)
    BY <1>1, <2>2, NotOpenedIsBlank
    DEF FreshCase, CaseRecords, States, Undecided, IN_FLIGHT, References, ReferencesOf, Later, NotOpened
  <2>4. h \in HandlerRecords /\ h.phase = "read"
    BY <1>1 DEF HandlerRecords, Phases
  <2>5. records'[Shipment(p)] = c
    BY <1>1, <2>1, <2>3 DEF Write, RecordsOK
  <2> HIDE DEF c, h
  <2>6. HandlerOK(h, p, records')
    BY <2>3, <2>4, <2>5 DEF HandlerOK
  <2> QED
    BY <2>1, <2>3, <2>6, WriterKeeps
<1>3. CASE AttachPut(p)
  <2>1. handler[p].phase = "attach" /\ UNCHANGED worker
    BY <1>3 DEF AttachPut, Stands
  <2>2. BackedBy(copy, records) /\ copy.shipment = Shipment(p) /\ copy \in CaseRecords
    BY <1>1, <2>1 DEF HandlerOK, BackedBy
  <2>3. CASE Fits(copy)
    <3> DEFINE c == Bumped([copy EXCEPT !.reference = Reference(p)])
               h == [handler[p] EXCEPT !.phase = "advance", !.copy = c]
    <3>1. Write(c) /\ Moves(p, h) /\ UNCHANGED told
      BY <1>3, <2>3 DEF AttachPut
    <3>2. c = Rewritten(copy, copy.state, Reference(p))
      BY <2>2, BumpedRewrites
    <3>3. copy._version = records[copy.shipment]._version
          /\ copy.state \in States /\ Reference(p) \in ReferencesOf(copy.shipment)
      BY <2>2, <2>3 DEF Fits, CaseRecords, ReferencesOf
    <3> HIDE DEF c
    <3>4. /\ c \in CaseRecords /\ c.shipment = Shipment(p) /\ c # NotOpened
          /\ Later(records[Shipment(p)], c)
          /\ BackedBy(c, [records EXCEPT ![Shipment(p)] = c])
      BY <1>1, <2>2, <3>2, <3>3, RewrittenIsLater
    <3>5. h \in HandlerRecords /\ h.phase = "advance" /\ h.copy = c
      BY <1>1, <3>4 DEF HandlerRecords, Phases
    <3> HIDE DEF h
    <3>6. records' = [records EXCEPT ![Shipment(p)] = c] /\ records'[Shipment(p)] = c
      BY <1>1, <3>1, <3>4 DEF Write, RecordsOK
    <3>7. HandlerOK(h, p, records')
      BY <3>4, <3>5, <3>6 DEF HandlerOK
    <3> QED
      BY <2>1, <3>1, <3>4, <3>7, WriterKeeps
  <2>4. CASE ~Fits(copy)
    <3>1. Moves(p, Idle) /\ UNCHANGED <<records, told>> /\ Idle.phase = "idle"
      BY <1>3, <2>4 DEF AttachPut, Fails, Idle
    <3> QED
      BY <2>1, <3>1, IdleFits, MoveKeeps
  <2> QED
    BY <2>3, <2>4
<1>4. CASE Advance(p)
  <2>1. handler[p].phase = "advance" /\ UNCHANGED <<worker, told>> /\ ~is_complete(copy)
        /\ handler[p].turn \in Nat
    BY <1>1, <1>4 DEF Advance, Stands, HandlerRecords
  <2>2. /\ BackedBy(copy, records) /\ copy.shipment = Shipment(p) /\ copy \in CaseRecords
        /\ copy.state \notin Decisive
    BY <1>1, <2>1, OutcomeOfState DEF HandlerOK, BackedBy, is_complete, Undecided
  <2>3. CASE Fits(copy)
    <3>1. PICK state \in Advanced(copy.state) :
            LET c == Bumped([copy EXCEPT !.state = state]) IN
            Write(c) /\ Moves(p, [handler[p] EXCEPT !.copy = c, !.turn = @ + 1])
      BY <1>4, <2>3 DEF Advance
    <3> DEFINE c == Bumped([copy EXCEPT !.state = state])
               h == [handler[p] EXCEPT !.copy = c, !.turn = @ + 1]
    <3>2. Write(c) /\ Moves(p, h)
      BY <3>1
    <3>3. c = Rewritten(copy, state, copy.reference)
      BY <2>2, BumpedRewrites
    <3>4. copy._version = records[copy.shipment]._version /\ copy = records[Shipment(p)]
      BY <2>2, <2>3 DEF Fits, BackedBy
    <3>5. copy.reference \in ReferencesOf(copy.shipment) /\ state \in States
      BY <1>1, <2>2, <3>1, <3>4, AdvancedStates DEF RecordsOK
    <3> HIDE DEF c
    <3>6. /\ c \in CaseRecords /\ c.shipment = Shipment(p) /\ c # NotOpened
          /\ Later(records[Shipment(p)], c)
          /\ BackedBy(c, [records EXCEPT ![Shipment(p)] = c])
      BY <1>1, <2>2, <3>3, <3>4, <3>5, RewrittenIsLater
    <3>7. h \in HandlerRecords /\ h.phase = "advance" /\ h.copy = c
      BY <1>1, <2>1, <3>6, TurnFields
    <3> HIDE DEF h
    <3>8. records' = [records EXCEPT ![Shipment(p)] = c] /\ records'[Shipment(p)] = c
      BY <1>1, <3>2, <3>6 DEF Write, RecordsOK
    <3>9. HandlerOK(h, p, records')
      BY <3>6, <3>7, <3>8 DEF HandlerOK
    <3> QED
      BY <2>1, <3>2, <3>6, <3>9, WriterKeeps
  <2>4. CASE ~Fits(copy)
    <3> DEFINE r == records[Shipment(p)]
               h == [handler[p] EXCEPT !.copy = r, !.turn = @ + 1]
    <3>1. Moves(p, h) /\ UNCHANGED records
      BY <1>4, <2>4 DEF Advance
    <3>2. r # NotOpened /\ r \in CaseRecords
      BY <1>1, <2>1 DEF HandlerOK, RecordsOK
    <3>3. BackedBy(r, records) /\ r.shipment = Shipment(p)
      BY <1>1, <3>2, RecordIsBacked
    <3>4. h \in HandlerRecords /\ h.phase = "advance" /\ h.copy = r
      <4> HIDE DEF r
      <4> QED
        BY <1>1, <2>1, <3>2, TurnFields
    <3> HIDE DEF h
    <3>5. HandlerOK(h, p, records)
      BY <3>2, <3>3, <3>4 DEF HandlerOK
    <3> QED
      BY <2>1, <3>1, <3>5, MoveKeeps, Alone
  <2> QED
    BY <2>3, <2>4
<1> QED
  BY <1>2, <1>3, <1>4

\* The writes of workers and reviewers.
LEMMA OutsidersKeep ==
  ASSUME VerdictInv,
         (\E w \in Workers : Take(w) \/ Work(w)) \/ (\E s \in Booked : Decide(s))
  PROVE  VerdictInv'
<1>1. RecordsOK(records) /\ worker \in [Workers -> CaseRecords]
  BY DEF VerdictInv
<1>2. ASSUME NEW w \in Workers, Take(w) PROVE VerdictInv'
  <2>1. PICK s \in Booked : records[s].state \in IN_FLIGHT
                           /\ worker' = [worker EXCEPT ![w] = records[s]]
    BY <1>2 DEF Take
  <2>2. records[s] # NotOpened /\ records[s] \in CaseRecords
    BY <1>1, <2>1 DEF RecordsOK, NotOpened, IN_FLIGHT
  <2>3. WorkerOK(records[s], records)
    BY <1>1, <2>1, <2>2, RecordIsBacked DEF WorkerOK
  <2>4. /\ worker' \in [Workers -> CaseRecords]
        /\ \A v \in Workers : worker'[v] \in {worker[v], records[s]}
    BY <1>1, <2>1, <2>2
  <2>5. UNCHANGED <<records, handler, told>>
    BY <1>2 DEF Take
  <2> QED
    BY <2>3, <2>4, <2>5 DEF VerdictInv
<1>3. ASSUME NEW w \in Workers, Work(w) PROVE VerdictInv'
  <2> DEFINE copy == worker[w]
  <2>1. copy.state \in IN_FLIGHT /\ BackedBy(copy, records) /\ copy.shipment \in Booked
        /\ copy \in CaseRecords
    BY <1>3 DEF Work, VerdictInv, WorkerOK, BackedBy
  <2>2. /\ worker' \in [Workers -> CaseRecords]
        /\ \A v \in Workers : worker'[v] \in {worker[v], NotOpened}
        /\ UNCHANGED <<handler, told>>
    BY <1>1, <1>3, NotOpenedIsBlank DEF Work
  <2>3. CASE Fits(copy)
    <3>1. PICK state \in Advanced(copy.state) \cup {copy.state, "DEAD_LETTER"} :
            Write(Bumped([copy EXCEPT !.state = state]))
      BY <1>3, <2>3 DEF Work
    <3> DEFINE c == Bumped([copy EXCEPT !.state = state])
    <3>2. c = Rewritten(copy, state, copy.reference)
      BY <2>1, BumpedRewrites
    <3>3. copy._version = records[copy.shipment]._version /\ copy = records[copy.shipment]
      BY <2>1, <2>3 DEF Fits, BackedBy
    <3>4. /\ copy.reference \in ReferencesOf(copy.shipment) /\ state \in States
          /\ copy.state \notin Decisive
      BY <1>1, <2>1, <3>1, <3>3, AdvancedStates, OutcomeOfState DEF RecordsOK, States, Undecided
    <3> HIDE DEF c
    <3>5. /\ c \in CaseRecords /\ c.shipment = copy.shipment /\ c # NotOpened
          /\ Later(records[copy.shipment], c)
          /\ BackedBy(c, [records EXCEPT ![copy.shipment] = c])
      BY <1>1, <2>1, <3>2, <3>3, <3>4, RewrittenIsLater
    <3>6. records[copy.shipment] # NotOpened
      BY <2>1, <3>3 DEF NotOpened, IN_FLIGHT
    <3> QED
      BY <2>1, <2>2, <3>1, <3>5, <3>6, OutsiderKeeps DEF c
  <2>4. CASE ~Fits(copy)
    <3>1. UNCHANGED records
      BY <1>3, <2>4 DEF Work
    <3> QED
      BY <2>2, <3>1 DEF VerdictInv, WorkerOK
  <2> QED
    BY <2>3, <2>4
<1>4. ASSUME NEW s \in Booked, Decide(s) PROVE VerdictInv'
  <2>1. PICK state \in {"RELEASED_BY_HUMAN", "BLOCKED_BY_HUMAN", "PENDING_HUMAN"} :
          Write(Bumped([records[s] EXCEPT !.state = state]))
    BY <1>4 DEF Decide
  <2> DEFINE c == Bumped([records[s] EXCEPT !.state = state])
  <2>2. records[s].state \in {"PENDING_HUMAN", "HELD_FOR_REVIEW", "ESCALATED"}
        /\ UNCHANGED <<handler, worker, told>>
    BY <1>4 DEF Decide
  <2>3. records[s] # NotOpened /\ records[s] \in CaseRecords
    BY <1>1, <2>2 DEF NotOpened, RecordsOK
  <2>4. BackedBy(records[s], records) /\ records[s].shipment = s
    BY <1>1, <2>3, RecordIsBacked
  <2>5. c = Rewritten(records[s], state, records[s].reference)
    BY <2>3, BumpedRewrites
  <2>6. /\ records[s].reference \in ReferencesOf(s) /\ state \in States
        /\ records[s].state \notin Decisive
    BY <1>1, <2>2, <2>3, OutcomeOfState DEF RecordsOK, States, Undecided, Decisive, CLEARED
  <2> HIDE DEF c
  <2>7. /\ c \in CaseRecords /\ c.shipment = s /\ c # NotOpened
        /\ Later(records[s], c)
        /\ BackedBy(c, [records EXCEPT ![s] = c])
    BY <1>1, <2>4, <2>5, <2>6, RewrittenIsLater
  <2> QED
    BY <1>1, <2>1, <2>2, <2>3, <2>7, OutsiderKeeps DEF c
<1> QED
  BY <1>2, <1>3, <1>4

-----------------------------------------------------------------------------
\* The inductive step: with clients that wait, every step keeps the cases in
\* order, copies behind or equal to them, and verdicts that were told standing.
THEOREM VerdictStep ==
  /\ AuditInit => VerdictInv
  /\ ~Impatient /\ VerdictInv /\ [AuditNext]_auditVars => VerdictInv'
<1>1. AuditInit => VerdictInv
  <2> SUFFICES ASSUME AuditInit PROVE VerdictInv
    OBVIOUS
  <2>1. RecordsOK(records)
    BY NotOpenedIsBlank DEF AuditInit, RecordsOK, ReferencesOf, NotOpened
  <2>2. \A p \in Posts : handler[p] = Idle
    BY DEF AuditInit
  <2>3. Idle \in HandlerRecords /\ Idle.phase = "idle"
    BY NotOpenedIsBlank DEF Idle, HandlerRecords, Phases
  <2>4. handler \in [Posts -> HandlerRecords] /\ Solo(handler)
        /\ \A p \in Posts : HandlerOK(handler[p], p, records)
    BY <2>2, <2>3, IdleFits DEF AuditInit, Solo
  <2>5. worker \in [Workers -> CaseRecords] /\ \A w \in Workers : WorkerOK(worker[w], records)
    BY NotOpenedIsBlank DEF AuditInit, WorkerOK
  <2>6. told \in [Posts -> SUBSET {"CLEARED", "BLOCKED"}]
        /\ \A p \in Posts : ToldOK(told[p], p, records)
    BY DEF AuditInit, ToldOK
  <2> QED
    BY <2>1, <2>4, <2>5, <2>6 DEF VerdictInv
<1>2. ASSUME ~Impatient, VerdictInv, [AuditNext]_auditVars PROVE VerdictInv'
  <2>1. CASE UNCHANGED auditVars
    BY <1>2, <2>1 DEF VerdictInv, auditVars
  <2>2. CASE \E p \in Posts :
               Post(p) \/ Find(p) \/ AttachRead(p) \/ Accepted(p) \/ Break(p)
    BY <1>2, <2>2, ReadingKeeps
  <2>3. CASE \E p \in Posts : Lookup(p) \/ Answer(p) \/ compliance_audit_get(p)
    BY <1>2, <2>3, TellingKeeps
  <2>4. CASE \E p \in Posts : PutCase(p) \/ AttachPut(p) \/ Advance(p)
    BY <1>2, <2>4, WritingKeeps
  <2>5. CASE (\E w \in Workers : Take(w) \/ Work(w)) \/ (\E s \in Booked : Decide(s))
    BY <1>2, <2>5, OutsidersKeep
  <2> QED
    BY <1>2, <2>1, <2>2, <2>3, <2>4, <2>5 DEF AuditNext
<1> QED
  BY <1>1, <1>2

\* A shipment has one verdict for every client that waits for an answer before
\* it posts again, however many posts, workers and reviewers there are
\* (app.compliance_audit); find_twice shows what an impatient one may see.
THEOREM PatientClientsGetOneVerdict ==
  ASSUME ~Impatient
  PROVE  AuditSpec => []OneVerdict
<1>1. AuditInit => VerdictInv
  BY VerdictStep
<1>2. VerdictInv /\ [AuditNext]_auditVars => VerdictInv'
  BY VerdictStep
<1>3. VerdictInv => OneVerdict
  BY DEF VerdictInv, ToldOK, OneVerdict
<1> QED
  BY <1>1, <1>2, <1>3, PTL DEF AuditSpec

-----------------------------------------------------------------------------
(* Files.                                                                    *)

-----------------------------------------------------------------------------
(* What the screens of a file ask for.  A case that a suspicious file opened  *)
(* is written only by handlers of that file: one whose id was made up by one  *)
(* handler, any other by the handlers of the one file that states its booking.*)

MadeUp(n) == <<"made up", n>>
ByBooking(b) == <<"booking", b>>
Ids == {MadeUp(n) : n \in Nat} \cup {ByBooking(Content[o].booking) : o \in Objects}
IntakePhases == {"free", "sweep", "check", "fetch", "screen", "read", "open", "put", "flag", "mark"}
Verdicts == [blocked : BOOLEAN, available : BOOLEAN, requires_human : BOOLEAN]
OpenCases == [state : {"INGESTED", "PENDING_HUMAN"}, requires_human : BOOLEAN, model_invoked : BOOLEAN]
Hands == [phase : IntakePhases, object : Objects, names : Seq(Objects), sweeping : BOOLEAN,
          taken : Nat, staged : BOOLEAN, screened : BOOLEAN, armor : Verdicts,
          case : Ids \cup {NoCase}, copy : OpenCases]

\* The id a case of the file may have, `n' ids being made up so far.
BelongsTo(id, o, n) ==
  \/ \E k \in Nat : k < n /\ id = MadeUp(k)
  \/ Content[o].booking # NoBooking /\ id = ByBooking(Content[o].booking)

IntakeTyped ==
  /\ serial \in Nat
  /\ hand \in [Handlers -> Hands]
  /\ DOMAIN opened \subseteq Ids
  /\ \A i \in DOMAIN opened : opened[i] \in OpenCases
  /\ markers \in [Objects -> Ids \cup {NoCase, Unmarked}]

\* The cases a handler stands before the second write of, or died before it.
Awaited == undone \cup {hand[h].case : h \in {g \in Handlers : At(g, "flag")}}

\* A case `id' that stands for file `o': flagged once, and a person's if the file is
\* suspicious, or put anew since.
Linked(id, o, os, n, fs, as) ==
  id # NoCase => /\ id \in DOMAIN os /\ id \in fs /\ BelongsTo(id, o, n)
                 /\ Suspicious(o) => os[id].requires_human \/ id \in as

HandLinked(x, os, n, fs, as) ==
  /\ x.phase = "mark" => Linked(x.case, x.object, os, n, fs, as)
  /\ x.phase \in {"put", "flag"} => BelongsTo(x.case, x.object, n)
  /\ x.phase = "flag" => x.case \in DOMAIN os

MarkersLink ==
  \A o \in Objects : markers[o] # Unmarked => Linked(markers[o], o, opened, serial, flagged, Awaited)
HandsLink == \A h \in Handlers : HandLinked(hand[h], opened, serial, flagged, Awaited)

\* An id made up is in one handler's hands until its case is flagged.
Private(h, id) ==
  /\ \A o \in Objects : markers[o] # id
  /\ \A g \in Handlers \ {h} : hand[g].phase \in {"put", "flag", "mark"} => hand[g].case # id
MadeUpIsPrivate ==
  \A h \in Handlers, n \in Nat :
    (hand[h].phase \in {"put", "flag"} /\ hand[h].case = MadeUp(n)) => Private(h, MadeUp(n))

FlagInv == IntakeTyped /\ MarkersLink /\ HandsLink /\ MadeUpIsPrivate

LEMMA IdsDiffer ==
  /\ \A m, n : MadeUp(m) = MadeUp(n) => m = n
  /\ \A m, n : ByBooking(m) = ByBooking(n) => m = n
  /\ \A m, n : MadeUp(m) # ByBooking(n)
  /\ NoCase \notin Ids /\ Unmarked \notin Ids /\ NoCase # Unmarked
<1>1. \A m : Len(MadeUp(m)) = 2 /\ MadeUp(m)[1] = "made up" /\ MadeUp(m)[2] = m BY DEF MadeUp
<1>2. \A m : Len(ByBooking(m)) = 2 /\ ByBooking(m)[1] = "booking" /\ ByBooking(m)[2] = m
  BY DEF ByBooking
<1>3. Len(NoCase) = 1 /\ Len(Unmarked) = 1 /\ NoCase[1] = "no case" /\ Unmarked[1] = "no marker"
  BY DEF NoCase, Unmarked
<1> HIDE DEF NoCase, Unmarked
<1>4. \A m, n : MadeUp(m) = MadeUp(n) => m = n
  <2> SUFFICES ASSUME NEW m, NEW n, MadeUp(m) = MadeUp(n) PROVE m = n OBVIOUS
  <2>1. MadeUp(m)[2] = m /\ MadeUp(n)[2] = n BY <1>1
  <2> QED BY <2>1
<1>5. \A m, n : ByBooking(m) = ByBooking(n) => m = n
  <2> TAKE m, n
  <2> QED BY <1>2
<1>6. \A m, n : MadeUp(m) # ByBooking(n)
  <2> TAKE m, n
  <2> QED BY <1>1, <1>2
<1>7. \A m : MadeUp(m) # NoCase /\ MadeUp(m) # Unmarked /\ ByBooking(m) # NoCase /\ ByBooking(m) # Unmarked
  <2> TAKE m
  <2> QED BY <1>1, <1>2, <1>3
<1>8. NoCase # Unmarked BY <1>3
<1>9. NoCase \notin Ids /\ Unmarked \notin Ids BY <1>7 DEF Ids
<1> QED BY <1>4, <1>5, <1>6, <1>8, <1>9

\* Another file that states the same booking has ids of its own only when made up.
LEMMA OneOwner ==
  ASSUME \A o, q \in Objects : Content[o].booking = Content[q].booking /\ Content[o].booking # NoBooking
            => o = q,
         NEW o \in Objects, NEW q \in Objects, NEW n, NEW id,
         BelongsTo(id, o, n), BelongsTo(id, q, n), \A k \in Nat : id # MadeUp(k)
  PROVE  o = q
BY IdsDiffer DEF BelongsTo

LEMMA FreeIsTyped == Free \in Hands
<1>1. Stage[1] \in Objects BY IntakeAssumption DEF Objects
<1> QED BY <1>1 DEF Free, Hands, IntakePhases, NoVerdict, Verdicts, Ingested, OpenCases

LEMMA LeaveIsTyped ==
  ASSUME NEW x \in Hands
  PROVE  [Free EXCEPT !.phase = "sweep", !.sweeping = TRUE, !.names = x.names, !.taken = x.taken] \in Hands
BY FreeIsTyped DEF Hands, IntakePhases

LEMMA TakeIsTyped ==
  ASSUME NEW x \in Hands, NEW o \in Objects, NEW s \in Seq(Objects), NEW k \in Nat
  PROVE  [x EXCEPT !.names = s, !.object = o, !.taken = k, !.phase = "check"] \in Hands
<1>1. "check" \in IntakePhases BY DEF IntakePhases
<1> QED BY <1>1 DEF Hands

LEMMA ArmorIsTyped ==
  ASSUME NEW o \in Objects, NEW lost
  PROVE  armor_screen(Content[o], lost) \in Verdicts
<1>1. Content[o].patterns \in BOOLEAN BY IntakeAssumption
<1> DEFINE answered == DOMAIN Content[o].windows \ lost
           blocked == \E i \in answered : Content[o].windows[i] = "match"
<1>2. blocked \in BOOLEAN /\ (answered # {}) \in BOOLEAN
      /\ (Content[o].patterns \/ answered = {}) \in BOOLEAN
  BY <1>1
<1> QED BY <1>2 DEF armor_screen, NoVerdict, Verdicts

\* More ids made up take nothing from a file.
LEMMA BelongsOn ==
  ASSUME NEW n \in Nat, NEW m \in Nat, n <= m, NEW o, NEW id, BelongsTo(id, o, n)
  PROVE  BelongsTo(id, o, m)
<1>1. \A k \in Nat : k < n => k < m OBVIOUS
<1> QED BY <1>1 DEF BelongsTo

\* A case that is not one the handler made up and is about to flag.
Spared(h, i) == \A n \in Nat : (hand[h].phase = "flag" /\ hand[h].case = MadeUp(n)) => i # MadeUp(n)

\* What handler h takes on: no case, the one it had, or one whose id, if it is made
\* up, is made up now.
TakesOn(h, x) ==
  x.phase \in {"put", "flag", "mark"} =>
    \/ x.phase = "mark" /\ x.case = NoCase
    \/ hand[h].phase \in {"put", "flag"} /\ x.case = hand[h].case
    \/ \A n \in Nat : x.case = MadeUp(n) => n = serial /\ hand[h].phase = "open"

\* Every step is one handler's, and keeps the links of the others.
LEMMA StepKeeps ==
  ASSUME FlagInv, IntakeTyped', NEW h \in Handlers, NEW x \in Hands,
         hand' = [hand EXCEPT ![h] = x], TakesOn(h, x),
         serial <= serial', DOMAIN opened \subseteq DOMAIN opened',
         HandLinked(x, opened', serial', flagged', Awaited'),
         \A o \in Objects :
           \/ markers'[o] = markers[o]
           \/ /\ hand[h].phase = "mark" /\ o = hand[h].object
              /\ markers'[o] = hand[h].case,
         \A o \in Objects : \A i :
           Linked(i, o, opened, serial, flagged, Awaited) /\ Spared(h, i)
             => Linked(i, o, opened', serial', flagged', Awaited')
  PROVE  FlagInv'
<1>1. serial \in Nat /\ serial' \in Nat BY DEF FlagInv, IntakeTyped
<1>2. \A g \in Handlers : hand'[g] = IF g = h THEN x ELSE hand[g] BY DEF FlagInv, IntakeTyped
<1>3. ASSUME NEW g \in Handlers PROVE HandLinked(hand[g], opened, serial, flagged, Awaited)
  BY DEF FlagInv, HandsLink
<1>4. ASSUME NEW n \in Nat, hand[h].phase \in {"put", "flag"}, hand[h].case = MadeUp(n)
      PROVE  Private(h, MadeUp(n))
  BY <1>4 DEF FlagInv, MadeUpIsPrivate
<1>n. ASSUME NEW n \in Nat PROVE MadeUp(n) # NoCase /\ MadeUp(n) # Unmarked
  BY IdsDiffer DEF Ids
<1>5. MarkersLink'
  <2> SUFFICES ASSUME NEW o \in Objects, markers'[o] # Unmarked
               PROVE  Linked(markers'[o], o, opened', serial', flagged', Awaited')
    BY DEF MarkersLink
  <2>1. CASE markers'[o] = markers[o]
    <3>1. Linked(markers[o], o, opened, serial, flagged, Awaited)
      BY <2>1 DEF FlagInv, MarkersLink
    <3>2. Spared(h, markers[o]) BY <1>4 DEF Spared, Private
    <3> QED BY <2>1, <3>1, <3>2
  <2>2. CASE hand[h].phase = "mark" /\ o = hand[h].object /\ markers'[o] = hand[h].case
    <3>1. Linked(hand[h].case, o, opened, serial, flagged, Awaited) BY <1>3, <2>2 DEF HandLinked
    <3>2. Spared(h, hand[h].case) BY <2>2 DEF Spared
    <3> QED BY <2>2, <3>1, <3>2
  <2> QED BY <2>1, <2>2
<1>6. HandsLink'
  <2> SUFFICES ASSUME NEW g \in Handlers
               PROVE  HandLinked(hand'[g], opened', serial', flagged', Awaited')
    BY DEF HandsLink
  <2>1. CASE g = h BY <1>2, <2>1
  <2>2. CASE g # h
    <3>1. hand'[g] = hand[g] /\ hand[g].object \in Objects
      BY <1>2, <2>2 DEF FlagInv, IntakeTyped, Hands
    <3>2. ASSUME hand[g].phase = "mark"
          PROVE  Linked(hand[g].case, hand[g].object, opened', serial', flagged', Awaited')
      <4>1. Linked(hand[g].case, hand[g].object, opened, serial, flagged, Awaited)
        BY <1>3, <3>2 DEF HandLinked
      <4>2. Spared(h, hand[g].case) BY <1>4, <2>2, <3>2 DEF Spared, Private
      <4> QED BY <3>1, <4>1, <4>2
    <3>3. hand[g].phase \in {"put", "flag"} => BelongsTo(hand[g].case, hand[g].object, serial')
      BY <1>1, <1>3, BelongsOn DEF HandLinked
    <3>4. hand[g].phase = "flag" => hand[g].case \in DOMAIN opened' BY <1>3 DEF HandLinked
    <3> QED BY <3>1, <3>2, <3>3, <3>4 DEF HandLinked
  <2> QED BY <2>1, <2>2
\* Nobody holds the id that is made up here.
<1>7. ASSUME NEW g \in Handlers, NEW n \in Nat, hand[g].phase \in {"put", "flag", "mark"},
             hand[g].case = MadeUp(n)
      PROVE  n # serial
  <2>1. BelongsTo(MadeUp(n), hand[g].object, serial) BY <1>3, <1>7, <1>n DEF HandLinked, Linked
  <2> QED BY <1>1, <2>1, IdsDiffer DEF BelongsTo
<1>8. ASSUME NEW o \in Objects, NEW n \in Nat, markers[o] = MadeUp(n) PROVE n # serial
  <2>1. BelongsTo(MadeUp(n), o, serial) BY <1>8, <1>n DEF FlagInv, MarkersLink, Linked
  <2> QED BY <1>1, <2>1, IdsDiffer DEF BelongsTo
<1>9. MadeUpIsPrivate'
  <2> SUFFICES ASSUME NEW g \in Handlers, NEW n \in Nat, hand'[g].phase \in {"put", "flag"},
                      hand'[g].case = MadeUp(n)
               PROVE  /\ \A o \in Objects : markers'[o] # MadeUp(n)
                      /\ \A f \in Handlers \ {g} :
                            hand'[f].phase \in {"put", "flag", "mark"} => hand'[f].case # MadeUp(n)
    BY DEF MadeUpIsPrivate, Private
  <2>1. CASE g = h
    <3>1. x.phase \in {"put", "flag"} /\ x.case = MadeUp(n) BY <1>2, <2>1
    <3>2. \A f \in Handlers \ {g} : hand'[f] = hand[f] /\ f \in Handlers BY <1>2, <2>1
    <3>3. CASE hand[h].phase \in {"put", "flag"} /\ x.case = hand[h].case
      <4>1. Private(h, MadeUp(n)) BY <1>4, <3>1, <3>3
      <4> QED BY <2>1, <3>2, <3>3, <4>1 DEF Private
    <3>4. CASE n = serial /\ hand[h].phase = "open"
      BY <1>7, <1>8, <3>2, <3>4
    <3> QED BY <3>1, <3>3, <3>4 DEF TakesOn
  <2>2. CASE g # h
    <3>1. hand'[g] = hand[g] BY <1>2, <2>2
    <3>2. Private(g, MadeUp(n)) BY <3>1 DEF FlagInv, MadeUpIsPrivate
    <3>3. \A o \in Objects : markers'[o] # MadeUp(n) BY <2>2, <3>2 DEF Private
    <3>4. ASSUME x.phase \in {"put", "flag", "mark"} PROVE x.case # MadeUp(n)
      <4>1. n # serial BY <1>7, <3>1
      <4>2. hand[h].phase \in {"put", "flag"} => hand[h].case # MadeUp(n)
        BY <2>2, <3>2 DEF Private
      <4> QED BY <1>n, <3>4, <4>1, <4>2 DEF TakesOn
    <3>5. ASSUME NEW f \in Handlers \ {g}, hand'[f].phase \in {"put", "flag", "mark"}
          PROVE  hand'[f].case # MadeUp(n)
      <4>1. CASE f = h BY <1>2, <3>4, <3>5, <4>1
      <4>2. CASE f # h BY <1>2, <3>2, <3>5, <4>2 DEF Private
      <4> QED BY <4>1, <4>2
    <3> QED BY <3>3, <3>5
  <2> QED BY <2>1, <2>2
<1> QED BY <1>5, <1>6, <1>9 DEF FlagInv

\* Steps that open, flag and mark nothing, and hold no case that is open.
LEMMA QuietKeeps ==
  ASSUME FlagInv, NEW h \in Handlers, NEW x \in Hands, x.phase \notin {"put", "flag"},
         x.phase = "mark" => x.case = NoCase, hand[h].phase # "flag",
         hand' = [hand EXCEPT ![h] = x], UNCHANGED <<opened, markers, serial, history>>
  PROVE  FlagInv'
<1>1. IntakeTyped' BY DEF FlagInv, IntakeTyped
<1>2. \A g \in Handlers : hand'[g] = IF g = h THEN x ELSE hand[g] BY DEF FlagInv, IntakeTyped
<1>3. Awaited' = Awaited /\ flagged' = flagged BY <1>2 DEF Awaited, At, history
<1>4. HandLinked(x, opened', serial', flagged', Awaited') BY DEF HandLinked, Linked
<1>5. TakesOn(h, x) BY DEF TakesOn
<1>6. serial <= serial' BY DEF FlagInv, IntakeTyped
<1> QED BY <1>1, <1>3, <1>4, <1>5, <1>6, StepKeeps

LEMMA LeaveIsQuiet ==
  ASSUME FlagInv, NEW h \in Handlers, Leave(h)
  PROVE  \E x \in Hands : x.phase \in {"free", "sweep"} /\ hand' = [hand EXCEPT ![h] = x]
<1> DEFINE x == IF hand[h].sweeping
                    THEN [Free EXCEPT !.phase = "sweep", !.sweeping = TRUE,
                                      !.names = hand[h].names, !.taken = hand[h].taken]
                    ELSE Free
<1>1. hand[h] \in Hands BY DEF FlagInv, IntakeTyped
<1>2. x \in Hands BY <1>1, LeaveIsTyped, FreeIsTyped
<1>3. x.phase \in {"free", "sweep"} BY DEF Free
<1> QED BY <1>2, <1>3 DEF Leave, Goes

LEMMA QuietSteps ==
  ASSUME FlagInv, NEW h \in Handlers,
         \/ \E o \in Objects : Notified(h, o) \/ Uploaded(h, o)
         \/ sweep_bucket(h) \/ SweepOn(h) \/ CheckMarker(h) \/ fetch(h)
  PROVE  FlagInv'
<1> USE DEF At
<1> DEFINE x == hand[h]
<1>0. x \in Hands BY DEF FlagInv, IntakeTyped
<1>f. Free \in Hands BY FreeIsTyped
<1>1. ASSUME NEW o \in Objects, Notified(h, o) PROVE FlagInv'
  <2> DEFINE y == [Free EXCEPT !.phase = "check", !.object = o]
  <2>1. y \in Hands /\ y.phase = "check" BY <1>f DEF Hands, IntakePhases
  <2>2. hand' = [hand EXCEPT ![h] = y] /\ UNCHANGED <<opened, markers, serial, history>>
        /\ hand[h].phase = "free"
    BY <1>1 DEF Notified, Goes
  <2> HIDE DEF y, x
  <2> QED BY <2>1, <2>2, QuietKeeps
<1>2. ASSUME NEW o \in Objects, Uploaded(h, o) PROVE FlagInv'
  <2> DEFINE y == [Free EXCEPT !.phase = "screen", !.object = o, !.staged = FALSE]
  <2>1. y \in Hands /\ y.phase = "screen" BY <1>f DEF Hands, IntakePhases
  <2>2. hand' = [hand EXCEPT ![h] = y] /\ UNCHANGED <<opened, markers, serial, history>>
        /\ hand[h].phase = "free"
    BY <1>2 DEF Uploaded, Goes
  <2> HIDE DEF y, x
  <2> QED BY <2>1, <2>2, QuietKeeps
<1>3. ASSUME sweep_bucket(h) PROVE FlagInv'
  <2> DEFINE y == [Free EXCEPT !.phase = "sweep", !.sweeping = TRUE, !.names = list_objects]
  <2>0. list_objects \in Seq(Objects) BY IntakeAssumption DEF list_objects
  <2>1. y \in Hands /\ y.phase = "sweep" BY <1>f, <2>0 DEF Hands, IntakePhases
  <2>2. hand' = [hand EXCEPT ![h] = y] /\ UNCHANGED <<opened, markers, serial, history>>
        /\ hand[h].phase = "free"
    BY <1>3 DEF sweep_bucket, Goes
  <2> HIDE DEF y, x
  <2> QED BY <2>1, <2>2, QuietKeeps
<1>4. ASSUME SweepOn(h) PROVE FlagInv'
  <2> DEFINE names == x.names
             y == IF names = <<>> \/ x.taken = limit THEN Free
                  ELSE IF ingest_refusal(Head(names)) \/ markers[Head(names)] # Unmarked
                  THEN [x EXCEPT !.names = Tail(names)]
                  ELSE [x EXCEPT !.names = Tail(names), !.object = Head(names),
                                 !.taken = @ + 1, !.phase = "check"]
  <2>1. hand' = [hand EXCEPT ![h] = y] /\ UNCHANGED <<opened, markers, serial, history>> /\ x.phase = "sweep"
    BY <1>4 DEF SweepOn, Goes
  <2>2. names \in Seq(Objects) /\ x.taken \in Nat BY <1>0 DEF Hands
  <2>3. names # <<>> => Head(names) \in Objects /\ Tail(names) \in Seq(Objects) BY <2>2
  <2>4. y \in Hands
    <3>1. CASE names = <<>> \/ x.taken = limit BY <1>f, <3>1
    <3>2. CASE names # <<>>
      <4>1. [x EXCEPT !.names = Tail(names)] \in Hands BY <1>0, <2>3, <3>2 DEF Hands
      <4>2. [x EXCEPT !.names = Tail(names), !.object = Head(names),
                      !.taken = x.taken + 1, !.phase = "check"] \in Hands
        <5>1. x.taken + 1 \in Nat BY <2>2
        <5> HIDE DEF x, names
        <5> QED BY <1>0, <2>3, <3>2, <5>1, TakeIsTyped
      <4> HIDE DEF x
      <4> QED BY <1>f, <4>1, <4>2
    <3> QED BY <3>1, <3>2
  <2>5. y.phase \in {"free", "sweep", "check"}
    <3>1. Free.phase = "free" BY DEF Free
    <3> QED BY <1>0, <2>1, <3>1 DEF Hands
  <2> HIDE DEF y
  <2> QED BY <2>1, <2>4, <2>5, QuietKeeps
<1>5. ASSUME CheckMarker(h) PROVE FlagInv'
  <2>1. CASE Leave(h)
    BY <1>5, <2>1, LeaveIsQuiet, QuietKeeps DEF CheckMarker
  <2>2. CASE Goes(h, [hand[h] EXCEPT !.phase = "fetch"])
    <3> DEFINE y == [x EXCEPT !.phase = "fetch"]
    <3>1. y \in Hands /\ y.phase = "fetch" BY <1>0 DEF Hands, IntakePhases
    <3>2. hand' = [hand EXCEPT ![h] = y] BY <2>2 DEF Goes
    <3> HIDE DEF y
    <3> QED BY <1>5, <3>1, <3>2, QuietKeeps DEF CheckMarker
  <2> QED BY <1>5, <2>1, <2>2 DEF CheckMarker
<1>6. ASSUME fetch(h) PROVE FlagInv'
  <2>1. CASE Leave(h)
    BY <1>6, <2>1, LeaveIsQuiet, QuietKeeps DEF fetch
  <2>2. CASE Goes(h, [hand[h] EXCEPT !.phase = "screen"])
    <3> DEFINE y == [x EXCEPT !.phase = "screen"]
    <3>1. y \in Hands /\ y.phase = "screen" BY <1>0 DEF Hands, IntakePhases
    <3>2. hand' = [hand EXCEPT ![h] = y] BY <2>2 DEF Goes
    <3> HIDE DEF y
    <3> QED BY <1>6, <3>1, <3>2, QuietKeeps DEF fetch
  <2> QED BY <1>6, <2>1, <2>2 DEF fetch
<1> QED BY <1>1, <1>2, <1>3, <1>4, <1>5, <1>6

LEMMA ScreeningIsQuiet ==
  ASSUME FlagInv, NEW h \in Handlers, PreScreen(h) \/ Transcribe(h)
  PROVE  FlagInv'
<1> USE DEF At
<1> DEFINE x == hand[h]
<1>0. x \in Hands /\ x.object \in Objects /\ x.armor \in Verdicts
  BY DEF FlagInv, IntakeTyped, Hands
<1>1. UNCHANGED <<opened, markers, serial, history>> /\ hand[h].phase \in {"screen", "read"}
  BY DEF PreScreen, Transcribe
<1>2. ASSUME NEW v \in Verdicts, NEW s \in BOOLEAN, NEW f \in {"open", "read"},
             hand' = [hand EXCEPT ![h] = [x EXCEPT !.armor = v, !.screened = s, !.phase = f]]
      PROVE  FlagInv'
  <2> DEFINE y == [x EXCEPT !.armor = v, !.screened = s, !.phase = f]
  <2>1. y \in Hands /\ y.phase = f BY <1>0 DEF Hands, IntakePhases
  <2> HIDE DEF y
  <2> QED BY <1>1, <1>2, <2>1, QuietKeeps DEF y
<1>3. CASE PreScreen(h)
  <2> DEFINE text == Content[x.object]
  <2>1. CASE text.layer = "text"
    <3>1. PICK lost \in SUBSET DOMAIN text.windows :
            Goes(h, [x EXCEPT !.armor = armor_screen(text, lost), !.screened = TRUE,
                              !.phase = IF armor_screen(text, lost).blocked THEN "open" ELSE "read"])
      BY <1>3, <2>1 DEF PreScreen
    <3>2. armor_screen(text, lost) \in Verdicts BY <1>0, ArmorIsTyped
    <3> HIDE DEF text
    <3> DEFINE v == armor_screen(text, lost)
               f == IF v.blocked THEN "open" ELSE "read"
    <3>3. f \in {"open", "read"} OBVIOUS
    <3>4. hand' = [hand EXCEPT ![h] = [x EXCEPT !.armor = v, !.screened = TRUE, !.phase = f]]
      BY <3>1 DEF Goes
    <3> HIDE DEF v, f
    <3> QED BY <1>2, <3>2, <3>3, <3>4 DEF v
  <2>2. CASE text.layer = "broken"
    <3>1. Goes(h, [x EXCEPT !.armor.requires_human = TRUE, !.screened = TRUE, !.phase = "read"])
      BY <1>3, <2>2 DEF PreScreen
    <3> DEFINE v == [x.armor EXCEPT !.requires_human = TRUE]
    <3>2. v \in Verdicts BY <1>0 DEF Verdicts
    <3>3. hand' = [hand EXCEPT ![h] = [x EXCEPT !.armor = v, !.screened = TRUE, !.phase = "read"]]
      BY <1>0, <3>1 DEF Goes, Hands
    <3> HIDE DEF v
    <3> QED BY <1>2, <3>2, <3>3
  <2>3. CASE text.layer = "scan"
    <3> DEFINE y == [x EXCEPT !.phase = "read"]
    <3>1. hand' = [hand EXCEPT ![h] = y] BY <1>3, <2>3 DEF PreScreen, Goes
    <3>2. y \in Hands /\ y.phase = "read" BY <1>0 DEF Hands, IntakePhases
    <3> HIDE DEF y
    <3> QED BY <1>1, <3>1, <3>2, QuietKeeps
  <2>4. CASE text.layer \notin {"text", "broken", "scan"}
    BY <1>0, <2>4, IntakeAssumption
  <2> QED BY <2>1, <2>2, <2>3, <2>4
<1>4. CASE Transcribe(h)
  <2>1. ASSUME NEW lost, Goes(h, [x EXCEPT !.phase = "open", !.armor = PostScreen(h, lost)])
        PROVE  FlagInv'
    <3> DEFINE v == PostScreen(h, lost)
               y == [x EXCEPT !.phase = "open", !.armor = v]
    <3>1. v \in Verdicts BY <1>0, ArmorIsTyped DEF PostScreen
    <3> HIDE DEF v
    <3>2. y \in Hands /\ y.phase = "open" BY <1>0, <3>1 DEF Hands, IntakePhases
    <3>3. hand' = [hand EXCEPT ![h] = y] BY <2>1 DEF Goes, v
    <3> HIDE DEF y
    <3> QED BY <1>1, <3>2, <3>3, QuietKeeps
  <2>2. ASSUME Goes(h, [x EXCEPT !.phase = "mark", !.case = NoCase]) PROVE FlagInv'
    <3> DEFINE y == [x EXCEPT !.phase = "mark", !.case = NoCase]
    <3>1. y \in Hands /\ y.case = NoCase /\ y.phase = "mark" BY <1>0 DEF Hands, IntakePhases
    <3>2. hand' = [hand EXCEPT ![h] = y] BY <2>2 DEF Goes
    <3> HIDE DEF y
    <3> QED BY <1>1, <3>1, <3>2, QuietKeeps
  <2> QED BY <1>4, <2>1, <2>2 DEF Transcribe
<1> QED BY <1>3, <1>4

\* The case is read, or its absence: nobody else has an id that is made up now.
LEMMA FindKeeps ==
  ASSUME FlagInv, NEW h \in Handlers, FindCase(h)
  PROVE  FlagInv'
<1> DEFINE x == hand[h]
           id == case_id(h)
<1>0. x \in Hands /\ x.object \in Objects /\ serial \in Nat BY DEF FlagInv, IntakeTyped, Hands
<1>1. /\ serial' = IF id = MadeUp(serial) THEN serial + 1 ELSE serial
      /\ hand' = [hand EXCEPT ![h] =
           IF id \in DOMAIN opened
           THEN [x EXCEPT !.phase = "flag", !.case = id, !.copy = opened[id]]
           ELSE [x EXCEPT !.phase = "put", !.case = id, !.copy = Ingested]]
      /\ UNCHANGED <<opened, markers, flagged, undone>> /\ x.phase = "open"
  BY DEF FindCase, Goes, MadeUp, At, history
<1>2. \/ id = MadeUp(serial)
      \/ Content[x.object].booking # NoBooking /\ id = ByBooking(Content[x.object].booking)
  BY DEF case_id, MadeUp, ByBooking
<1> HIDE DEF id
<1>3. id \in Ids BY <1>0, <1>2 DEF Ids
<1>4. serial' \in Nat /\ serial <= serial' BY <1>0, <1>1
<1>5. BelongsTo(id, x.object, serial')
  <2>1. CASE id = MadeUp(serial) BY <1>0, <1>1, <2>1 DEF BelongsTo
  <2>2. CASE id # MadeUp(serial) BY <1>2, <2>2 DEF BelongsTo
  <2> QED BY <2>1, <2>2
<1>6. PICK y \in Hands : /\ hand' = [hand EXCEPT ![h] = y] /\ y.case = id /\ y.object = x.object
                         /\ y.phase \in {"put", "flag"} /\ (y.phase = "flag" => id \in DOMAIN opened)
  <2> HIDE DEF x
  <2>1. CASE id \in DOMAIN opened
    <3> DEFINE y == [x EXCEPT !.phase = "flag", !.case = id, !.copy = opened[id]]
    <3>1. opened[id] \in OpenCases BY <2>1 DEF FlagInv, IntakeTyped
    <3>2. y \in Hands /\ y.case = id /\ y.object = x.object /\ y.phase = "flag"
      BY <1>0, <1>3, <3>1 DEF Hands, IntakePhases
    <3>3. hand' = [hand EXCEPT ![h] = y] BY <1>1, <2>1 DEF x
    <3> HIDE DEF y
    <3> QED BY <2>1, <3>2, <3>3
  <2>2. CASE id \notin DOMAIN opened
    <3> DEFINE y == [x EXCEPT !.phase = "put", !.case = id, !.copy = Ingested]
    <3>1. Ingested \in OpenCases BY DEF Ingested, OpenCases
    <3>2. y \in Hands /\ y.case = id /\ y.object = x.object /\ y.phase = "put"
      BY <1>0, <1>3, <3>1 DEF Hands, IntakePhases
    <3>3. hand' = [hand EXCEPT ![h] = y] BY <1>1, <2>2 DEF x
    <3> HIDE DEF y
    <3> QED BY <2>2, <3>2, <3>3
  <2> QED BY <2>1, <2>2
<1>7. IntakeTyped' BY <1>1, <1>4, <1>6 DEF FlagInv, IntakeTyped
<1>8. \A g \in Handlers : hand'[g] = IF g = h THEN y ELSE hand[g]
  BY <1>6 DEF FlagInv, IntakeTyped
<1>9. Awaited \subseteq Awaited' BY <1>1, <1>8 DEF Awaited, At
<1>10. HandLinked(y, opened', serial', flagged', Awaited') BY <1>1, <1>5, <1>6 DEF HandLinked
<1>11. \A n \in Nat : id = MadeUp(n) => n = serial BY <1>2, IdsDiffer
<1>12. TakesOn(h, y) BY <1>1, <1>6, <1>11 DEF TakesOn
<1>13. ASSUME NEW o \in Objects, NEW i, Linked(i, o, opened, serial, flagged, Awaited)
       PROVE  Linked(i, o, opened', serial', flagged', Awaited')
  BY <1>0, <1>1, <1>4, <1>9, <1>13, BelongsOn DEF Linked
<1> QED BY <1>1, <1>4, <1>6, <1>7, <1>10, <1>12, <1>13, StepKeeps

\* The put of a case that was not there replaces what is there now; the handler that
\* did it stands before its second write.
LEMMA OpenKeeps ==
  ASSUME FlagInv, NEW h \in Handlers, OpenCase(h)
  PROVE  FlagInv'
<1> DEFINE x == hand[h]
           id == x.case
<1>0. x \in Hands /\ x.copy \in OpenCases /\ serial \in Nat BY DEF FlagInv, IntakeTyped, Hands
<1>1. /\ x.phase = "put"
      /\ opened' = [i \in DOMAIN opened \cup {id} |-> IF i = id THEN x.copy ELSE opened[i]]
      /\ hand' = [hand EXCEPT ![h] = [x EXCEPT !.phase = "flag"]]
      /\ UNCHANGED <<markers, serial, flagged, undone>>
  BY DEF OpenCase, Goes, At, history
<1>2. BelongsTo(id, x.object, serial) BY <1>1 DEF FlagInv, HandsLink, HandLinked
<1>3. id \in Ids BY <1>0, <1>2 DEF BelongsTo, Ids, Hands
<1>4. /\ DOMAIN opened' = DOMAIN opened \cup {id}
      /\ \A i \in DOMAIN opened' : opened'[i] = IF i = id THEN x.copy ELSE opened[i]
  BY <1>1
<1>5. PICK y \in Hands : /\ hand' = [hand EXCEPT ![h] = y] /\ y.case = id /\ y.object = x.object
                         /\ y.phase = "flag"
  <2> DEFINE y == [x EXCEPT !.phase = "flag"]
  <2>1. y \in Hands /\ y.case = id /\ y.object = x.object /\ y.phase = "flag"
    BY <1>0 DEF Hands, IntakePhases
  <2> HIDE DEF x, id
  <2>2. hand' = [hand EXCEPT ![h] = y] BY <1>1
  <2> HIDE DEF y
  <2> QED BY <2>1, <2>2
<1> HIDE DEF x, id
<1>6. IntakeTyped'
  <2>1. \A i \in DOMAIN opened' : opened'[i] \in OpenCases
    BY <1>0, <1>4 DEF FlagInv, IntakeTyped
  <2>2. DOMAIN opened' \subseteq Ids BY <1>3, <1>4 DEF FlagInv, IntakeTyped
  <2> QED BY <1>1, <1>5, <2>1, <2>2 DEF FlagInv, IntakeTyped
<1>7. \A g \in Handlers : hand'[g] = IF g = h THEN y ELSE hand[g]
  BY <1>5 DEF FlagInv, IntakeTyped
<1>8. Awaited \subseteq Awaited' /\ id \in Awaited'
  <2>1. ASSUME NEW g \in Handlers, hand[g].phase = "flag" PROVE hand'[g] = hand[g]
    BY <1>1, <1>7, <2>1 DEF x
  <2>2. hand'[h].phase = "flag" /\ hand'[h].case = id BY <1>5, <1>7
  <2> QED BY <1>1, <2>1, <2>2 DEF Awaited, At
<1>9. HandLinked(y, opened', serial', flagged', Awaited')
  BY <1>1, <1>2, <1>4, <1>5 DEF HandLinked
<1>10. TakesOn(h, y) BY <1>1, <1>5 DEF TakesOn, x, id
<1>11. ASSUME NEW o \in Objects, NEW i, Linked(i, o, opened, serial, flagged, Awaited)
       PROVE  Linked(i, o, opened', serial', flagged', Awaited')
  <2>1. CASE i = id BY <1>1, <1>4, <1>8, <1>11, <2>1 DEF Linked
  <2>2. CASE i # id BY <1>1, <1>4, <1>8, <1>11, <2>2 DEF Linked
  <2> QED BY <2>1, <2>2
<1>12. serial <= serial' BY <1>0, <1>1
<1> QED BY <1>1, <1>4, <1>5, <1>6, <1>9, <1>10, <1>11, <1>12, StepKeeps

\* No two files of the bucket state one booking.
OneFilePerBooking ==
  \A o, q \in Objects : (Content[o].booking = Content[q].booking /\ Content[o].booking # NoBooking) => o = q

\* A handler's last write keeps what every other handler's file asked for.
LEMMA FlagKeeps ==
  ASSUME OneFilePerBooking, FlagInv, NEW h \in Handlers, FlagCase(h)
  PROVE  FlagInv'
<1> DEFINE x == hand[h]
           id == x.case
           new == [x.copy EXCEPT !.requires_human = @ \/ Stopped(h) \/ Flagged(h),
                                 !.model_invoked = ~Stopped(h),
                                 !.state = IF Stopped(h) THEN "PENDING_HUMAN" ELSE @]
<1>0. x \in Hands /\ x.object \in Objects /\ x.copy \in OpenCases
      /\ serial \in Nat /\ x.armor \in Verdicts /\ x.screened \in BOOLEAN
  BY DEF FlagInv, IntakeTyped, Hands
<1>1. /\ x.phase = "flag" /\ opened' = [opened EXCEPT ![id] = new]
      /\ hand' = [hand EXCEPT ![h] = [x EXCEPT !.phase = "mark"]]
      /\ markers' = markers /\ serial' = serial
      /\ flagged' = flagged \cup {id} /\ undone' = undone \ {id}
  BY DEF FlagCase, Goes, At
<1>2. id \in DOMAIN opened /\ id \in Ids /\ BelongsTo(id, x.object, serial)
  BY <1>1, IdsDiffer DEF FlagInv, HandsLink, HandLinked, IntakeTyped
<1>3. new \in OpenCases /\ (Suspicious(x.object) => new.requires_human)
  <2>1. Stopped(h) \in BOOLEAN /\ Flagged(h) \in BOOLEAN BY DEF Stopped, Flagged
  <2>2. Suspicious(x.object) => Flagged(h) BY DEF Suspicious, Flagged
  <2> HIDE DEF x
  <2>3. x.copy \in OpenCases /\ x.copy.requires_human \in BOOLEAN BY <1>0 DEF OpenCases
  <2> QED BY <2>1, <2>2, <2>3 DEF OpenCases
<1>4. PICK y \in Hands : /\ hand' = [hand EXCEPT ![h] = y] /\ y.case = id /\ y.object = x.object
                         /\ y.phase = "mark"
  <2> DEFINE y == [x EXCEPT !.phase = "mark"]
  <2>1. y \in Hands /\ y.case = id /\ y.object = x.object /\ y.phase = "mark"
    BY <1>0 DEF Hands, IntakePhases
  <2> HIDE DEF x, id
  <2>2. hand' = [hand EXCEPT ![h] = y] BY <1>1
  <2> HIDE DEF y
  <2> QED BY <2>1, <2>2
<1> HIDE DEF new, x, id
<1>5. \A g \in Handlers : hand'[g] = IF g = h THEN y ELSE hand[g]
  BY <1>4 DEF FlagInv, IntakeTyped
<1>6. DOMAIN opened' = DOMAIN opened /\ \A i \in DOMAIN opened : opened'[i] = IF i = id THEN new ELSE opened[i]
  BY <1>1
<1>7. IntakeTyped'
  <2>1. \A i \in DOMAIN opened' : opened'[i] \in OpenCases
    BY <1>3, <1>6 DEF FlagInv, IntakeTyped
  <2> QED BY <1>1, <1>4, <1>6, <2>1 DEF FlagInv, IntakeTyped
<1>8. ASSUME NEW i \in Awaited, i # id PROVE i \in Awaited'
  <2>1. CASE i \in undone BY <1>1, <1>8, <2>1 DEF Awaited
  <2>2. ASSUME NEW g \in Handlers, hand[g].phase = "flag", hand[g].case = i PROVE i \in Awaited'
    <3>1. hand'[g] = hand[g] BY <1>5, <1>8, <2>2 DEF x, id
    <3> QED BY <2>2, <3>1 DEF Awaited, At
  <2> QED BY <2>1, <2>2 DEF Awaited, At
\* Whoever else is linked to the case is linked by the same file.
<1>9. ASSUME NEW o \in Objects, NEW i, Linked(i, o, opened, serial, flagged, Awaited), Spared(h, i)
      PROVE  Linked(i, o, opened', serial', flagged', Awaited')
  <2>1. CASE i # id BY <1>1, <1>6, <1>8, <1>9, <2>1 DEF Linked
  <2>2. CASE i = id
    <3>1. \A n \in Nat : id # MadeUp(n) BY <1>1, <1>9, <2>2 DEF Spared, x, id
    <3>n. id # NoCase BY <1>2, IdsDiffer
    <3>2. BelongsTo(id, o, serial) BY <1>9, <2>2, <3>n DEF Linked
    <3>3. o = x.object BY <1>0, <1>2, <3>1, <3>2, OneOwner DEF OneFilePerBooking
    <3> QED BY <1>1, <1>2, <1>3, <1>6, <2>2, <3>3 DEF Linked
  <2> QED BY <2>1, <2>2
<1>10. HandLinked(y, opened', serial', flagged', Awaited')
  BY <1>1, <1>2, <1>3, <1>4, <1>6 DEF HandLinked, Linked
<1>11. TakesOn(h, y) BY <1>1, <1>4 DEF TakesOn, x, id
<1>12. serial <= serial' BY <1>0, <1>1
<1> QED BY <1>1, <1>4, <1>6, <1>7, <1>9, <1>10, <1>11, <1>12, StepKeeps

LEMMA MarkKeeps ==
  ASSUME FlagInv, NEW h \in Handlers, Mark(h)
  PROVE  FlagInv'
<1> DEFINE x == hand[h]
<1>0. x \in Hands /\ x.object \in Objects /\ x.case \in Ids \cup {NoCase} /\ serial \in Nat
  BY DEF FlagInv, IntakeTyped, Hands
<1>1. PICK y \in Hands : y.phase \in {"free", "sweep"} /\ hand' = [hand EXCEPT ![h] = y]
  BY LeaveIsQuiet DEF Mark
<1>2. /\ x.phase = "mark" /\ UNCHANGED <<opened, serial, flagged, undone>>
      /\ markers' = IF x.staged THEN [markers EXCEPT ![x.object] = x.case] ELSE markers
  BY DEF Mark, At, history
<1> HIDE DEF x
<1>3. \A o \in Objects : markers'[o] = markers[o] \/ (o = x.object /\ markers'[o] = x.case)
  BY <1>0, <1>2 DEF FlagInv, IntakeTyped
<1>4. \A g \in Handlers : hand'[g] = IF g = h THEN y ELSE hand[g] BY <1>1 DEF FlagInv, IntakeTyped
<1>5. IntakeTyped' BY <1>0, <1>1, <1>2 DEF FlagInv, IntakeTyped
<1>6. Awaited' = Awaited BY <1>1, <1>2, <1>4 DEF Awaited, At, x
<1>7. HandLinked(y, opened', serial', flagged', Awaited') BY <1>1 DEF HandLinked
<1>8. TakesOn(h, y) BY <1>1 DEF TakesOn
<1>9. \A o \in Objects : \A i : Linked(i, o, opened, serial, flagged, Awaited)
                              => Linked(i, o, opened', serial', flagged', Awaited')
  BY <1>2, <1>6
<1>10. serial <= serial' /\ DOMAIN opened \subseteq DOMAIN opened' BY <1>0, <1>2
<1> QED BY <1>1, <1>2, <1>3, <1>5, <1>7, <1>8, <1>9, <1>10, StepKeeps DEF x

\* A handler that dies before its second write leaves the case as it put it.
LEMMA DieKeeps ==
  ASSUME FlagInv, NEW h \in Handlers, Die(h)
  PROVE  FlagInv'
<1>1. /\ hand' = [hand EXCEPT ![h] = Free] /\ UNCHANGED <<opened, markers, serial, flagged>>
      /\ undone' = undone \cup {c \in flagged : /\ hand[h].phase = "flag" /\ c = hand[h].case
                                                /\ ~opened[c].requires_human}
  BY DEF Die, Goes, At
<1>2. Free \in Hands /\ Free.phase = "free" BY FreeIsTyped DEF Free
<1>3. PICK y \in Hands : y.phase = "free" /\ hand' = [hand EXCEPT ![h] = y] BY <1>1, <1>2
<1>4. \A g \in Handlers : hand'[g] = IF g = h THEN y ELSE hand[g] BY <1>3 DEF FlagInv, IntakeTyped
<1>5. IntakeTyped' BY <1>1, <1>3 DEF FlagInv, IntakeTyped
<1>6. ASSUME NEW i \in Awaited, i \in flagged, ~opened[i].requires_human PROVE i \in Awaited'
  <2>1. CASE i \in undone BY <1>1, <2>1 DEF Awaited
  <2>2. ASSUME NEW g \in Handlers, hand[g].phase = "flag", hand[g].case = i PROVE i \in Awaited'
    <3>1. CASE g = h BY <1>1, <1>6, <2>2, <3>1 DEF Awaited
    <3>2. CASE g # h BY <1>4, <2>2, <3>2 DEF Awaited, At
    <3> QED BY <3>1, <3>2
  <2> QED BY <2>1, <2>2 DEF Awaited, At
<1>7. HandLinked(y, opened', serial', flagged', Awaited') BY <1>3 DEF HandLinked
<1>8. TakesOn(h, y) BY <1>3 DEF TakesOn
<1>9. ASSUME NEW o \in Objects, NEW i, Linked(i, o, opened, serial, flagged, Awaited)
      PROVE  Linked(i, o, opened', serial', flagged', Awaited')
  BY <1>1, <1>6, <1>9 DEF Linked
<1>10. serial <= serial' BY <1>1 DEF FlagInv, IntakeTyped
<1> QED BY <1>1, <1>3, <1>5, <1>7, <1>8, <1>9, <1>10, StepKeeps

LEMMA IntakeStarts == IntakeInit => FlagInv
<1> SUFFICES ASSUME IntakeInit PROVE FlagInv OBVIOUS
<1>1. Free \in Hands /\ Free.phase = "free" BY FreeIsTyped DEF Free
<1>2. DOMAIN opened = {} BY DEF IntakeInit
<1>3. IntakeTyped BY <1>1, <1>2 DEF IntakeInit, IntakeTyped
<1>4. \A h \in Handlers : hand[h].phase = "free" BY <1>1 DEF IntakeInit
<1> QED
  BY <1>3, <1>4 DEF FlagInv, MarkersLink, HandsLink, HandLinked, MadeUpIsPrivate, IntakeInit

\* Where no two files of the bucket state one booking, what the screens of a suspicious
\* file ask for is lost to one thing only, however often and by however many handlers
\* the file is taken: to a delivery that found no case, put one anew over the flagged
\* one and has not written its second time (or died before it).
THEOREM FlagsStick == ASSUME OneFilePerBooking PROVE IntakeSpec => []FlagSticks
<1>1. FlagInv /\ [IntakeNext]_intakeVars => FlagInv'
  <2> SUFFICES ASSUME FlagInv, [IntakeNext]_intakeVars PROVE FlagInv' OBVIOUS
  <2>1. CASE UNCHANGED intakeVars
    BY <2>1 DEF intakeVars, history, FlagInv, IntakeTyped, MarkersLink, HandsLink,
                HandLinked, MadeUpIsPrivate, Linked, BelongsTo, Private, Awaited, At
  <2>2. CASE IntakeNext
    BY <2>2, QuietSteps, ScreeningIsQuiet, FindKeeps, OpenKeeps, FlagKeeps, MarkKeeps, DieKeeps
       DEF IntakeNext, IntakeStep
  <2> QED BY <2>1, <2>2
<1>2. FlagInv => FlagSticks
  <2> SUFFICES ASSUME FlagInv, NEW o \in Objects, markers[o] \in DOMAIN opened, Suspicious(o)
               PROVE  opened[markers[o]].requires_human \/ markers[o] \in Awaited
    BY DEF FlagSticks, Awaited
  <2>1. markers[o] # Unmarked /\ markers[o] # NoCase BY IdsDiffer DEF FlagInv, IntakeTyped
  <2> QED BY <2>1 DEF FlagInv, MarkersLink, Linked
<1> QED BY <1>1, <1>2, IntakeStarts, PTL DEF IntakeSpec

-----------------------------------------------------------------------------
(* Finite sets of numbers.                                                   *)

LEMMA HasGreatest ==
  ASSUME NEW S, S \subseteq Int, IsFiniteSet(S), S # {}
  PROVE  \E n \in S : \A m \in S : m <= n
<1> DEFINE From(n) == {m \in S : n <= m}
           Family == {From(n) : n \in S}
<1>1. IsWellFoundedOn(StrictSubsetOrdering(S), SUBSET S)
  BY FS_FiniteSubsetsOfFinite, FS_StrictSubsetOrderingWellFounded
<1>2. Family \subseteq SUBSET S /\ Family # {} OBVIOUS
<1>3. PICK U \in Family : \A V \in Family : <<V, U>> \notin StrictSubsetOrdering(S)
  <2> HIDE DEF Family
  <2> QED BY <1>1, <1>2, WFMin
<1>4. PICK n \in S : U = From(n) OBVIOUS
<1>5. ASSUME NEW m \in S, ~(m <= n) PROVE FALSE
  <2>1. From(m) \subseteq From(n) /\ n \in From(n) /\ n \notin From(m)
    <3> HIDE DEF Family
    <3>1. n \in Int /\ m \in Int /\ n < m BY <1>5
    <3>2. \A k \in From(m) : k \in S /\ n <= k
      <4> TAKE k \in From(m)
      <4>1. k \in Int /\ m <= k /\ k \in S OBVIOUS
      <4> QED BY <3>1, <4>1
    <3>3. n \in From(n) BY <3>1
    <3>4. n \notin From(m) BY <3>1
    <3> QED BY <3>2, <3>3, <3>4
  <2>2. From(m) \in Family /\ From(n) \in SUBSET S /\ From(m) \in SUBSET S OBVIOUS
  <2>3. <<From(m), U>> \in StrictSubsetOrdering(S) BY <1>4, <2>1, <2>2 DEF StrictSubsetOrdering
  <2> QED BY <1>3, <2>2, <2>3
<1> QED BY <1>5

LEMMA HasLeast ==
  ASSUME NEW S, S \subseteq Int, IsFiniteSet(S), S # {}
  PROVE  \E n \in S : \A m \in S : n <= m
<1> DEFINE T == {-n : n \in S}
<1>1. IsFiniteSet(T)
  <2> DEFINE f == [n \in S |-> -n]
  <2>1. f \in Surjection(S, T) BY DEF Surjection
  <2> QED BY <2>1, FS_Surjection
<1>2. T \subseteq Int /\ T # {}
  <2>1. \A n \in S : -n \in Int OBVIOUS
  <2> QED BY <2>1
<1>3. PICK t \in T : \A m \in T : m <= t BY <1>1, <1>2, HasGreatest
<1>4. PICK n \in S : t = -n OBVIOUS
<1>5. ASSUME NEW m \in S PROVE n <= m
  <2>1. -m <= -n BY <1>3, <1>4, <1>5
  <2> QED BY <2>1
<1> QED BY <1>5

-----------------------------------------------------------------------------
(* The findings, and the arithmetic of the floor.                             *)

\* A rule that clears says nothing grave, and a rule decides one way or the other.
Fitting(f) ==
  /\ f.floor \in 0 .. 100
  /\ Has(f, "auto_clear_by_rules") => ~Blocking(f)
  /\ Has(f, "skip_ai") => Has(f, "auto_clear_by_rules") \/ Has(f, "auto_reject_by_rules")
Proper(F) == IsFiniteSet(F) /\ \A f \in F : Fitting(f)

LEMMA FloorOfTwo ==
  ASSUME NEW a \in Int, NEW b \in Int
  PROVE  /\ Greatest({a, b}) \in {a, b}
         /\ a <= Greatest({a, b}) /\ b <= Greatest({a, b})
<1>1. \E n \in {a, b} : \A m \in {a, b} : m <= n OBVIOUS
<1> QED BY <1>1 DEF Greatest

LEMMA GreatestIsThere ==
  ASSUME NEW S, S \subseteq 0 .. 100, S # {}
  PROVE  Greatest(S) \in S /\ \A m \in S : m <= Greatest(S)
<1>1. 0 \in Int /\ 100 \in Int OBVIOUS
<1>2. IsFiniteSet(0 .. 100) BY <1>1, FS_Interval
<1>3. S \subseteq Int OBVIOUS
<1>4. IsFiniteSet(S) BY <1>2, FS_Subset
<1> QED BY <1>3, <1>4, HasGreatest DEF Greatest

LEMMA ProperUnion ==
  ASSUME NEW F, NEW G, Proper(F), Proper(G) PROVE Proper(F \cup G)
BY FS_Union DEF Proper

LEMMA ProperPart ==
  ASSUME NEW F, NEW G, Proper(G), F \subseteq G PROVE Proper(F)
BY FS_Subset DEF Proper

LEMMA ProperOne ==
  ASSUME NEW a, Fitting(a) PROVE Proper({a})
<1>1. IsFiniteSet({a}) BY FS_Singleton
<1> QED BY <1>1 DEF Proper

\* The findings of one check.
LEMMA ProperFew ==
  ASSUME NEW a, NEW b, NEW c, NEW d, NEW e, NEW f, NEW F, F \subseteq {a, b, c, d, e, f},
         Fitting(a), Fitting(b), Fitting(c), Fitting(d), Fitting(e), Fitting(f)
  PROVE  Proper(F)
<1> DEFINE S == (({a} \cup {b}) \cup ({c} \cup {d})) \cup ({e} \cup {f})
<1>1. Proper({a}) /\ Proper({b}) /\ Proper({c}) /\ Proper({d}) /\ Proper({e}) /\ Proper({f})
  BY ProperOne
<1>2. Proper({a} \cup {b}) /\ Proper({c} \cup {d}) /\ Proper({e} \cup {f}) BY <1>1, ProperUnion
<1>3. Proper(({a} \cup {b}) \cup ({c} \cup {d})) BY <1>2, ProperUnion
<1>4. Proper(S) BY <1>2, <1>3, ProperUnion
<1>5. F \subseteq S OBVIOUS
<1> HIDE DEF S
<1> QED BY <1>4, <1>5, ProperPart

LEMMA PlainFinding ==
  ASSUME NEW c, NEW s, NEW n \in 0 .. 100
  PROVE  Fitting(Finding(c, s, n))
<1>1. Finding(c, s, n).floor = n /\ Finding(c, s, n).flags = {} BY DEF Finding
<1> QED BY <1>1 DEF Fitting, Has

LEMMA FlaggedFinding ==
  ASSUME NEW c, NEW s, NEW n \in 0 .. 100,
         NEW g \in {"auto_reject_by_rules", "blocks_auto_clear", "observation"}
  PROVE  Fitting(With(Finding(c, s, n), {g}))
<1>1. With(Finding(c, s, n), {g}).floor = n /\ With(Finding(c, s, n), {g}).flags = {g}
  BY DEF Finding, With
<1> QED BY <1>1 DEF Fitting, Has

LEMMA RuleFindings ==
  ASSUME NEW c, NEW n \in 0 .. 100
  PROVE  Fitting(RuleClear(c)) /\ Fitting(RuleReject(c, n)) /\ Fitting(Observation(c))
<1>1. /\ RuleClear(c).flags = {"auto_clear_by_rules", "skip_ai"}
      /\ RuleClear(c).severity = "CLEAR" /\ RuleClear(c).floor = 0
  BY DEF RuleClear, With, Finding
<1>2. RuleReject(c, n).flags = {"auto_reject_by_rules", "skip_ai"} /\ RuleReject(c, n).floor = n
  BY DEF RuleReject, With, Finding
<1>3. Observation(c).flags = {"observation"} /\ Observation(c).floor = 0
  BY DEF Observation, With, Finding
<1>4. Fitting(RuleClear(c)) BY <1>1 DEF Fitting, Has, Blocking, Grave
<1>5. Fitting(RuleReject(c, n)) BY <1>2 DEF Fitting, Has
<1>6. Fitting(Observation(c)) BY <1>3 DEF Fitting, Has
<1> QED BY <1>4, <1>5, <1>6

LEMMA RoutingProper == ASSUME NEW s PROVE Proper(check_routing(s))
<1>1. /\ Fitting(Finding("HIGH_RISK_DESTINATION", "HIGH", 70))
      /\ Fitting(Finding("HIGH_RISK_ORIGIN", "HIGH", 70))
      /\ Fitting(Finding("HIGH_RISK_TRANSIT", "HIGH", 70))
      /\ Fitting(Finding("MULTIPLE_DIVERSION_HUBS", "HIGH", 70))
      /\ Fitting(Finding("ROUTE_CHANGED_AFTER_BOOKING", "HIGH", 75))
  BY PlainFinding
<1> DEFINE a == Finding("HIGH_RISK_DESTINATION", "HIGH", 70)
           b == Finding("HIGH_RISK_ORIGIN", "HIGH", 70)
           c == Finding("HIGH_RISK_TRANSIT", "HIGH", 70)
           d == Finding("MULTIPLE_DIVERSION_HUBS", "HIGH", 70)
           e == Finding("ROUTE_CHANGED_AFTER_BOOKING", "HIGH", 75)
<1>2. check_routing(s) \subseteq {a, b, c, d, e, e} BY DEF check_routing, If
<1> HIDE DEF a, b, c, d, e
<1> QED BY <1>1, <1>2, ProperFew DEF a, b, c, d, e

LEMMA WhitelistProper == ASSUME NEW s, NEW w PROVE Proper(check_whitelist(s, w))
<1>1. /\ Fitting(RuleReject("WHITELIST_IDENTITY_MISMATCH", 95))
      /\ Fitting(RuleClear("WHITELIST_MATCH"))
  BY PlainFinding, FlaggedFinding, RuleFindings
<1> DEFINE f1 == RuleReject("WHITELIST_IDENTITY_MISMATCH", 95)
           f2 == RuleClear("WHITELIST_MATCH")
<1>2. check_whitelist(s, w) \subseteq {f1, f2, f2, f2, f2, f2} BY DEF check_whitelist, If
<1> HIDE DEF f1, f2
<1> QED BY <1>1, <1>2, ProperFew DEF f1, f2

LEMMA BlacklistProper == ASSUME NEW s, NEW w PROVE Proper(check_blacklist(s, w))
<1>1. /\ Fitting(RuleReject("BLACKLIST_MATCH", 100))
      /\ Fitting(RuleReject("BLACKLIST_TAX_ID", 100))
  BY PlainFinding, FlaggedFinding, RuleFindings
<1> DEFINE f1 == RuleReject("BLACKLIST_MATCH", 100)
           f2 == RuleReject("BLACKLIST_TAX_ID", 100)
<1>2. check_blacklist(s, w) \subseteq {f1, f2, f2, f2, f2, f2} BY DEF check_blacklist, If
<1> HIDE DEF f1, f2
<1> QED BY <1>1, <1>2, ProperFew DEF f1, f2

LEMMA LowValueProper == ASSUME NEW s, NEW w PROVE Proper(check_low_value_domestic(s, w))
<1>1. /\ Fitting(RuleClear("LOW_VALUE_DOMESTIC"))
  BY PlainFinding, FlaggedFinding, RuleFindings
<1> DEFINE f1 == RuleClear("LOW_VALUE_DOMESTIC")
<1>2. check_low_value_domestic(s, w) \subseteq {f1, f1, f1, f1, f1, f1} BY DEF check_low_value_domestic, If
<1> HIDE DEF f1
<1> QED BY <1>1, <1>2, ProperFew DEF f1

LEMMA FreightProper == ASSUME NEW s, NEW w PROVE Proper(check_freight_ratio(s, w))
<1>1. /\ Fitting(Finding("FREIGHT_MISSING", "HIGH", 60))
      /\ Fitting(Finding("FREIGHT_ANOMALY", "CRITICAL", 90))
      /\ Fitting(Finding("FREIGHT_ANOMALY", "HIGH", 75))
      /\ Fitting(Finding("FREIGHT_ANOMALY", "MEDIUM", 50))
      /\ Fitting(Observation("FREIGHT_ABOVE_LANE_TYPICAL"))
  BY PlainFinding, FlaggedFinding, RuleFindings
<1> DEFINE f1 == Finding("FREIGHT_MISSING", "HIGH", 60)
           f2 == Finding("FREIGHT_ANOMALY", "CRITICAL", 90)
           f3 == Finding("FREIGHT_ANOMALY", "HIGH", 75)
           f4 == Finding("FREIGHT_ANOMALY", "MEDIUM", 50)
           f5 == Observation("FREIGHT_ABOVE_LANE_TYPICAL")
<1>2. check_freight_ratio(s, w) \subseteq {f1, f2, f3, f4, f5, f5} BY DEF check_freight_ratio, If
<1> HIDE DEF f1, f2, f3, f4, f5
<1> QED BY <1>1, <1>2, ProperFew DEF f1, f2, f3, f4, f5

LEMMA DensityProper == ASSUME NEW s PROVE Proper(check_value_density(s))
<1>1. /\ Fitting(Finding("VALUE_DENSITY_HIGH", "MEDIUM", 50))
      /\ Fitting(Finding("VALUE_DENSITY_LOW", "MEDIUM", 45))
  BY PlainFinding, FlaggedFinding, RuleFindings
<1> DEFINE f1 == Finding("VALUE_DENSITY_HIGH", "MEDIUM", 50)
           f2 == Finding("VALUE_DENSITY_LOW", "MEDIUM", 45)
<1>2. check_value_density(s) \subseteq {f1, f2, f2, f2, f2, f2} BY DEF check_value_density, If
<1> HIDE DEF f1, f2
<1> QED BY <1>1, <1>2, ProperFew DEF f1, f2

LEMMA FieldsProper == ASSUME NEW s PROVE Proper(check_mandatory_fields(s))
<1>1. /\ Fitting(Finding("SHIPPER_TAX_ID_MISSING", "HIGH", 65))
      /\ Fitting(Finding("HS_CODE_MISSING", "HIGH", 60))
      /\ Fitting(Finding("CARGO_DESCRIPTION_MISSING", "HIGH", 60))
      /\ Fitting(Finding("SHIPPER_COUNTRY_MISSING", "MEDIUM", 45))
      /\ Fitting(Finding("RECEIVER_COUNTRY_MISSING", "MEDIUM", 45))
  BY PlainFinding, FlaggedFinding, RuleFindings
<1> DEFINE f1 == Finding("SHIPPER_TAX_ID_MISSING", "HIGH", 65)
           f2 == Finding("HS_CODE_MISSING", "HIGH", 60)
           f3 == Finding("CARGO_DESCRIPTION_MISSING", "HIGH", 60)
           f4 == Finding("SHIPPER_COUNTRY_MISSING", "MEDIUM", 45)
           f5 == Finding("RECEIVER_COUNTRY_MISSING", "MEDIUM", 45)
<1>2. check_mandatory_fields(s) \subseteq {f1, f2, f3, f4, f5, f5} BY DEF check_mandatory_fields, If
<1> HIDE DEF f1, f2, f3, f4, f5
<1> QED BY <1>1, <1>2, ProperFew DEF f1, f2, f3, f4, f5

LEMMA HsCodeProper == ASSUME NEW s PROVE Proper(check_hs_code(s))
<1>1. /\ Fitting(Finding("HS_CODE_MALFORMED", "MEDIUM", 45))
      /\ Fitting(Finding("DUAL_USE_HS_CODE", "CRITICAL", 85))
  BY PlainFinding, FlaggedFinding, RuleFindings
<1> DEFINE f1 == Finding("HS_CODE_MALFORMED", "MEDIUM", 45)
           f2 == Finding("DUAL_USE_HS_CODE", "CRITICAL", 85)
<1>2. check_hs_code(s) \subseteq {f1, f2, f2, f2, f2, f2} BY DEF check_hs_code, If
<1> HIDE DEF f1, f2
<1> QED BY <1>1, <1>2, ProperFew DEF f1, f2

LEMMA InputsProper == ASSUME NEW s PROVE Proper(check_origin_inputs(s))
<1>1. /\ Fitting(With(Finding("ORIGIN_INPUTS_UNVERIFIED", "MEDIUM", 45), {"blocks_auto_clear"}))
  BY PlainFinding, FlaggedFinding, RuleFindings
<1> DEFINE f1 == With(Finding("ORIGIN_INPUTS_UNVERIFIED", "MEDIUM", 45), {"blocks_auto_clear"})
<1>2. check_origin_inputs(s) \subseteq {f1, f1, f1, f1, f1, f1} BY DEF check_origin_inputs, If
<1> HIDE DEF f1
<1> QED BY <1>1, <1>2, ProperFew DEF f1

LEMMA CounterpartyProper == ASSUME NEW s PROVE Proper(check_counterparty(s))
<1>1. /\ Fitting(Finding("SHIPPER_IDENTITY_MISMATCH", "HIGH", 75))
      /\ Fitting(Finding("SHIPPER_HISTORY_UNVERIFIED", "MEDIUM", 45))
      /\ Fitting(Finding("SHIPPER_NO_HISTORY", "HIGH", 65))
      /\ Fitting(Observation("SHIPPER_THIN_HISTORY"))
      /\ Fitting(Finding("RECENTLY_REGISTERED_SHIPPER", "HIGH", 70))
  BY PlainFinding, FlaggedFinding, RuleFindings
<1> DEFINE f1 == Finding("SHIPPER_IDENTITY_MISMATCH", "HIGH", 75)
           f2 == Finding("SHIPPER_HISTORY_UNVERIFIED", "MEDIUM", 45)
           f3 == Finding("SHIPPER_NO_HISTORY", "HIGH", 65)
           f4 == Observation("SHIPPER_THIN_HISTORY")
           f5 == Finding("RECENTLY_REGISTERED_SHIPPER", "HIGH", 70)
<1>2. check_counterparty(s) \subseteq {f1, f2, f3, f4, f5, f5} BY DEF check_counterparty, If
<1> HIDE DEF f1, f2, f3, f4, f5
<1> QED BY <1>1, <1>2, ProperFew DEF f1, f2, f3, f4, f5

LEMMA SanctionsProper == ASSUME NEW s, NEW i PROVE Proper(check_sanctions_screening(s, i))
<1>1. /\ Fitting(Finding("SANCTIONS_SCREENING_UNAVAILABLE", "HIGH", 60))
      /\ Fitting(With(Finding("SANCTIONS_MATCH", "CRITICAL", 100), {"auto_reject_by_rules"}))
      /\ Fitting(Finding("SANCTIONS_MATCH", "HIGH", 85))
  BY PlainFinding, FlaggedFinding, RuleFindings
<1> DEFINE f1 == Finding("SANCTIONS_SCREENING_UNAVAILABLE", "HIGH", 60)
           f2 == With(Finding("SANCTIONS_MATCH", "CRITICAL", 100), {"auto_reject_by_rules"})
           f3 == Finding("SANCTIONS_MATCH", "HIGH", 85)
<1>2. check_sanctions_screening(s, i) \subseteq {f1, f2, f3, f3, f3, f3} BY DEF check_sanctions_screening, If
<1> HIDE DEF f1, f2, f3
<1> QED BY <1>1, <1>2, ProperFew DEF f1, f2, f3

LEMMA DescriptionProper == ASSUME NEW s, NEW v PROVE Proper(check_hs_description_consistency(s, v))
<1>1. /\ Fitting(Finding("HS_DESCRIPTION_CHECK_UNAVAILABLE", "INFO", 0))
      /\ Fitting(Observation("HS_DESCRIPTION_CHECK_CONTRADICTORY"))
      /\ Fitting(Finding("HS_DESCRIPTION_MISMATCH_LOW_CONFIDENCE", "LOW", 0))
      /\ Fitting(Finding("HS_DESCRIPTION_MISMATCH_DUAL_USE", "CRITICAL", 80))
      /\ Fitting(Finding("HS_DESCRIPTION_MISMATCH", "MEDIUM", 40))
  BY PlainFinding, FlaggedFinding, RuleFindings
<1> DEFINE f1 == Finding("HS_DESCRIPTION_CHECK_UNAVAILABLE", "INFO", 0)
           f2 == Observation("HS_DESCRIPTION_CHECK_CONTRADICTORY")
           f3 == Finding("HS_DESCRIPTION_MISMATCH_LOW_CONFIDENCE", "LOW", 0)
           f4 == Finding("HS_DESCRIPTION_MISMATCH_DUAL_USE", "CRITICAL", 80)
           f5 == Finding("HS_DESCRIPTION_MISMATCH", "MEDIUM", 40)
<1>2. check_hs_description_consistency(s, v) \subseteq {f1, f2, f3, f4, f5, f5} BY DEF check_hs_description_consistency, If
<1> HIDE DEF f1, f2, f3, f4, f5
<1> QED BY <1>1, <1>2, ProperFew DEF f1, f2, f3, f4, f5

LEMMA NewsProper == ASSUME NEW z PROVE Proper(check_zero_day(z))
<1>1. /\ Fitting(Finding("ZERO_DAY_CHECK_UNAVAILABLE", "LOW", 0))
      /\ Fitting(Finding("ZERO_DAY_SEARCH_DID_NOT_RUN", "MEDIUM", 40))
      /\ Fitting(Finding("ZERO_DAY_ADVERSE_MEDIA_LOW_CONFIDENCE", "LOW", 0))
      /\ Fitting(Finding("ZERO_DAY_ADVERSE_MEDIA", "HIGH", 70))
  BY PlainFinding, FlaggedFinding, RuleFindings
<1> DEFINE f1 == Finding("ZERO_DAY_CHECK_UNAVAILABLE", "LOW", 0)
           f2 == Finding("ZERO_DAY_SEARCH_DID_NOT_RUN", "MEDIUM", 40)
           f3 == Finding("ZERO_DAY_ADVERSE_MEDIA_LOW_CONFIDENCE", "LOW", 0)
           f4 == Finding("ZERO_DAY_ADVERSE_MEDIA", "HIGH", 70)
<1>2. check_zero_day(z) \subseteq {f1, f2, f3, f4, f4, f4} BY DEF check_zero_day, If
<1> HIDE DEF f1, f2, f3, f4
<1> QED BY <1>1, <1>2, ProperFew DEF f1, f2, f3, f4

LEMMA EvidenceProper == ASSUME NEW s, NEW ps PROVE Proper(evidence_findings(s, ps))
<1>1. /\ Fitting(Finding("ORIGIN_EVIDENCE_CONTRADICTION", "HIGH", 80))
      /\ Fitting(Finding("ORIGIN_PRODUCER_MISMATCH", "HIGH", 75))
  BY PlainFinding, FlaggedFinding, RuleFindings
<1> DEFINE f1 == Finding("ORIGIN_EVIDENCE_CONTRADICTION", "HIGH", 80)
           f2 == Finding("ORIGIN_PRODUCER_MISMATCH", "HIGH", 75)
<1>2. evidence_findings(s, ps) \subseteq {f1, f2, f2, f2, f2, f2} BY DEF evidence_findings, If
<1> HIDE DEF f1, f2
<1> QED BY <1>1, <1>2, ProperFew DEF f1, f2

LEMMA FactsProper == ASSUME NEW s, NEW w, NEW i PROVE Proper(deterministic(s, w, i))
<1> DEFINE a == check_whitelist(s, w) \cup check_blacklist(s, w)
           b == a \cup check_low_value_domestic(s, w)
           c == b \cup check_freight_ratio(s, w)
           d == c \cup check_value_density(s)
           e == d \cup check_mandatory_fields(s)
           f == e \cup check_hs_code(s)
           g == f \cup check_routing(s)
           h == g \cup check_origin_inputs(s)
           j == h \cup check_counterparty(s)
           k == j \cup check_sanctions_screening(s, i)
<1>1. deterministic(s, w, i) \subseteq k BY DEF deterministic, Scored
<1>2. Proper(a) BY WhitelistProper, BlacklistProper, ProperUnion
<1>3. Proper(b) BY <1>2, LowValueProper, ProperUnion
<1>4. Proper(c) BY <1>3, FreightProper, ProperUnion
<1>5. Proper(d) BY <1>4, DensityProper, ProperUnion
<1>6. Proper(e) BY <1>5, FieldsProper, ProperUnion
<1>7. Proper(f) BY <1>6, HsCodeProper, ProperUnion
<1>8. Proper(g) BY <1>7, RoutingProper, ProperUnion
<1>9. Proper(h) BY <1>8, InputsProper, ProperUnion
<1>10. Proper(j) BY <1>9, CounterpartyProper, ProperUnion
<1>11. Proper(k) BY <1>10, SanctionsProper, ProperUnion
<1> HIDE DEF k
<1> QED BY <1>1, <1>11, ProperPart

-----------------------------------------------------------------------------
(* What the floor of a set of findings is.                                    *)

LEMMA WorstFacts ==
  ASSUME NEW F, Proper(F)
  PROVE  /\ worst(F) \in 0 .. 100
         /\ \A f \in F : ~Has(f, "skip_ai") => f.floor <= worst(F)
<1> DEFINE S == {0} \cup {f.floor : f \in {f \in F : ~Has(f, "skip_ai")}}
<1>1. S \subseteq 0 .. 100 /\ S # {} BY DEF Proper, Fitting
<1>2. \A f \in F : ~Has(f, "skip_ai") => f.floor \in S OBVIOUS
<1>3. worst(F) = Greatest(S) BY DEF worst
<1> HIDE DEF S
<1> QED BY <1>1, <1>2, <1>3, GreatestIsThere

LEMMA CorroborationFacts ==
  ASSUME NEW F, Proper(F)
  PROVE  /\ corroboration(F) \in {0, 80, 90}
         /\ (\A f \in F : ~Grave(f)) => corroboration(F) = 0
         /\ \A G : (Proper(G) /\ F \subseteq G) => corroboration(F) <= corroboration(G)
<1> DEFINE G1(A) == {f \in A : Grave(f)}
<1>1. \A A : Proper(A) => IsFiniteSet(G1(A)) /\ Cardinality(G1(A)) \in Nat
  <2> TAKE A
  <2>1. G1(A) \subseteq A OBVIOUS
  <2> QED BY <2>1, FS_Subset, FS_CardinalityType DEF Proper
<1>2. \A A : corroboration(A) = IF Cardinality(G1(A)) >= 3 THEN 90
                                ELSE IF Cardinality(G1(A)) = 2 THEN 80 ELSE 0
  BY DEF corroboration
<1>3. ASSUME \A f \in F : ~Grave(f) PROVE corroboration(F) = 0
  <2>1. G1(F) = {} BY <1>3
  <2>2. Cardinality(G1(F)) = 0 BY <2>1, FS_EmptySet
  <2> QED BY <1>2, <2>2
<1>4. ASSUME NEW G, Proper(G), F \subseteq G PROVE corroboration(F) <= corroboration(G)
  <2>1. G1(F) \subseteq G1(G) BY <1>4
  <2> HIDE DEF G1
  <2>2. Cardinality(G1(F)) <= Cardinality(G1(G)) BY <1>1, <1>4, <2>1, FS_Subset
  <2>3. Cardinality(G1(F)) \in Nat /\ Cardinality(G1(G)) \in Nat BY <1>1, <1>4
  <2> QED BY <1>2, <2>2, <2>3
<1> HIDE DEF G1
<1>5. corroboration(F) \in {0, 80, 90} BY <1>2
<1> QED BY <1>3, <1>4, <1>5

\* A finding that only a person or a model's word can outweigh.
Stops(f) ==
  f.floor > 0 /\ Blocking(f) /\ ~Has(f, "skip_ai") /\ ~Has(f, "auto_clear_by_rules")

alone(F) == IF auto_reject(F) THEN 100
            ELSE IF auto_clear(F) /\ ~Contradicted(F) THEN 0
            ELSE worst(F)

LEMMA FloorFacts ==
  ASSUME NEW F, Proper(F)
  PROVE  /\ alone(F) \in 0 .. 100 /\ _floor_for(F) \in {alone(F), corroboration(F)}
         /\ _floor_for(F) \in 0 .. 100
         /\ alone(F) <= _floor_for(F) /\ corroboration(F) <= _floor_for(F)
         /\ auto_reject(F) => _floor_for(F) = 100
         /\ \A f \in F : Stops(f) => f.floor <= _floor_for(F)
<1>1. alone(F) \in 0 .. 100 BY WorstFacts DEF alone
<1>2. corroboration(F) \in {0, 80, 90} BY CorroborationFacts
<1>3. _floor_for(F) = Greatest({alone(F), corroboration(F)}) BY DEF _floor_for, alone
<1>4. /\ _floor_for(F) \in {alone(F), corroboration(F)}
      /\ alone(F) <= _floor_for(F) /\ corroboration(F) <= _floor_for(F)
  <2> DEFINE a == alone(F)
             c == corroboration(F)
  <2>1. a \in Int /\ c \in Int /\ _floor_for(F) = Greatest({a, c}) BY <1>1, <1>2, <1>3
  <2> HIDE DEF a, c
  <2>2. Greatest({a, c}) \in {a, c} /\ a <= Greatest({a, c}) /\ c <= Greatest({a, c})
    BY <2>1, FloorOfTwo
  <2>3. _floor_for(F) \in {a, c} /\ a <= _floor_for(F) /\ c <= _floor_for(F) BY <2>1, <2>2
  <2> QED BY <2>3 DEF a, c
<1>5. auto_reject(F) => alone(F) = 100 BY DEF alone
<1>6. ASSUME NEW f \in F, Stops(f) PROVE f.floor <= alone(F)
  <2>1. Contradicted(F) BY <1>6 DEF Contradicted, Stops
  <2>2. f.floor \in 0 .. 100 BY DEF Proper, Fitting
  <2>3. f.floor <= worst(F) BY <1>6, WorstFacts DEF Stops
  <2> QED BY <2>1, <2>2, <2>3 DEF alone
<1>7. \A f \in F : Stops(f) => f.floor <= _floor_for(F)
  <2> SUFFICES ASSUME NEW f \in F, Stops(f) PROVE f.floor <= _floor_for(F) OBVIOUS
  <2>1. f.floor \in 0 .. 100 BY DEF Proper, Fitting
  <2> QED BY <1>1, <1>2, <1>4, <1>6, <2>1
<1> HIDE DEF alone
<1> QED BY <1>1, <1>2, <1>4, <1>5, <1>7

\* Without a finding that stops it, and only then, a shipment may pass.
LEMMA PassingMeans ==
  ASSUME NEW F, Proper(F)
  PROVE  /\ _floor_for(F) = 0 => \A f \in F : ~Stops(f)
         /\ skip_ai(F) => \A f \in F : ~Stops(f)
         /\ skip_ai(F) /\ ~auto_reject(F) => _floor_for(F) = 0
<1>1. ASSUME _floor_for(F) = 0, NEW f \in F, Stops(f) PROVE FALSE
  <2>1. f.floor <= 0 /\ f.floor > 0 /\ f.floor \in 0 .. 100
    BY <1>1, FloorFacts DEF Stops, Proper, Fitting
  <2> QED BY <2>1
<1>2. skip_ai(F) => \A f \in F : ~Stops(f) BY DEF skip_ai, Stops
<1>3. ASSUME skip_ai(F), ~auto_reject(F) PROVE _floor_for(F) = 0
  <2>1. \A f \in F : Has(f, "skip_ai") => Has(f, "auto_clear_by_rules") /\ ~Blocking(f)
    BY <1>3 DEF auto_reject, Proper, Fitting
  <2>2. \A f \in F : ~Blocking(f) BY <1>3, <2>1 DEF skip_ai
  <2>3. auto_clear(F) BY <1>3, <2>1 DEF auto_clear, skip_ai
  <2>4. ~Contradicted(F) BY <2>2 DEF Contradicted
  <2>5. alone(F) = 0 BY <1>3, <2>3, <2>4 DEF alone
  <2>6. corroboration(F) = 0 BY <2>2, CorroborationFacts DEF Blocking
  <2> QED BY <2>5, <2>6, FloorFacts
<1> QED BY <1>1, <1>2, <1>3

\* What the models add raises the floor of the facts and never lowers it.
LEMMA FloorRises ==
  ASSUME NEW F, NEW G, Proper(F), Proper(G), F \subseteq G,
         \A g \in G \ F : ~Has(g, "auto_clear_by_rules")
  PROVE  _floor_for(F) <= _floor_for(G)
<1>1. corroboration(F) <= corroboration(G) BY CorroborationFacts
<1>2. alone(F) <= alone(G)
  <2>0. /\ alone(F) \in 0 .. 100 /\ alone(G) \in 0 .. 100
        /\ worst(F) \in 0 .. 100 /\ worst(G) \in 0 .. 100
    BY FloorFacts, WorstFacts
  <2>1. auto_reject(F) => auto_reject(G) BY DEF auto_reject
  <2>2. Contradicted(F) => Contradicted(G) BY DEF Contradicted
  <2>3. auto_clear(G) => auto_clear(F) BY DEF auto_clear
  <2>4. worst(F) <= worst(G)
    <3> DEFINE S(A) == {0} \cup {f.floor : f \in {f \in A : ~Has(f, "skip_ai")}}
    <3>1. S(F) \subseteq S(G) OBVIOUS
    <3>2. S(F) \subseteq 0 .. 100 /\ S(G) \subseteq 0 .. 100 /\ S(F) # {} /\ S(G) # {}
      BY DEF Proper, Fitting
    <3>3. worst(F) = Greatest(S(F)) /\ worst(G) = Greatest(S(G)) BY DEF worst
    <3> HIDE DEF S
    <3> QED BY <3>1, <3>2, <3>3, GreatestIsThere
  <2> QED BY <2>0, <2>1, <2>2, <2>3, <2>4 DEF alone
<1>3. /\ alone(F) \in 0 .. 100 /\ alone(G) \in 0 .. 100
      /\ _floor_for(F) \in {alone(F), corroboration(F)} /\ _floor_for(G) \in 0 .. 100
      /\ alone(G) <= _floor_for(G) /\ corroboration(G) <= _floor_for(G)
  BY FloorFacts
<1>4. corroboration(F) \in {0, 80, 90} /\ corroboration(G) \in {0, 80, 90} BY CorroborationFacts
<1> QED BY <1>1, <1>2, <1>3, <1>4

\* The shipments that pass: screened, on no list and on no watched lane.
Passes(s, i) ==
  /\ i # {} /\ screen(i, s) = {}
  /\ watched_lane(s) = {}
  /\ s.hs \notin DUAL_USE_HS_PREFIXES \cup {NoName}
  /\ {lane(s)[1], lane(s)[2]} \cap HIGH_RISK_DESTINATIONS = {}
  /\ s.cost > 0 /\ ~s.rerouted
  /\ lookup(s.tax, s.company) # "identity_mismatch"

LEMMA StoppingFinding ==
  ASSUME NEW c, NEW n \in 1 .. 100, NEW s \in {"HIGH", "CRITICAL"}
  PROVE  /\ Stops(Finding(c, s, n)) /\ ~Has(Finding(c, s, n), "observation")
<1>1. /\ Finding(c, s, n).floor = n /\ Finding(c, s, n).flags = {}
      /\ Finding(c, s, n).severity = s
  BY DEF Finding
<1> QED BY <1>1 DEF Stops, Has, Blocking, Grave

LEMMA FlaggedStops ==
  /\ LET f == With(Finding("ORIGIN_INPUTS_UNVERIFIED", "MEDIUM", 45), {"blocks_auto_clear"}) IN
     Stops(f) /\ ~Has(f, "observation")
  /\ LET f == With(Finding("SANCTIONS_MATCH", "CRITICAL", 100), {"auto_reject_by_rules"}) IN
     Stops(f) /\ ~Has(f, "observation")
<1> DEFINE f == With(Finding("ORIGIN_INPUTS_UNVERIFIED", "MEDIUM", 45), {"blocks_auto_clear"})
           g == With(Finding("SANCTIONS_MATCH", "CRITICAL", 100), {"auto_reject_by_rules"})
<1>1. f.floor = 45 /\ f.flags = {"blocks_auto_clear"} BY DEF With, Finding
<1>2. g.floor = 100 /\ g.flags = {"auto_reject_by_rules"} /\ g.severity = "CRITICAL"
  BY DEF With, Finding
<1> HIDE DEF f, g
<1>3. Stops(f) /\ ~Has(f, "observation") BY <1>1 DEF Stops, Has, Blocking
<1>4. Stops(g) /\ ~Has(g, "observation") BY <1>2 DEF Stops, Has, Blocking, Grave
<1> QED BY <1>3, <1>4 DEF f, g

LEMMA NothingStops ==
  ASSUME NEW s, s.cost \in Int, NEW w, NEW i, \A f \in deterministic(s, w, i) : ~Stops(f)
  PROVE  Passes(s, i)
<1>0. ASSUME NEW f, Stops(f), ~Has(f, "observation"),
             f \in check_freight_ratio(s, w) \cup check_mandatory_fields(s) \cup check_hs_code(s)
                     \cup check_routing(s) \cup check_origin_inputs(s) \cup check_counterparty(s)
                     \cup check_sanctions_screening(s, i)
      PROVE  FALSE
  BY <1>0 DEF deterministic, Scored
<1>1. i # {}
  <2> SUFFICES ASSUME i = {} PROVE FALSE OBVIOUS
  <2>1. Finding("SANCTIONS_SCREENING_UNAVAILABLE", "HIGH", 60) \in check_sanctions_screening(s, i)
    BY DEF check_sanctions_screening, If
  <2> QED BY <1>0, <2>1, StoppingFinding
<1>2. screen(i, s) = {}
  <2>1. CASE "CRITICAL" \in screen(i, s)
    <3>1. With(Finding("SANCTIONS_MATCH", "CRITICAL", 100), {"auto_reject_by_rules"})
             \in check_sanctions_screening(s, i)
      BY <2>1 DEF check_sanctions_screening, If
    <3> QED BY <1>0, <3>1, FlaggedStops
  <2>2. CASE "CRITICAL" \notin screen(i, s) /\ screen(i, s) # {}
    <3>1. Finding("SANCTIONS_MATCH", "HIGH", 85) \in check_sanctions_screening(s, i)
      BY <2>2 DEF check_sanctions_screening, If
    <3> QED BY <1>0, <3>1, StoppingFinding
  <2> QED BY <2>1, <2>2
<1>3. watched_lane(s) = {}
  <2> SUFFICES ASSUME watched_lane(s) # {} PROVE FALSE OBVIOUS
  <2>1. With(Finding("ORIGIN_INPUTS_UNVERIFIED", "MEDIUM", 45), {"blocks_auto_clear"})
           \in check_origin_inputs(s)
    BY DEF check_origin_inputs, If
  <2> QED BY <1>0, <2>1, FlaggedStops
<1>4. s.hs \notin DUAL_USE_HS_PREFIXES
  <2> SUFFICES ASSUME s.hs \in DUAL_USE_HS_PREFIXES PROVE FALSE OBVIOUS
  <2>1. Finding("DUAL_USE_HS_CODE", "CRITICAL", 85) \in check_hs_code(s) BY DEF check_hs_code, If
  <2> QED BY <1>0, <2>1, StoppingFinding
<1>5. s.hs # NoName
  <2> SUFFICES ASSUME s.hs = NoName PROVE FALSE OBVIOUS
  <2>1. Finding("HS_CODE_MISSING", "HIGH", 60) \in check_mandatory_fields(s)
    BY DEF check_mandatory_fields, If
  <2> QED BY <1>0, <2>1, StoppingFinding
<1>6. lane(s)[2] \notin HIGH_RISK_DESTINATIONS
  <2> SUFFICES ASSUME lane(s)[2] \in HIGH_RISK_DESTINATIONS PROVE FALSE OBVIOUS
  <2>1. Finding("HIGH_RISK_DESTINATION", "HIGH", 70) \in check_routing(s) BY DEF check_routing, If
  <2> QED BY <1>0, <2>1, StoppingFinding
<1>7. lane(s)[1] \notin HIGH_RISK_DESTINATIONS
  <2> SUFFICES ASSUME lane(s)[1] \in HIGH_RISK_DESTINATIONS PROVE FALSE OBVIOUS
  <2>1. Finding("HIGH_RISK_ORIGIN", "HIGH", 70) \in check_routing(s) BY <1>6 DEF check_routing, If
  <2> QED BY <1>0, <2>1, StoppingFinding
<1>8. s.cost > 0
  <2> SUFFICES ASSUME s.cost <= 0 PROVE FALSE OBVIOUS
  <2>1. Finding("FREIGHT_MISSING", "HIGH", 60) \in check_freight_ratio(s, w)
    BY DEF check_freight_ratio, If
  <2> QED BY <1>0, <2>1, StoppingFinding
<1>9. ~s.rerouted
  <2> SUFFICES ASSUME s.rerouted PROVE FALSE OBVIOUS
  <2>1. Finding("ROUTE_CHANGED_AFTER_BOOKING", "HIGH", 75) \in check_routing(s)
    BY DEF check_routing, If
  <2> QED BY <1>0, <2>1, StoppingFinding
<1>10. lookup(s.tax, s.company) # "identity_mismatch"
  <2> SUFFICES ASSUME lookup(s.tax, s.company) = "identity_mismatch" PROVE FALSE OBVIOUS
  <2>1. Finding("SHIPPER_IDENTITY_MISMATCH", "HIGH", 75) \in check_counterparty(s)
    BY DEF check_counterparty, If
  <2> QED BY <1>0, <2>1, StoppingFinding
<1> QED BY <1>1, <1>2, <1>3, <1>4, <1>5, <1>6, <1>7, <1>8, <1>9, <1>10 DEF Passes

-----------------------------------------------------------------------------
(* What a validation says.                                                    *)

\* A model's word carries no rule's flag.
LEMMA ModelFindings ==
  ASSUME NEW s, NEW v, NEW z
  PROVE  /\ Proper(from_models(s, v, z))
         /\ \A f \in from_models(s, v, z) : ~Has(f, "auto_clear_by_rules")
<1> DEFINE a == check_hs_description_consistency(s, v)
           b == check_zero_day(z)
<1>1. from_models(s, v, z) \subseteq a \cup b BY DEF from_models, Scored
<1>2. Proper(a \cup b) BY DescriptionProper, NewsProper, ProperUnion
<1>3. \A c, n, m : Finding(c, n, m).flags = {} /\ Observation(c).flags = {"observation"}
  BY DEF Finding, With, Observation
<1>4. \A f \in a \cup b : f.flags \subseteq {"observation"}
  BY <1>3 DEF check_hs_description_consistency, check_zero_day, If
<1> HIDE DEF a, b
<1>5. Proper(from_models(s, v, z)) BY <1>1, <1>2, ProperPart
<1>6. \A f \in from_models(s, v, z) : ~Has(f, "auto_clear_by_rules") BY <1>1, <1>4 DEF Has
<1> QED BY <1>5, <1>6

LEMMA ValidationSays ==
  ASSUME NEW s, s.cost \in Int, NEW w, NEW i, NEW v, NEW z, NEW r, r = validate(s, w, i, v, z)
  PROVE  /\ r.risk_floor \in 0 .. 100 /\ r.base \in 0 .. 100 /\ r.base <= r.risk_floor
         /\ r.rejected => r.risk_floor = 100
         /\ r.risk_floor = 0 => Passes(s, i)
         /\ r.skip_ai /\ ~r.rejected => r.risk_floor = 0
         /\ DOMAIN r = DOMAIN NoValidation
<1> DEFINE facts == deterministic(s, w, i)
           said == from_models(s, v, z)
           all == facts \cup said
<1>1. /\ r.risk_floor = _floor_for(all) /\ r.base = _floor_for(facts)
      /\ r.skip_ai = skip_ai(all) /\ r.rejected = auto_reject(all)
  BY DEF validate
<1>2. DOMAIN r = DOMAIN NoValidation BY DEF validate, NoValidation
<1>3. Proper(facts) BY FactsProper
<1>4. Proper(said) /\ \A f \in said : ~Has(f, "auto_clear_by_rules") BY ModelFindings
<1>5. Proper(all) BY <1>3, <1>4, ProperUnion
<1>6. ASSUME \A f \in all : ~Stops(f) PROVE Passes(s, i)
  <2>1. \A f \in deterministic(s, w, i) : ~Stops(f) BY <1>6
  <2> QED BY <2>1, NothingStops
<1>7. facts \subseteq all /\ \A g \in all \ facts : ~Has(g, "auto_clear_by_rules") BY <1>4
<1> HIDE DEF facts, said, all
<1>8. /\ _floor_for(all) \in 0 .. 100 /\ _floor_for(facts) \in 0 .. 100
      /\ auto_reject(all) => _floor_for(all) = 100
  BY <1>3, <1>5, FloorFacts
<1>9. _floor_for(facts) <= _floor_for(all) BY <1>3, <1>5, <1>7, FloorRises
<1>10. _floor_for(all) = 0 => Passes(s, i) BY <1>5, <1>6, PassingMeans
<1>11. skip_ai(all) /\ ~auto_reject(all) => _floor_for(all) = 0 BY <1>5, PassingMeans
<1> QED BY <1>1, <1>2, <1>8, <1>9, <1>10, <1>11

\* The score acted on lies between the floor and a hundred, whatever the model,
\* the shipper's past and the auditor say.
LEMMA ScoreAboveFloor ==
  ASSUME NEW score \in {Absent} \cup 0 .. 100, NEW floor \in 0 .. 100, NEW past, NEW s,
         NEW debate, debate.score \in 0 .. 100, NEW r, r = reconcile(score, floor)
  PROVE  /\ Debated(r, Learned(r, past, s), debate) \in floor .. 100
         /\ r.auto_clear_permitted => floor = 0
<1> DEFINE said == IF score = Absent THEN 50 ELSE score
           adj == shipper_risk_adjustment(past, s)
           sum == IF r.effective_risk + adj > 100 THEN 100 ELSE r.effective_risk + adj
           learned == Learned(r, past, s)
<1>1. /\ r.effective_risk = Greatest({floor, said}) /\ r.risk_floor = floor
      /\ r.auto_clear_permitted = (score # Absent /\ floor = 0)
  BY DEF reconcile
<1>2. said \in 0 .. 100 BY DEF Absent
<1>3. adj \in {15, -10, 0} BY DEF shipper_risk_adjustment
<1>4. learned = IF adj = 0 THEN r.effective_risk ELSE Greatest({floor, sum}) BY <1>1 DEF Learned
<1> HIDE DEF said
<1>5. r.effective_risk \in floor .. 100 BY <1>1, <1>2, FloorOfTwo
<1>6. sum \in Int /\ sum <= 100 BY <1>3, <1>5
<1> HIDE DEF sum, adj
<1>7. Greatest({floor, sum}) \in floor .. 100 BY <1>6, FloorOfTwo
<1>8. learned \in floor .. 100 BY <1>4, <1>5, <1>7
<1> HIDE DEF learned
<1>9. Greatest({learned, debate.score}) \in floor .. 100
  <2>1. learned \in Int /\ debate.score \in Int /\ floor \in Int BY <1>8
  <2>2. /\ Greatest({learned, debate.score}) \in {learned, debate.score}
        /\ learned <= Greatest({learned, debate.score})
    BY <2>1, FloorOfTwo
  <2> QED BY <1>8, <2>1, <2>2
<1>10. Debated(r, learned, debate) \in floor .. 100 BY <1>8, <1>9 DEF Debated
<1> QED BY <1>1, <1>10 DEF learned

\* A contradicted origin is in the findings, at eighty.
LEMMA ContradictionStops ==
  ASSUME NEW s, NEW w, NEW i, NEW ps, NEW d \in ps, Contradicts(s, d), NEW F,
         F = deterministic(s, w, i) \cup evidence_findings(s, ps)
  PROVE  _floor_for(F) >= 80 /\ check_origin_evidence(s, ps) = "contradicted"
<1> DEFINE f == Finding("ORIGIN_EVIDENCE_CONTRADICTION", "HIGH", 80)
<1>1. f \in evidence_findings(s, ps) BY DEF evidence_findings, If
<1>2. Proper(F) BY FactsProper, EvidenceProper, ProperUnion
<1>3. f.floor = 80 BY DEF Finding
<1>4. Stops(f) BY StoppingFinding
<1>5. f \in F BY <1>1
<1>6. check_origin_evidence(s, ps) = "contradicted" BY <1>1 DEF check_origin_evidence
<1> HIDE DEF f
<1>7. f.floor <= _floor_for(F) /\ _floor_for(F) \in 0 .. 100 BY <1>2, <1>4, <1>5, FloorFacts
<1> QED BY <1>3, <1>6, <1>7

-----------------------------------------------------------------------------
(* The invariant of the screening.                                            *)

CaseFields ==
  {"state", "shipment", "validation", "search", "risk", "floor", "permitted", "status",
   "failed", "debate_escalated", "evaluation"}
Shaped(c) ==
  /\ DOMAIN c = CaseFields
  /\ DOMAIN c.validation = DOMAIN NoValidation
  /\ c.shipment \in Shipments
  /\ c.risk \in 0 .. 100 /\ c.floor \in 0 .. 100 /\ c.validation.risk_floor \in 0 .. 100

\* What the routing acts on: a case that may be cleared passes the list in the
\* cache, and only a case that waits for a person has an evaluation.
ScreeningInv ==
  /\ Shaped(case)
  /\ FloorStands
  /\ case.state = "SPECIALISTS_DONE" /\ case.permitted => Passes(case.shipment, index)
  /\ ReleasedIsScreened
  /\ case.state \notin REEVALUABLE => case.evaluation.papers = {}
  /\ ContradictionEscalates

LEMMA ScreeningBegins == ScreeningInit => ScreeningInv
<1> SUFFICES ASSUME ScreeningInit PROVE ScreeningInv OBVIOUS
<1>1. PICK s \in Shipments : case = NewCase(s) BY DEF ScreeningInit
<1>2. /\ DOMAIN case = CaseFields /\ case.state = "INGESTED" /\ case.shipment = s
      /\ case.risk = 0 /\ case.floor = 0 /\ case.validation = NoValidation
      /\ case.evaluation = NoEvaluation
  BY <1>1 DEF NewCase, CaseFields
<1>3. NoValidation.risk_floor = 0 /\ NoEvaluation.papers = {} BY DEF NoValidation, NoEvaluation
<1> QED BY <1>2, <1>3 DEF ScreeningInv, Shaped, FloorStands, Screened, ReleasedIsScreened,
                         ContradictionEscalates

LEMMA SurroundingsKeep ==
  ScreeningInv /\ UNCHANGED <<index, case>> => ScreeningInv'
BY DEF ScreeningInv, Shaped, FloorStands, Screened, ReleasedIsScreened, ContradictionEscalates

LEMMA AgeOrListKeeps ==
  ASSUME ScreeningInv, UNCHANGED case,
         \/ \E e \in Editors : WriteRules(e) \/ \E p \in Patches : ReadRules(e, p)
         \/ \E l \in Lists : Republish(l)
         \/ Age
         \/ \E d \in Papers : Receive(d)
  PROVE  ScreeningInv'
<1>1. UNCHANGED index BY DEF WriteRules, ReadRules, Republish, Age, Receive
<1> QED BY <1>1, SurroundingsKeep

LEMMA ScreenKeeps ==
  ASSUME ScreeningInv, NEW gate \in BOOLEAN, Screen(gate)
  PROVE  ScreeningInv'
<1> DEFINE s == case.shipment
           v == validate(s, rules, load, Quiet, Unsearched)
<1>0. /\ Shaped(case) /\ case.state = "INGESTED" /\ case.evaluation.papers = {}
      /\ s \in Shipments /\ s.cost \in Int
  BY ScreeningInputs DEF ScreeningInv, Screen, Shaped, REEVALUABLE
<1>1. index' = load BY DEF Screen, Loaded
<1>2. /\ v.risk_floor \in 0 .. 100 /\ v.base \in 0 .. 100 /\ v.base <= v.risk_floor
      /\ v.rejected => v.risk_floor = 100
      /\ v.risk_floor = 0 => Passes(s, load)
      /\ v.skip_ai /\ ~v.rejected => v.risk_floor = 0
      /\ DOMAIN v = DOMAIN NoValidation
  BY <1>0, ValidationSays
<1>3. CASE v.skip_ai
  <2>1. case' = [case EXCEPT !.validation = v,
                   !.state = Decided(IF v.rejected THEN "ESCALATED" ELSE "AUTO_CLEARED", gate),
                   !.risk = IF v.rejected THEN 100 ELSE 0,
                   !.floor = v.risk_floor, !.permitted = ~v.rejected]
    BY <1>3 DEF Screen
  <2>2. /\ DOMAIN case' = CaseFields /\ case'.validation = v /\ case'.shipment = s
        /\ case'.risk = (IF v.rejected THEN 100 ELSE 0) /\ case'.floor = v.risk_floor
        /\ case'.evaluation = case.evaluation
        /\ case'.state = Decided(IF v.rejected THEN "ESCALATED" ELSE "AUTO_CLEARED", gate)
    <3> HIDE DEF v
    <3> QED BY <1>0, <2>1 DEF Shaped, CaseFields
  <2>3. /\ case'.state \in {"ESCALATED", "AUTO_CLEARED", "PENDING_HUMAN"}
        /\ case'.state = "AUTO_CLEARED" => ~v.rejected
    BY <2>2 DEF Decided
  <2> HIDE DEF v
  <2>4. Shaped(case)' BY <1>0, <1>2, <2>2 DEF Shaped
  <2>5. FloorStands' BY <1>2, <1>3, <2>2 DEF FloorStands
  <2>6. ReleasedIsScreened' BY <1>1, <1>2, <1>3, <2>2, <2>3
    DEF ReleasedIsScreened, Passes, FRAUD_CLEAR_BELOW
  <2>7. ContradictionEscalates' BY <1>0, <2>2 DEF ContradictionEscalates
  <2> QED BY <1>0, <2>2, <2>3, <2>4, <2>5, <2>6, <2>7 DEF ScreeningInv
<1>4. CASE ~v.skip_ai
  <2>1. case' = [case EXCEPT !.state = "ASKING", !.search = should_screen(s, load, v.skip_ai)]
    BY <1>4 DEF Screen
  <2>2. /\ DOMAIN case' = CaseFields /\ case'.validation = case.validation /\ case'.shipment = s
        /\ case'.risk = case.risk /\ case'.floor = case.floor
        /\ case'.evaluation = case.evaluation /\ case'.state = "ASKING"
    <3> HIDE DEF v
    <3> QED BY <1>0, <2>1 DEF Shaped, CaseFields
  <2> QED BY <1>0, <2>2
    DEF ScreeningInv, Shaped, FloorStands, Screened, ReleasedIsScreened, ContradictionEscalates
<1> QED BY <1>3, <1>4

LEMMA InterruptedKeeps ==
  ASSUME ScreeningInv, Interrupted
  PROVE  ScreeningInv'
<1>1. case' = NewCase(case.shipment) /\ case.shipment \in Shipments
  BY DEF ScreeningInv, Shaped, Interrupted
<1>2. /\ DOMAIN case' = CaseFields /\ case'.state = "INGESTED" /\ case'.shipment = case.shipment
      /\ case'.risk = 0 /\ case'.floor = 0 /\ case'.validation = NoValidation
      /\ case'.evaluation = NoEvaluation
  BY <1>1 DEF NewCase, CaseFields
<1>3. NoValidation.risk_floor = 0 /\ NoEvaluation.papers = {} BY DEF NoValidation, NoEvaluation
<1> QED BY <1>1, <1>2, <1>3 DEF ScreeningInv, Shaped, FloorStands, Screened, ReleasedIsScreened,
                         ContradictionEscalates

LEMMA AnalyseKeeps ==
  ASSUME ScreeningInv, NEW score \in Scores, NEW status \in Statuses, NEW failed \in BOOLEAN,
         NEW hs, NEW news, NEW past \in Pasts, NEW debate \in Debates,
         Analyse(score, status, failed, hs, news, past, debate)
  PROVE  ScreeningInv'
<1> DEFINE s == case.shipment
           v == validate(s, rules, load, hs, news)
           r == reconcile(score, v.risk_floor)
           risk == Debated(r, Learned(r, past, s), debate)
<1>0. /\ Shaped(case) /\ case.state = "ASKING" /\ case.evaluation.papers = {}
      /\ s \in Shipments /\ s.cost \in Int
      /\ score \in {Absent} \cup 0 .. 100 /\ debate.score \in 0 .. 100
  BY ScreeningInputs DEF ScreeningInv, Analyse, Shaped, REEVALUABLE
<1>1. index' = load BY DEF Analyse, Loaded
<1>2. /\ v.risk_floor \in 0 .. 100 /\ v.base \in 0 .. 100 /\ v.base <= v.risk_floor
      /\ v.rejected => v.risk_floor = 100
      /\ v.risk_floor = 0 => Passes(s, load)
      /\ DOMAIN v = DOMAIN NoValidation
  BY <1>0, ValidationSays
<1>3. case' = [case EXCEPT
           !.state = "SPECIALISTS_DONE", !.validation = v, !.status = status,
           !.failed = failed, !.floor = v.risk_floor,
           !.permitted = r.auto_clear_permitted,
           !.risk = risk, !.debate_escalated = Escalates(r, debate)]
  BY DEF Analyse
<1> HIDE DEF v
<1>4. risk \in v.risk_floor .. 100 /\ (r.auto_clear_permitted => v.risk_floor = 0)
  <2> DEFINE bottom == v.risk_floor
  <2>1. bottom \in 0 .. 100 /\ r = reconcile(score, bottom) BY <1>2
  <2>3. score \in {Absent} \cup 0 .. 100 /\ debate.score \in 0 .. 100 BY <1>0
  <2> HIDE DEF bottom, r, s
  <2>2. /\ Debated(r, Learned(r, past, s), debate) \in bottom .. 100
        /\ r.auto_clear_permitted => bottom = 0
    BY ONLY <2>1, <2>3, ScoreAboveFloor
  <2> QED BY <2>2 DEF bottom
<1> HIDE DEF r, risk
<1>5. /\ DOMAIN case' = CaseFields /\ case'.validation = v /\ case'.shipment = s
      /\ case'.risk = risk /\ case'.floor = v.risk_floor
      /\ case'.permitted = r.auto_clear_permitted
      /\ case'.evaluation = case.evaluation /\ case'.state = "SPECIALISTS_DONE"
  BY <1>0, <1>3 DEF Shaped, CaseFields
<1>6. Shaped(case)' BY <1>0, <1>2, <1>4, <1>5 DEF Shaped
<1>7. FloorStands' BY <1>2, <1>4, <1>5 DEF FloorStands
<1>8. case'.permitted => Passes(case'.shipment, index') BY <1>1, <1>2, <1>4, <1>5
<1>9. ReleasedIsScreened' /\ ContradictionEscalates'
  BY <1>0, <1>5 DEF ReleasedIsScreened, ContradictionEscalates
<1> QED BY <1>0, <1>5, <1>6, <1>7, <1>8, <1>9 DEF ScreeningInv

LEMMA RouteKeeps ==
  ASSUME ScreeningInv, NEW gate \in BOOLEAN, Route(gate)
  PROVE  ScreeningInv'
<1> DEFINE next == IF clean THEN Decided("AUTO_CLEARED", gate)
                   ELSE IF needs_investigation THEN "INVESTIGATED"
                   ELSE Decided("HELD_FOR_REVIEW", gate)
<1>0. /\ Shaped(case) /\ case.state = "SPECIALISTS_DONE" /\ case.evaluation.papers = {}
      /\ FloorStands /\ index' = index
      /\ case.permitted => Passes(case.shipment, index)
  BY DEF ScreeningInv, Route, REEVALUABLE
<1>1. case' = [case EXCEPT !.state = next,
       !.status = "UNKNOWN", !.failed = FALSE, !.debate_escalated = FALSE, !.search = FALSE]
  BY DEF Route
<1>2. /\ next \in {"AUTO_CLEARED", "PENDING_HUMAN", "INVESTIGATED", "HELD_FOR_REVIEW"}
      /\ next = "AUTO_CLEARED" => clean
  BY DEF Decided
<1> HIDE DEF next
<1>3. /\ DOMAIN case' = CaseFields /\ case'.validation = case.validation
      /\ case'.shipment = case.shipment /\ case'.risk = case.risk /\ case'.floor = case.floor
      /\ case'.evaluation = case.evaluation /\ case'.state = next
  BY <1>0, <1>1 DEF Shaped, CaseFields
<1>4. Shaped(case)' BY <1>0, <1>3 DEF Shaped
<1>5. FloorStands' BY <1>0, <1>3 DEF FloorStands, Screened
<1>6. ReleasedIsScreened' BY <1>0, <1>2, <1>3 DEF ReleasedIsScreened, Passes, clean
<1>7. ContradictionEscalates' BY <1>0, <1>3 DEF ContradictionEscalates
<1> QED BY <1>0, <1>2, <1>3, <1>4, <1>5, <1>6, <1>7 DEF ScreeningInv

LEMMA ConcludeKeeps ==
  ASSUME ScreeningInv, NEW inflated \in BOOLEAN, NEW gate \in BOOLEAN, Conclude(inflated, gate)
  PROVE  ScreeningInv'
<1>0. /\ Shaped(case) /\ case.state = "INVESTIGATED" /\ case.evaluation.papers = {}
      /\ FloorStands
  BY DEF ScreeningInv, Conclude, REEVALUABLE
<1>1. case' = [case EXCEPT !.validation.findings = @ \cup Exposed(inflated),
                          !.state = Decided("ESCALATED", gate)]
  BY DEF Conclude
<1>2. Decided("ESCALATED", gate) \in {"ESCALATED", "PENDING_HUMAN"} BY DEF Decided
<1> DEFINE all == case.validation.findings \cup Exposed(inflated)
<1>3. /\ DOMAIN case' = CaseFields
      /\ case'.validation = [case.validation EXCEPT !.findings = all]
      /\ case'.shipment = case.shipment /\ case'.risk = case.risk /\ case'.floor = case.floor
      /\ case'.evaluation = case.evaluation /\ case'.state \in {"ESCALATED", "PENDING_HUMAN"}
  BY <1>0, <1>1, <1>2 DEF Shaped, CaseFields
<1> HIDE DEF all
<1>4. /\ DOMAIN case'.validation = DOMAIN NoValidation
      /\ case'.validation.risk_floor = case.validation.risk_floor
      /\ case'.validation.base = case.validation.base
      /\ case'.validation.rejected = case.validation.rejected
  BY <1>0, <1>3 DEF Shaped, NoValidation
<1>5. Shaped(case)' BY <1>0, <1>3, <1>4 DEF Shaped
<1>6. FloorStands' BY <1>0, <1>3, <1>4 DEF FloorStands, Screened
<1>7. ReleasedIsScreened' /\ ContradictionEscalates'
  BY <1>0, <1>3 DEF ReleasedIsScreened, ContradictionEscalates
<1> QED BY <1>0, <1>3, <1>5, <1>6, <1>7 DEF ScreeningInv, REEVALUABLE

LEMMA ReevaluateKeeps ==
  ASSUME ScreeningInv, Reevaluate
  PROVE  ScreeningInv' /\ case'.risk >= case.risk /\ (case.state = "ESCALATED" => case'.state = "ESCALATED")
<1> DEFINE s == case.shipment
           found == deterministic(s, Defaults, load) \cup evidence_findings(s, papers)
           floor == _floor_for(found)
           seen == [papers |-> papers, findings |-> found, status |-> check_origin_evidence(s, papers)]
           next == IF floor >= INVESTIGATE_AT \/ case.state = "ESCALATED" THEN "ESCALATED"
                   ELSE "HELD_FOR_REVIEW"
           raised == Raise(floor)
<1>0. /\ Shaped(case) /\ FloorStands /\ case.state \in REEVALUABLE
      /\ case.risk \in Int /\ case.floor \in Int
  BY DEF ScreeningInv, Reevaluate, Shaped
<1>1. Proper(found) BY FactsProper, EvidenceProper, ProperUnion
<1>2. floor \in 0 .. 100 BY <1>1, FloorFacts
<1>3. (\E d \in papers : Contradicts(s, d)) => floor >= 80 /\ seen.status = "contradicted"
  <2> SUFFICES ASSUME NEW d \in papers, Contradicts(s, d)
               PROVE  floor >= 80 /\ seen.status = "contradicted"
    OBVIOUS
  <2> QED BY ContradictionStops
<1>4. seen.papers = papers OBVIOUS
<1>5. case' = [raised EXCEPT !.evaluation = seen, !.state = next]
  <2>1. raised.state = case.state BY <1>0 DEF Raise, Shaped, CaseFields
  <2>2. case' = [raised EXCEPT !.evaluation = seen,
           !.state = IF floor >= INVESTIGATE_AT \/ raised.state = "ESCALATED" THEN "ESCALATED"
                     ELSE "HELD_FOR_REVIEW"]
    BY DEF Reevaluate
  <2> QED BY <2>1, <2>2
<1>6. /\ next \in {"ESCALATED", "HELD_FOR_REVIEW"}
      /\ floor >= 80 => next = "ESCALATED"
      /\ case.state = "ESCALATED" => next = "ESCALATED"
  BY <1>2 DEF INVESTIGATE_AT
<1> HIDE DEF found, floor, seen, next
<1>7. /\ DOMAIN raised = CaseFields /\ raised.validation = case.validation
      /\ raised.shipment = s
      /\ raised.floor = (IF floor > case.floor THEN floor ELSE case.floor)
      /\ raised.risk = (IF floor > case.floor THEN Greatest({case.risk, floor}) ELSE case.risk)
  BY <1>0 DEF Raise, Shaped, CaseFields
<1>8. /\ raised.risk >= case.risk /\ raised.risk >= raised.floor /\ raised.risk \in 0 .. 100
      /\ raised.floor >= case.floor /\ raised.floor >= floor /\ raised.floor \in 0 .. 100
  <2>1. /\ Greatest({case.risk, floor}) \in {case.risk, floor}
        /\ case.risk <= Greatest({case.risk, floor}) /\ floor <= Greatest({case.risk, floor})
    <3> DEFINE x == case.risk
    <3>1. x \in Int /\ floor \in Int BY <1>0, <1>2
    <3> HIDE DEF x
    <3>2. Greatest({x, floor}) \in {x, floor} /\ x <= Greatest({x, floor}) /\ floor <= Greatest({x, floor})
      BY <3>1, FloorOfTwo
    <3> QED BY <3>2 DEF x
  <2>2. case.risk >= case.floor /\ case.risk \in 0 .. 100 /\ case.floor \in 0 .. 100
    BY <1>0 DEF FloorStands, Screened, REEVALUABLE, Shaped
  <2> QED BY <1>2, <1>7, <2>1, <2>2
<1> HIDE DEF raised
<1>9. /\ DOMAIN case' = CaseFields /\ case'.validation = case.validation
      /\ case'.shipment = s /\ case'.risk = raised.risk /\ case'.floor = raised.floor
      /\ case'.evaluation = seen /\ case'.state = next
  BY <1>5, <1>7 DEF CaseFields
<1>10. Shaped(case)' BY <1>0, <1>8, <1>9 DEF Shaped
<1>11. FloorStands'
  <2>1. /\ case.floor >= case.validation.risk_floor
        /\ case.validation.risk_floor >= case.validation.base
        /\ case.validation.rejected => case.risk = 100
        /\ case.validation.risk_floor \in 0 .. 100
    BY <1>0 DEF FloorStands, Screened, REEVALUABLE, Shaped
  <2>2. case.floor \in 0 .. 100 /\ case.risk \in 0 .. 100 BY <1>0 DEF Shaped
  <2>3. raised.floor >= case.validation.risk_floor
    <3> DEFINE a == raised.floor
               b == case.floor
               c == case.validation.risk_floor
    <3>1. a >= b /\ b >= c /\ a \in Int /\ b \in Int /\ c \in Int BY <1>8, <2>1, <2>2
    <3> HIDE DEF a, b, c
    <3>2. a >= c BY <3>1
    <3> QED BY <3>2 DEF a, c
  <2>4. case.validation.rejected => raised.risk = 100 BY <1>8, <2>1, <2>2
  <2>5. raised.risk >= raised.floor BY <1>8
  <2> QED BY <1>9, <2>1, <2>3, <2>4, <2>5 DEF FloorStands
<1>12. ReleasedIsScreened' BY <1>6, <1>9 DEF ReleasedIsScreened
<1>13. ContradictionEscalates'
  BY <1>2, <1>3, <1>4, <1>6, <1>8, <1>9 DEF ContradictionEscalates
<1> QED BY <1>6, <1>8, <1>9, <1>10, <1>11, <1>12, <1>13 DEF ScreeningInv, REEVALUABLE

\* The screening's invariant holds from the first step to the last.
LEMMA ScreeningStep == ScreeningInv /\ [ScreeningNext]_screeningVars => ScreeningInv'
<1> SUFFICES ASSUME ScreeningInv, [ScreeningNext]_screeningVars PROVE ScreeningInv' OBVIOUS
<1>1. CASE \/ \E e \in Editors : WriteRules(e) \/ \E p \in Patches : ReadRules(e, p)
           \/ \E l \in Lists : Republish(l)
           \/ Age
           \/ \E d \in Papers : Receive(d)
  <2>1. UNCHANGED case BY <1>1 DEF WriteRules, ReadRules, Republish, Age, Receive
  <2> QED BY <1>1, <2>1, AgeOrListKeeps
<1>2. CASE \E gate \in BOOLEAN :
       Screen(gate) \/ Route(gate) \/ \E inflated \in BOOLEAN : Conclude(inflated, gate)
  BY <1>2, ScreenKeeps, RouteKeeps, ConcludeKeeps
<1>3. CASE Interrupted BY <1>3, InterruptedKeeps
<1>4. CASE \E score \in Scores, status \in Statuses, failed \in BOOLEAN,
             hs \in HsReplies(case.shipment), news \in NewsReplies, past \in Pasts,
             debate \in Debates : Analyse(score, status, failed, hs, news, past, debate)
  BY <1>4, AnalyseKeeps
<1>5. CASE Reevaluate BY <1>5, ReevaluateKeeps
<1>6. CASE UNCHANGED screeningVars BY <1>6, SurroundingsKeep DEF screeningVars
<1> QED BY <1>1, <1>2, <1>3, <1>4, <1>5, <1>6 DEF ScreeningNext

LEMMA ScreeningSound == ScreeningSpec => []ScreeningInv
<1>1. ScreeningInit => ScreeningInv BY ScreeningBegins
<1>2. ScreeningInv /\ [ScreeningNext]_screeningVars => ScreeningInv' BY ScreeningStep
<1> QED BY <1>1, <1>2, PTL DEF ScreeningSpec

\* No model, no history and no debate talks a finding down
\* (orchestrator.py:1268-1275, verifier.py:1790-1799).
THEOREM FindingsAreNotTalkedDown == ScreeningSpec => []FloorStands
<1>1. ScreeningInv => FloorStands BY DEF ScreeningInv
<1> QED BY <1>1, ScreeningSound, PTL

\* A shipment no person saw was screened against a list that could be read and
\* is on none of the lists that forbid it (verifier.py:1689-1699).
THEOREM NothingUnscreenedIsReleased == ScreeningSpec => []ReleasedIsScreened
<1>1. ScreeningInv => ReleasedIsScreened BY DEF ScreeningInv
<1> QED BY <1>1, ScreeningSound, PTL

\* A contradicted origin escalates the case, whatever other papers came with it
\* (verifier.py:1426-1429).
THEOREM ContradictionsEscalate == ScreeningSpec => []ContradictionEscalates
<1>1. ScreeningInv => ContradictionEscalates BY DEF ScreeningInv
<1> QED BY <1>1, ScreeningSound, PTL

\* A review only adds to a case: from the models' verdicts on no step lowers its
\* score or takes its escalation back (verifier.py:1409-1412).
THEOREM NothingIsTakenBack == ScreeningSpec => ReviewOnlyRaises
<1> DEFINE Keeps == Screened => /\ case'.risk >= case.risk
                                /\ case.state = "ESCALATED" => case'.state = "ESCALATED"
<1>1. ASSUME ScreeningInv, [ScreeningNext]_screeningVars PROVE [Keeps]_screeningVars
  <2> SUFFICES ASSUME Screened PROVE Keeps \/ UNCHANGED screeningVars OBVIOUS
  <2>0. Shaped(case) /\ case.risk \in Int BY <1>1 DEF ScreeningInv, Shaped
  <2>1. CASE case' = case BY <2>0, <2>1
  <2>2. CASE Reevaluate BY <1>1, <2>2, ReevaluateKeeps
  <2>3. ASSUME NEW gate \in BOOLEAN, Route(gate) PROVE Keeps
    <3>1. case'.risk = case.risk /\ case.state = "SPECIALISTS_DONE"
      BY <2>0, <2>3 DEF Route, Shaped, CaseFields
    <3> QED BY <2>0, <3>1
  <2>4. ASSUME NEW inflated \in BOOLEAN, NEW gate \in BOOLEAN, Conclude(inflated, gate) PROVE Keeps
    <3>1. case'.risk = case.risk /\ case.state = "INVESTIGATED"
      BY <2>0, <2>4 DEF Conclude, Shaped, CaseFields
    <3> QED BY <2>0, <3>1
  <2>5. \A gate : ~Screen(gate) BY DEF Screen, Screened
  <2>6. ~Interrupted BY DEF Interrupted, Screened
  <2>7. \A score, status, failed, hs, news, past, debate :
          ~Analyse(score, status, failed, hs, news, past, debate)
    BY DEF Analyse, Screened
  <2>8. CASE \/ \E e \in Editors : WriteRules(e) \/ \E p \in Patches : ReadRules(e, p)
             \/ \E l \in Lists : Republish(l)
             \/ Age
             \/ \E d \in Papers : Receive(d)
    <3>1. UNCHANGED case BY <2>8 DEF WriteRules, ReadRules, Republish, Age, Receive
    <3> QED BY <2>0, <3>1
  <2>9. CASE UNCHANGED screeningVars BY <2>9
  <2> QED BY <1>1, <2>2, <2>3, <2>4, <2>5, <2>6, <2>7, <2>8, <2>9 DEF ScreeningNext
<1> QED BY <1>1, ScreeningSound, PTL DEF ReviewOnlyRaises, ScreeningSpec

-----------------------------------------------------------------------------
(* The screens.                                                              *)

LEMMA NewestFacts ==
  ASSUME NEW S, S \subseteq Int, IsFiniteSet(S), NEW n \in Nat \ {0}
  PROVE  /\ Newest(S, n) \subseteq S /\ IsFiniteSet(Newest(S, n))
         /\ Cardinality(Newest(S, n)) \in Nat
         /\ \A at \in S \ Newest(S, n) : \A p \in Newest(S, n) : at < p
         /\ Cardinality(Newest(S, n)) <= n
         /\ S # Newest(S, n) => Cardinality(Newest(S, n)) = n
<1> DEFINE Above(at) == {b \in S : b > at}
           P == Newest(S, n)
<1>0. \A at : IsFiniteSet(Above(at)) /\ Cardinality(Above(at)) \in Nat
  <2> TAKE at
  <2>1. Above(at) \in SUBSET S OBVIOUS
  <2> QED BY <2>1, FS_Subset, FS_CardinalityType
<1>1. P = {at \in S : Cardinality(Above(at)) < n} BY DEF Newest
<1>2. P \subseteq S /\ IsFiniteSet(P) /\ Cardinality(P) \in Nat
  BY <1>1, FS_Subset, FS_CardinalityType
<1> HIDE DEF P
<1>3. ASSUME NEW at \in S \ P, NEW p \in P PROVE at < p
  <2>0. p \in S /\ p \in Int /\ at \in Int /\ at \in S BY <1>2, <1>3
  <2> SUFFICES ASSUME p <= at PROVE FALSE BY <2>0
  <2>1. at \in Int /\ p \in Int /\ p < at BY <1>3, <2>0
  <2>2. Above(at) \subseteq Above(p)
    <3> SUFFICES ASSUME NEW b \in Above(at) PROVE b \in Above(p) OBVIOUS
    <3>1. b \in Int /\ b > at /\ b \in S OBVIOUS
    <3> QED BY <2>1, <3>1
  <2>3. Cardinality(Above(at)) <= Cardinality(Above(p)) BY <1>0, <2>2, FS_Subset
  <2>4. Cardinality(Above(p)) < n /\ ~(Cardinality(Above(at)) < n) BY <1>1, <1>3
  <2> QED BY <1>0, <2>3, <2>4
<1>4. Cardinality(P) <= n
  <2>1. CASE P = {} BY <2>1, FS_EmptySet
  <2>2. CASE P # {}
    <3>1. P \subseteq Int BY <1>2
    <3>2. PICK o \in P : \A m \in P : o <= m BY <1>2, <2>2, <3>1, HasLeast
    <3>3. P \ {o} \subseteq Above(o)
      <4> SUFFICES ASSUME NEW m \in P \ {o} PROVE m \in Above(o) OBVIOUS
      <4>1. m \in Int /\ o \in Int /\ o <= m /\ m # o /\ m \in S BY <1>2, <3>1, <3>2
      <4> QED BY <4>1
    <3>4. Cardinality(P \ {o}) = Cardinality(P) - 1 BY <1>2, FS_RemoveElement
    <3>5. Cardinality(P \ {o}) <= Cardinality(Above(o)) BY <1>0, <3>3, FS_Subset
    <3>6. Cardinality(Above(o)) < n BY <1>1
    <3> QED BY <1>0, <1>2, <3>4, <3>5, <3>6
  <2> QED BY <2>1, <2>2
<1>5. ASSUME S # P PROVE Cardinality(P) = n
  <2>1. S \ P # {} /\ S \ P \subseteq Int /\ IsFiniteSet(S \ P) BY <1>2, <1>5, FS_Subset
  <2>2. PICK m \in S \ P : \A k \in S \ P : k <= m BY <2>1, HasGreatest
  <2>3. Above(m) \subseteq P
    <3> SUFFICES ASSUME NEW b \in Above(m) PROVE b \in P OBVIOUS
    <3>1. b \in Int /\ m \in Int /\ b > m /\ b \in S BY <2>1
    <3> QED BY <2>2, <3>1
  <2>4. Cardinality(Above(m)) <= Cardinality(P) BY <1>2, <2>3, FS_Subset
  <2>5. ~(Cardinality(Above(m)) < n) BY <1>1, <2>2
  <2> QED BY <1>0, <1>2, <1>4, <2>4, <2>5
<1> QED BY <1>2, <1>3, <1>4, <1>5 DEF P

-----------------------------------------------------------------------------
(* A page, its cursor, and what is read of it.                                *)

LEMMA OldestFacts ==
  ASSUME NEW P, P \subseteq Int, IsFiniteSet(P), P # {}
  PROVE  Oldest(P) \in P /\ \A m \in P : Oldest(P) <= m
BY HasLeast DEF Oldest

\* A row is on the page, was passed before it, or lies below a page that is not the last.
Passed(at, cursor, page) ==
  \/ at \in page
  \/ cursor # Never /\ at >= cursor
  \/ next_cursor(page) # Never /\ \A p \in page : at < p

LEMMA PageFacts ==
  ASSUME NEW S, S \subseteq Int, IsFiniteSet(S), NEW cursor \in Int \cup {Never},
         NEW page, page = FirstOf(S, cursor)
  PROVE  /\ page \subseteq S /\ IsFiniteSet(page) /\ Cardinality(page) \in Nat
         /\ cursor # Never => \A p \in page : p < cursor
         /\ \A at \in S : Passed(at, cursor, page)
         /\ next_cursor(page) # Never =>
              next_cursor(page) \in page /\ \A p \in page : next_cursor(page) <= p
<1> DEFINE T == Older(S, cursor)
<1>1. T \subseteq S /\ T \subseteq Int /\ IsFiniteSet(T) BY FS_Subset DEF Older
<1>2. PAGE \in Nat \ {0} /\ Never \notin Int BY DeskAssumption
<1>3. page = Newest(T, PAGE) BY DEF FirstOf
<1>4. \A at \in S : at \in T \/ (cursor # Never /\ at >= cursor) BY DEF Older
<1>5. cursor # Never => \A p \in T : p < cursor BY DEF Older
<1> HIDE DEF T
<1>6. /\ page \subseteq T /\ IsFiniteSet(page) /\ Cardinality(page) \in Nat
      /\ \A at \in T \ page : \A p \in page : at < p
      /\ T # page => Cardinality(page) = PAGE
  <2> DEFINE n == PAGE
  <2>1. n \in Nat \ {0} BY <1>2
  <2> HIDE DEF n
  <2>2. /\ Newest(T, n) \subseteq T /\ IsFiniteSet(Newest(T, n)) /\ Cardinality(Newest(T, n)) \in Nat
        /\ \A at \in T \ Newest(T, n) : \A p \in Newest(T, n) : at < p
        /\ T # Newest(T, n) => Cardinality(Newest(T, n)) = n
    BY <1>1, <2>1, NewestFacts
  <2> QED BY <1>3, <2>2 DEF n
<1>7. ASSUME Cardinality(page) = PAGE
      PROVE  /\ next_cursor(page) = Oldest(page) /\ Oldest(page) \in page
             /\ \A p \in page : Oldest(page) <= p /\ Oldest(page) # Never
  <2>1. page # {} BY <1>2, <1>7, FS_EmptySet
  <2>2. page \subseteq Int BY <1>1, <1>6
  <2>3. Oldest(page) \in page /\ \A m \in page : Oldest(page) <= m BY <1>6, <2>1, <2>2, OldestFacts
  <2>4. next_cursor(page) = Oldest(page) BY <1>7 DEF next_cursor
  <2> QED BY <1>2, <2>2, <2>3, <2>4
<1>8. Cardinality(page) # PAGE => next_cursor(page) = Never BY DEF next_cursor
<1>9. \A at \in S : \/ at \in page
                    \/ cursor # Never /\ at >= cursor
                    \/ next_cursor(page) # Never /\ \A p \in page : at < p
  <2> SUFFICES ASSUME NEW at \in S, at \notin page, ~(cursor # Never /\ at >= cursor)
               PROVE  next_cursor(page) # Never /\ \A p \in page : at < p
    OBVIOUS
  <2>1. at \in T \ page BY <1>4
  <2>2. Cardinality(page) = PAGE BY <1>6, <2>1
  <2>3. next_cursor(page) \in page BY <1>7, <2>2
  <2>4. next_cursor(page) \in Int BY <1>1, <1>6, <2>3
  <2> QED BY <1>2, <1>6, <2>1, <2>4
<1> QED BY <1>1, <1>5, <1>6, <1>7, <1>8, <1>9 DEF Passed

-----------------------------------------------------------------------------
(* The invariant of a walk.                                                   *)

CaseKeys == {"state", "created", "updated_at", "facts", "last", "resume_state"}
WalkKeys ==
  {"kind", "since", "until", "cursor", "found", "rows", "scanned", "truncated", "over"}
Instants == Int \cup {Never}
InWindow(w, at) == (w.since # Never => at >= w.since) /\ Inside(w, at)

HeldOK ==
  /\ DOMAIN held = Cases
  /\ \A c \in Cases : DOMAIN held[c] = CaseKeys /\ held[c].created = Facts[c].created
  /\ denials \subseteq Int /\ IsFiniteSet(denials)
  /\ moment \in Int

WalkOK ==
  /\ DOMAIN walk = WalkKeys
  /\ walk.kind \in {"worklist", "outcomes", "refused"}
  /\ walk.since \in Instants /\ walk.until \in Instants /\ walk.cursor \in Instants
  /\ walk.scanned \in Nat
  /\ Found \subseteq Int /\ IsFiniteSet(Found) /\ Cardinality(Found) = walk.rows
  /\ \A at \in Found : InWindow(walk, at)
  /\ walk.kind = "worklist" => \A i \in walk.found : i.row.bucket \in BUCKETS

\* What was in the range all along is still there, and what lies at the cursor
\* or above it has been read.
ThereOK ==
  /\ there \subseteq Rows(walk.kind, held, denials)
  /\ \A at \in there : InWindow(walk, at)
  /\ walk.cursor # Never => \A at \in there : at >= walk.cursor => at \in Found

CursorOK ==
  /\ walk.scanned < SCAN_LIMIT
  /\ walk.cursor = Never => Found = {} /\ walk.scanned = 0
  /\ walk.cursor # Never => \A at \in Found : walk.cursor <= at
  /\ (walk.kind = "refused" /\ walk.cursor # Never) =>
       walk.scanned <= Cardinality({at \in denials : at >= walk.cursor})

DeskInv ==
  /\ HeldOK
  /\ walk # NoWalk => WalkOK /\ (~walk.over => ThereOK /\ CursorOK)
  /\ NobodyForgotten

LEMMA RowsAreInstants ==
  ASSUME HeldOK, NEW kind
  PROVE  Rows(kind, held, denials) \subseteq Int /\ IsFiniteSet(Rows(kind, held, denials))
<1>1. ASSUME NEW states PROVE In(states, held) \subseteq Int /\ IsFiniteSet(In(states, held))
  <2> DEFINE C == {d \in Cases : held[d].state \in states}
             f == [c \in C |-> held[c].created]
  <2>1. IsFiniteSet(C) BY DeskAssumption, FS_Subset
  <2>2. f \in Surjection(C, In(states, held)) BY DEF In, Surjection
  <2>3. \A c \in C : held[c].created \in Int BY DeskAssumption DEF HeldOK
  <2> QED BY <2>1, <2>2, <2>3, FS_Surjection DEF In
<1> QED BY <1>1 DEF Rows, HeldOK

\* A row of the Today screen is of a case that waits, and has a place on it.
LEMMA WaitingHasPlace ==
  ASSUME HeldOK, NEW at \in Rows("worklist", held, denials)
  PROVE  Item("worklist", at).row.bucket \in BUCKETS
<1>1. PICK d \in Cases : held[d].state \in WORK_STATES /\ held[d].created = at BY DEF Rows, In
<1>2. CaseAt(at) = d
  <2>1. \A c \in Cases : held[c].created = at => c = d BY <1>1, DeskAssumption DEF HeldOK
  <2> QED BY <1>1, <2>1 DEF CaseAt
<1>3. bucket_for(held[d]) \in BUCKETS BY <1>1 DEF bucket_for, WORK_STATES, BUCKETS
<1>4. work_item(d, held[d]).bucket = bucket_for(held[d]) BY DEF work_item
<1>5. Item("worklist", at).row = work_item(CaseAt(at), held[CaseAt(at)]) BY DEF Item
<1> QED BY <1>2, <1>3, <1>4, <1>5

LEMMA DeskBegins == DeskInit => DeskInv
<1> SUFFICES ASSUME DeskInit PROVE DeskInv OBVIOUS
<1>1. HeldOK BY FS_EmptySet DEF DeskInit, HeldOK, CaseKeys
<1>2. walk = NoWalk /\ ~walk.over BY DEF DeskInit, NoWalk
<1> QED BY <1>1, <1>2 DEF DeskInv, NobodyForgotten

LEMMA WalkBegins ==
  ASSUME DeskInv, NEW kind \in {"worklist", "outcomes", "refused"}, NEW w \in Windows,
         Open(kind, w[1], w[2])
  PROVE  DeskInv'
<1> DEFINE since == w[1]
           until == w[2]
<1>1. walk' = [kind |-> kind, since |-> since, until |-> until, cursor |-> Never,
               found |-> {}, rows |-> 0, scanned |-> 0, truncated |-> FALSE, over |-> FALSE]
  BY DEF Open
<1>2. since \in Instants /\ until \in Instants BY DeskAssumption DEF Instants
<1>3. /\ there' = {at \in Rows(kind, held, denials) :
                 (since # Never => at >= since) /\ (until # Never => at < until)}
      /\ UNCHANGED <<held, denials, moment>>
  BY DEF Open
<1> HIDE DEF since, until
<1>4. /\ DOMAIN walk' = WalkKeys /\ walk'.kind = kind /\ walk'.since = since
      /\ walk'.until = until /\ walk'.cursor = Never /\ walk'.found = {} /\ walk'.rows = 0
      /\ walk'.scanned = 0 /\ walk'.over = FALSE
  BY <1>1 DEF WalkKeys
<1>5. Found' = {} BY <1>4 DEF Found
<1>6. WalkOK' BY <1>2, <1>4, <1>5, FS_EmptySet DEF WalkOK, Instants
<1>7. ThereOK'
  <2>1. \A at \in there' : InWindow(walk, at)' BY <1>3, <1>4 DEF InWindow, Inside
  <2> QED BY <1>3, <1>4, <2>1 DEF ThereOK, Rows, In
<1>8. CursorOK' BY <1>4, <1>5, DeskAssumption DEF CursorOK
<1>9. HeldOK' BY <1>3 DEF DeskInv, HeldOK
<1> QED BY <1>4, <1>6, <1>7, <1>8, <1>9 DEF DeskInv, NobodyForgotten

LEMMA PutKeeps ==
  ASSUME DeskInv, NEW c \in Cases, NEW put, DOMAIN put = CaseKeys,
         put.created = Facts[c].created, Put(c, put),
         denials' \in {denials, denials \cup {moment}}
  PROVE  DeskInv'
<1>0. HeldOK /\ ~walk.over /\ UNCHANGED walk BY DEF DeskInv, Put
<1>1. HeldOK'
  <2>1. held' = [held EXCEPT ![c] = [put EXCEPT !.updated_at = moment]] /\ moment' = moment + 1
    BY DEF Put
  <2>2. DOMAIN held' = Cases BY <1>0, <2>1 DEF HeldOK
  <2>3. ASSUME NEW d \in Cases
        PROVE DOMAIN held'[d] = CaseKeys /\ held'[d].created = Facts[d].created
    <3>1. held'[d] = IF d = c THEN [put EXCEPT !.updated_at = moment] ELSE held[d]
      BY <1>0, <2>1 DEF HeldOK
    <3>2. /\ DOMAIN [put EXCEPT !.updated_at = moment] = CaseKeys
          /\ [put EXCEPT !.updated_at = moment].created = Facts[c].created
      BY DEF CaseKeys
    <3> QED BY <1>0, <3>1, <3>2 DEF HeldOK
  <2>4. denials' \subseteq Int /\ IsFiniteSet(denials')
    BY <1>0, FS_AddElement DEF HeldOK
  <2> QED BY <1>0, <2>1, <2>2, <2>3, <2>4 DEF HeldOK
<1>2. ASSUME walk # NoWalk PROVE WalkOK' /\ ThereOK' /\ CursorOK'
  <2>0. WalkOK /\ ThereOK /\ CursorOK BY <1>0, <1>2 DEF DeskInv
  <2>1. Found' = Found BY <1>0 DEF Found
  <2>2. WalkOK' BY <1>0, <2>0, <2>1 DEF WalkOK, InWindow, Inside
  <2>3. there' = there \cap Rows(walk.kind, held', denials') BY <1>2 DEF Put
  <2>4. ThereOK' BY <1>0, <2>0, <2>1, <2>3 DEF ThereOK, InWindow, Inside, Rows, In
  <2>5. CursorOK'
    <3> DEFINE A == {at \in denials : at >= walk.cursor}
               B == {at \in denials' : at >= walk.cursor}
    <3>1. A \subseteq B /\ B \subseteq denials' /\ IsFiniteSet(B) /\ IsFiniteSet(A)
      BY <1>0, <1>1, FS_Subset DEF HeldOK
    <3> HIDE DEF A, B
    <3>2. Cardinality(A) <= Cardinality(B) /\ Cardinality(A) \in Nat /\ Cardinality(B) \in Nat
      BY <3>1, FS_Subset, FS_CardinalityType
    <3>3. walk.scanned \in Nat BY <2>0 DEF WalkOK
    <3>4. (walk.kind = "refused" /\ walk.cursor # Never) => walk.scanned <= Cardinality(A)
      BY <2>0 DEF CursorOK, A
    <3>5. (walk.kind = "refused" /\ walk.cursor # Never) => walk.scanned <= Cardinality(B)
      BY <3>2, <3>3, <3>4
    <3> QED BY <1>0, <2>0, <2>1, <3>5 DEF CursorOK, B
  <2> QED BY <2>2, <2>4, <2>5
<1> QED BY <1>0, <1>1, <1>2 DEF DeskInv, NobodyForgotten

\* What one page adds to a walk.
LEMMA ReadPageKeeps ==
  ASSUME DeskInv, ReadPage
  PROVE  DeskInv'
<1> DEFINE kind == walk.kind
           S == Rows(kind, held, denials)
           page == query(kind, walk.cursor)
           cursor == next_cursor(page)
           inside == {at \in page : walk.since # Never => at >= walk.since}
           room == SCAN_LIMIT - walk.scanned
           full == Cardinality(IF kind = "refused" THEN page ELSE inside) >= room
           taken == IF kind = "refused" THEN inside ELSE Newest(inside, room)
           kept == {at \in taken : Inside(walk, at)}
           counted == IF kind = "refused" THEN page ELSE taken
           over == full \/ inside # page \/ cursor = Never
           truncated == /\ kind # "refused" /\ full
                        /\ cursor # Never \/ room < Cardinality(page)
<1>1. /\ walk # NoWalk /\ ~walk.over /\ UNCHANGED <<held, denials, moment, there>>
      /\ walk' = [walk EXCEPT
           !.cursor = cursor, !.found = @ \cup {Item(kind, at) : at \in kept},
           !.rows = @ + Cardinality(kept), !.scanned = @ + Cardinality(counted),
           !.over = over, !.truncated = truncated]
  BY DEF ReadPage
<1>2. HeldOK /\ WalkOK /\ ThereOK /\ CursorOK BY <1>1 DEF DeskInv
<1>3. Never \notin Int /\ SCAN_LIMIT \in Nat \ {0} BY DeskAssumption
<1>4. S \subseteq Int /\ IsFiniteSet(S) BY <1>2, RowsAreInstants
<1>5. page = FirstOf(S, walk.cursor) BY DEF query
<1>6. kind \in {"worklist", "outcomes", "refused"} /\ walk.cursor \in Instants /\ walk.scanned \in Nat
  BY <1>2 DEF WalkOK
<1> HIDE DEF page
<1>7. /\ page \subseteq S /\ IsFiniteSet(page) /\ Cardinality(page) \in Nat
      /\ walk.cursor # Never => \A p \in page : p < walk.cursor
      /\ \A at \in S : \/ at \in page
                       \/ walk.cursor # Never /\ at >= walk.cursor
                       \/ cursor # Never /\ \A p \in page : at < p
      /\ cursor # Never => cursor \in page /\ \A p \in page : cursor <= p
  <2> DEFINE old == walk.cursor
  <2>1. old \in Int \cup {Never} /\ page = FirstOf(S, old) BY <1>5, <1>6 DEF Instants
  <2> HIDE DEF S, old
  <2>2. /\ page \subseteq S /\ IsFiniteSet(page) /\ Cardinality(page) \in Nat
        /\ old # Never => \A p \in page : p < old
        /\ \A at \in S : \/ at \in page
                         \/ old # Never /\ at >= old
                         \/ next_cursor(page) # Never /\ \A p \in page : at < p
        /\ next_cursor(page) # Never =>
             next_cursor(page) \in page /\ \A p \in page : next_cursor(page) <= p
    <3>1. /\ page \subseteq S /\ IsFiniteSet(page) /\ Cardinality(page) \in Nat
          /\ old # Never => \A p \in page : p < old
          /\ \A at \in S : Passed(at, old, page)
          /\ next_cursor(page) # Never =>
               next_cursor(page) \in page /\ \A p \in page : next_cursor(page) <= p
      BY <1>4, <2>1, PageFacts
    <3> QED BY <3>1 DEF Passed
  <2> QED BY <2>2 DEF old
<1>8. room \in Nat \ {0} BY <1>2, <1>3, <1>6 DEF CursorOK
<1>9. inside \subseteq page /\ IsFiniteSet(inside) /\ Cardinality(inside) \in Nat
  BY <1>7, FS_Subset, FS_CardinalityType
<1>10. /\ taken \subseteq inside /\ IsFiniteSet(taken) /\ Cardinality(taken) \in Nat
       /\ taken # inside => kind # "refused" /\ full /\ room < Cardinality(page)
  <2>1. CASE kind = "refused" BY <1>9, <2>1
  <2>2. CASE kind # "refused"
    <3>1. taken = Newest(inside, room) BY <2>2
    <3>2. inside \subseteq Int BY <1>4, <1>7
    <3> HIDE DEF inside, room, taken
    <3>3. /\ taken \subseteq inside /\ IsFiniteSet(taken) /\ Cardinality(taken) \in Nat
          /\ inside # taken => Cardinality(taken) = room
      BY <1>8, <1>9, <3>1, <3>2, NewestFacts
    <3>4. ASSUME taken # inside PROVE full /\ room < Cardinality(page)
      <4>1. Cardinality(taken) <= Cardinality(inside) /\ Cardinality(taken) # Cardinality(inside)
        BY <1>9, <3>3, <3>4, FS_Subset
      <4>2. Cardinality(inside) <= Cardinality(page) BY <1>7, <1>9, FS_Subset
      <4>3. room < Cardinality(inside) BY <1>8, <1>9, <3>3, <3>4, <4>1
      <4> QED BY <1>7, <1>8, <1>9, <2>2, <4>2, <4>3
    <3> QED BY <2>2, <3>3, <3>4
  <2> QED BY <2>1, <2>2
<1>11. /\ kept \subseteq taken /\ IsFiniteSet(kept) /\ Cardinality(kept) \in Nat
       /\ kept \subseteq page /\ \A at \in kept : InWindow(walk, at)
  <2>1. kept \subseteq taken OBVIOUS
  <2>2. IsFiniteSet(kept) /\ Cardinality(kept) \in Nat
    <3> HIDE DEF taken
    <3> QED BY <1>10, FS_Subset, FS_CardinalityType
  <2>3. \A at \in kept : at \in inside /\ Inside(walk, at) BY <1>10
  <2>4. \A at \in kept : InWindow(walk, at) BY <2>3 DEF InWindow
  <2> HIDE DEF kept
  <2> QED BY <1>9, <2>1, <2>2, <2>3, <2>4
<1>12. IsFiniteSet(counted) /\ Cardinality(counted) \in Nat BY <1>7, <1>10
<1>13. /\ DOMAIN walk' = WalkKeys /\ walk'.kind = kind /\ walk'.since = walk.since
       /\ walk'.until = walk.until /\ walk'.cursor = cursor
       /\ walk'.found = walk.found \cup {Item(kind, at) : at \in kept}
       /\ walk'.rows = walk.rows + Cardinality(kept)
       /\ walk'.scanned = walk.scanned + Cardinality(counted)
       /\ walk'.over = over /\ walk'.truncated = truncated
  <2> HIDE DEF cursor, kept, counted, over, truncated
  <2> QED BY <1>1, <1>2 DEF WalkOK, WalkKeys
<1>14. Found' = Found \cup kept
  <2>1. \A at : Item(kind, at).at = at BY DEF Item
  <2> HIDE DEF kept
  <2> QED BY <1>13, <2>1 DEF Found
<1>15. \A at : InWindow(walk, at)' <=> InWindow(walk, at) BY <1>13 DEF InWindow, Inside
\* The page lies wholly below what was read before.
<1>16. Found \cap kept = {}
  <2>1. \A p \in kept : walk.cursor = Never \/ p < walk.cursor BY <1>7, <1>11
  <2>2. \A at \in Found : walk.cursor # Never /\ walk.cursor <= at BY <1>2 DEF CursorOK
  <2>3. kept \subseteq Int /\ Found \subseteq Int /\ (walk.cursor # Never => walk.cursor \in Int)
    BY <1>2, <1>4, <1>6, <1>7, <1>11 DEF WalkOK, Instants
  <2> HIDE DEF kept
  <2> QED BY <2>1, <2>2, <2>3
<1> HIDE DEF kept
<1>17. WalkOK'
  <2>1. Cardinality(Found') = walk'.rows /\ IsFiniteSet(Found')
    <3>1. IsFiniteSet(Found) /\ Cardinality(Found) = walk.rows BY <1>2 DEF WalkOK
    <3>2. Cardinality(Found \cup kept) = Cardinality(Found) + Cardinality(kept) - Cardinality(Found \cap kept)
      BY <1>11, <3>1, FS_Union
    <3>3. Cardinality(Found \cap kept) = 0 BY <1>16, FS_EmptySet
    <3>4. Cardinality(Found) \in Nat BY <3>1, FS_CardinalityType
    <3>5. Cardinality(Found') = walk'.rows BY <1>11, <1>13, <1>14, <3>1, <3>2, <3>3, <3>4
    <3>6. IsFiniteSet(Found') BY <1>11, <1>14, <3>1, FS_Union
    <3> QED BY <3>5, <3>6
  <2>2. Found' \subseteq Int BY <1>2, <1>4, <1>7, <1>11, <1>14 DEF WalkOK
  <2>3. \A at \in Found' : InWindow(walk, at)' BY <1>2, <1>11, <1>14, <1>15 DEF WalkOK
  <2>4. kind = "worklist" => \A i \in walk'.found : i.row.bucket \in BUCKETS
    <3> SUFFICES ASSUME kind = "worklist", NEW i \in walk'.found PROVE i.row.bucket \in BUCKETS
      OBVIOUS
    <3>1. CASE i \in walk.found BY <1>2, <3>1 DEF WalkOK
    <3>2. ASSUME NEW at \in kept, i = Item("worklist", at) PROVE i.row.bucket \in BUCKETS
      BY <1>2, <1>7, <1>11, <3>2, WaitingHasPlace
    <3> QED BY <1>13, <3>1, <3>2
  <2>5. walk'.cursor \in Instants
    <3> HIDE DEF cursor
    <3> QED BY <1>4, <1>7, <1>13 DEF Instants
  <2>6. walk'.scanned \in Nat BY <1>6, <1>12, <1>13
  <2>7. walk'.kind \in {"worklist", "outcomes", "refused"} /\ walk'.since \in Instants /\ walk'.until \in Instants
    BY <1>2, <1>13 DEF WalkOK
  <2>8. DOMAIN walk' = WalkKeys BY <1>13
  <2>9. walk'.kind = "worklist" => \A i \in walk'.found : i.row.bucket \in BUCKETS BY <1>13, <2>4
  <2> QED BY <2>1, <2>2, <2>3, <2>5, <2>6, <2>7, <2>8, <2>9 DEF WalkOK
<1>18. HeldOK' BY <1>1, <1>2 DEF HeldOK
\* What was in the range all along is read, or lies below a page that is not the last.
<1>19. \A at \in there : at \in Found \/ at \in inside \/ (cursor # Never /\ \A p \in page : at < p)
  <2> SUFFICES ASSUME NEW at \in there
               PROVE  at \in Found \/ at \in inside \/ (cursor # Never /\ \A p \in page : at < p)
    OBVIOUS
  <2>1. at \in S /\ InWindow(walk, at) BY <1>2 DEF ThereOK
  <2>2. walk.cursor # Never /\ at >= walk.cursor => at \in Found BY <1>2 DEF ThereOK
  <2>3. at \in page => at \in inside BY <2>1 DEF InWindow
  <2> HIDE DEF S, cursor, inside
  <2> QED BY <1>7, <2>1, <2>2, <2>3
<1>20. \A at \in there : at \in taken => at \in kept BY <1>2 DEF ThereOK, InWindow, kept
\* The refusals read so far, this page included.
<1>21. ASSUME kind = "refused", cursor # Never
       PROVE  /\ walk'.scanned <= Cardinality({at \in denials : at >= cursor})
              /\ Cardinality({at \in denials : at >= cursor}) \in Nat
  <2> DEFINE A == {at \in denials : walk.cursor # Never /\ at >= walk.cursor}
             B == {at \in denials : at >= cursor}
  <2>1. S = denials BY <1>21 DEF Rows
  <2>2. IsFiniteSet(A) /\ IsFiniteSet(B) /\ Cardinality(A) \in Nat /\ Cardinality(B) \in Nat
    BY <1>2, FS_Subset, FS_CardinalityType DEF HeldOK
  <2>3. walk.scanned <= Cardinality(A)
    <3>1. CASE walk.cursor = Never BY <1>2, <2>2, <3>1 DEF CursorOK
    <3>2. CASE walk.cursor # Never
      <4>1. A = {at \in denials : at >= walk.cursor} BY <3>2
      <4> HIDE DEF A
      <4> QED BY <1>2, <1>21, <3>2, <4>1 DEF CursorOK
    <3> QED BY <3>1, <3>2
  <2>4. A \cap page = {}
    <3>1. \A p \in page : walk.cursor # Never => p < walk.cursor /\ p \in Int /\ walk.cursor \in Int
      BY <1>4, <1>6, <1>7 DEF Instants
    <3> QED BY <3>1
  <2>5. A \cup page \subseteq B
    <3>1. cursor \in page /\ \A p \in page : cursor <= p BY <1>7, <1>21
    <3>2. page \subseteq denials /\ denials \subseteq Int BY <1>2, <1>7, <2>1 DEF HeldOK
    <3>3. cursor \in Int BY <3>1, <3>2
    <3> HIDE DEF cursor
    <3>4. page \subseteq B BY <3>1, <3>2, <3>3
    <3>5. ASSUME NEW at \in A PROVE at \in B
      <4>1. walk.cursor \in Int /\ at >= walk.cursor /\ at \in Int /\ at \in denials
        BY <1>6, <3>2 DEF Instants
      <4>2. cursor < walk.cursor BY <1>7, <3>1
      <4>3. at >= cursor BY <3>3, <4>1, <4>2
      <4> QED BY <4>1, <4>3
    <3> QED BY <3>4, <3>5
  <2> HIDE DEF A, B
  <2>6. Cardinality(A \cup page) = Cardinality(A) + Cardinality(page)
    <3>1. Cardinality(A \cup page) = Cardinality(A) + Cardinality(page) - Cardinality(A \cap page)
      BY <1>7, <2>2, FS_Union
    <3>2. Cardinality(A \cap page) = 0 BY <2>4, FS_EmptySet
    <3> QED BY <1>7, <2>2, <3>1, <3>2
  <2>7. Cardinality(A \cup page) <= Cardinality(B) BY <2>2, <2>5, FS_Subset
  <2>8. walk'.scanned = walk.scanned + Cardinality(page) BY <1>13, <1>21
  <2>9. walk'.scanned <= Cardinality(B) BY <1>6, <1>7, <2>2, <2>3, <2>6, <2>7, <2>8
  <2> QED BY <2>2, <2>9 DEF B
<1>22. ASSUME ~over PROVE ThereOK' /\ CursorOK'
  <2>1. ~full /\ inside = page /\ cursor # Never BY <1>22
  <2>2. taken = inside BY <1>10, <2>1
  <2>3. cursor \in page /\ \A p \in page : cursor <= p BY <1>7, <2>1
  <2>4. cursor \in Int BY <1>4, <1>7, <2>3
  <2>5. Rows(walk.kind, held, denials)' = S BY <1>1, <1>13 DEF Rows, In
  <2>6. there' = there BY <1>1
  <2>7. \A at \in there : at >= cursor => at \in Found'
    <3> SUFFICES ASSUME NEW at \in there, at >= cursor PROVE at \in Found' OBVIOUS
    <3>1. at \in Int BY <1>2, <1>4 DEF ThereOK
    <3>2. ~(at < cursor) BY <2>4, <3>1
    <3>3. ~(\A p \in page : at < p) BY <2>3, <3>2
    <3>4. at \in Found \/ at \in inside BY <1>19, <3>3
    <3> QED BY <1>14, <1>20, <2>2, <3>4
  <2>8. ThereOK' BY <1>2, <1>13, <1>15, <2>5, <2>6, <2>7 DEF ThereOK
  <2>9. \A at \in Found' : cursor <= at
    <3> SUFFICES ASSUME NEW at \in Found' PROVE cursor <= at OBVIOUS
    <3>1. CASE at \in kept BY <1>11, <2>3, <3>1
    <3>2. CASE at \in Found
      <4>1. walk.cursor # Never /\ walk.cursor <= at BY <1>2, <3>2 DEF CursorOK
      <4>2. cursor < walk.cursor BY <1>7, <2>3, <4>1
      <4>3. at \in Int /\ walk.cursor \in Int BY <1>2, <1>6, <3>2, <4>1 DEF WalkOK, Instants
      <4> QED BY <2>4, <4>1, <4>2, <4>3
    <3> QED BY <1>14, <3>1, <3>2
  <2>10. walk'.scanned < SCAN_LIMIT
    <3>1. counted = IF kind = "refused" THEN page ELSE inside BY <2>2
    <3>2. ~(Cardinality(counted) >= room) BY <2>1, <3>1
    <3> QED BY <1>3, <1>6, <1>12, <1>13, <3>2
  <2>11. (walk'.kind = "refused" /\ walk'.cursor # Never) =>
           walk'.scanned <= Cardinality({at \in denials' : at >= walk'.cursor})
    BY <1>1, <1>13, <1>21
  <2>12. CursorOK'
    <3>1. walk'.cursor = cursor BY <1>13
    <3> HIDE DEF cursor
    <3> QED BY <2>1, <2>9, <2>10, <2>11, <3>1 DEF CursorOK
  <2> QED BY <2>8, <2>12
<1>23. ASSUME over, ~truncated, kind # "refused" \/ Cardinality(denials) <= SCAN_LIMIT,
              NEW at \in there
       PROVE  at \in Found'
  <2>1. CASE at \in Found BY <1>14, <2>1
  <2>2. CASE at \in inside
    <3>1. taken = inside BY <1>10, <1>23
    <3> QED BY <1>14, <1>20, <2>2, <3>1
  <2>3. CASE cursor # Never /\ \A p \in page : at < p
    <3>0. InWindow(walk, at) /\ at \in S /\ at \in Int BY <1>2, <1>4 DEF ThereOK
    <3>1. inside = page
      <4> SUFFICES ASSUME NEW b \in page PROVE b \in inside BY <1>9
      <4>1. b \in Int /\ at < b /\ at \in Int BY <1>4, <1>7, <2>3, <3>0
      <4>2. walk.since # Never => at >= walk.since /\ walk.since \in Int
        BY <1>2, <3>0 DEF InWindow, WalkOK, Instants
      <4> QED BY <4>1, <4>2
    <3>2. full BY <1>23, <2>3, <3>1
    <3>3. kind = "refused" /\ Cardinality(denials) <= SCAN_LIMIT BY <1>23, <2>3, <3>2
    <3> DEFINE B == {b \in denials : b >= cursor}
    <3>4. walk'.scanned <= Cardinality(B) /\ Cardinality(B) \in Nat BY <1>21, <2>3, <3>3
    <3>5. walk'.scanned = walk.scanned + Cardinality(page) BY <1>13, <3>3
    <3>6. Cardinality(page) >= SCAN_LIMIT - walk.scanned BY <3>2, <3>3
    <3>7. Cardinality(B) >= SCAN_LIMIT BY <1>3, <1>6, <1>7, <3>4, <3>5, <3>6
    <3>8. at \in denials /\ B \subseteq denials /\ IsFiniteSet(denials)
      BY <1>2, <3>0, <3>3 DEF Rows, HeldOK
    <3>9. at \notin B
      <4>1. at < cursor /\ cursor \in Int BY <1>4, <1>7, <2>3
      <4> HIDE DEF cursor
      <4> QED BY <3>0, <4>1
    <3> HIDE DEF B
    <3>10. Cardinality(B) <= Cardinality(denials) /\ Cardinality(B) # Cardinality(denials)
      BY <3>8, <3>9, FS_Subset
    <3>11. Cardinality(denials) \in Nat BY <3>8, FS_CardinalityType
    <3> QED BY <1>3, <3>3, <3>4, <3>7, <3>10, <3>11
  <2> QED BY <1>19, <2>1, <2>2, <2>3
<1>24. NobodyForgotten'
  <2> SUFFICES ASSUME over, ~truncated
      PROVE /\ (walk'.kind # "refused" \/ Cardinality(denials') <= SCAN_LIMIT) => there' \subseteq Found'
            /\ Cardinality(Found') = walk'.rows
            /\ \A at \in Found' : InWindow(walk, at)'
            /\ walk'.kind = "worklist" => \A i \in walk'.found : i.row.bucket \in BUCKETS
    <3> HIDE DEF over, truncated
    <3> QED BY <1>13 DEF NobodyForgotten, InWindow
  <2>1. (walk'.kind # "refused" \/ Cardinality(denials') <= SCAN_LIMIT) => there' \subseteq Found'
    <3> HIDE DEF over, truncated
    <3> QED BY <1>1, <1>13, <1>23
  <2> QED BY <1>17, <2>1 DEF WalkOK
<1> QED
  <2>1. walk'.over = over BY <1>13
  <2> HIDE DEF over
  <2> QED BY <1>17, <1>18, <1>22, <1>24, <2>1 DEF DeskInv

-----------------------------------------------------------------------------
LEMMA DeskStep == DeskInv /\ [DeskNext]_deskVars => DeskInv'
<1> SUFFICES ASSUME DeskInv, [DeskNext]_deskVars PROVE DeskInv' OBVIOUS
<1>0. \A c \in Cases : DOMAIN held[c] = CaseKeys /\ held[c].created = Facts[c].created
  BY DEF DeskInv, HeldOK
<1>1. ASSUME NEW kind \in {"worklist", "outcomes", "refused"}, NEW w \in Windows, Open(kind, w[1], w[2])
      PROVE DeskInv'
  BY <1>1, WalkBegins
<1>2. CASE ReadPage BY <1>2, ReadPageKeeps
<1>3. ASSUME NEW c \in Cases, NEW s, Settle(c, s) PROVE DeskInv'
  <2> DEFINE put == [held[c] EXCEPT !.state = s]
  <2>1. DOMAIN put = CaseKeys /\ put.created = Facts[c].created BY <1>0 DEF CaseKeys
  <2>2. Put(c, put) /\ denials' \in {denials, denials \cup {moment}} BY <1>3 DEF Settle
  <2> HIDE DEF put
  <2> QED BY <2>1, <2>2, PutKeeps
<1>4. ASSUME NEW c \in Cases, NEW a \in DOMAIN HUMAN_ACTIONS, human_decide(c, a) PROVE DeskInv'
  <2> DEFINE put == [held[c] EXCEPT !.state = HUMAN_ACTIONS[a], !.last = Review(a, HUMAN_ACTIONS[a])]
  <2>1. DOMAIN put = CaseKeys /\ put.created = Facts[c].created BY <1>0 DEF CaseKeys
  <2>2. Put(c, put) /\ denials' \in {denials, denials \cup {moment}} BY <1>4 DEF human_decide
  <2> HIDE DEF put
  <2> QED BY <2>1, <2>2, PutKeeps
<1>5. ASSUME NEW c \in Cases, create_request(c) PROVE DeskInv'
  <2> DEFINE put == [held[c] EXCEPT !.state = "AWAITING_EVIDENCE", !.resume_state = held[c].state,
                            !.last = Review("request_info", "AWAITING_EVIDENCE")]
  <2>1. DOMAIN put = CaseKeys /\ put.created = Facts[c].created BY <1>0 DEF CaseKeys
  <2>2. Put(c, put) /\ denials' \in {denials, denials \cup {moment}} BY <1>5 DEF create_request
  <2> HIDE DEF put
  <2> QED BY <2>1, <2>2, PutKeeps
<1>6. ASSUME NEW c \in Cases, NEW s, Reopen(c, s) \/ Approved(c, s) PROVE DeskInv'
  <2> DEFINE put == [held[c] EXCEPT !.state = s]
  <2>1. DOMAIN put = CaseKeys /\ put.created = Facts[c].created BY <1>0 DEF CaseKeys
  <2>2. Put(c, put) /\ denials' \in {denials, denials \cup {moment}}
    BY <1>6 DEF Reopen, Approved
  <2> HIDE DEF put
  <2> QED BY <2>1, <2>2, PutKeeps
<1>7. CASE UNCHANGED deskVars
  BY <1>7 DEF deskVars, DeskInv, HeldOK, WalkOK, ThereOK, CursorOK, NobodyForgotten, Found,
              InWindow, Inside, Rows, In
<1> QED BY <1>1, <1>2, <1>3, <1>4, <1>5, <1>6, <1>7 DEF DeskNext

\* A walk over the reviewers' screens that does not say it was cut short has
\* read everything that was there all along, each row once (worklist.py:55-59,
\* store.py:653-668): for every page size, limit, window and number of cases.
THEOREM NobodyIsForgotten == DeskSpec => []NobodyForgotten
<1>1. DeskInit => DeskInv BY DeskBegins
<1>2. DeskInv /\ [DeskNext]_deskVars => DeskInv' BY DeskStep
<1>3. DeskInv => NobodyForgotten BY DEF DeskInv
<1> QED BY <1>1, <1>2, <1>3, PTL DEF DeskSpec

-----------------------------------------------------------------------------
(* The lists.  A refresh from the official lists covers whoever stays listed. *)

\* What is published of a party can be read: the rows have their columns, an "individual"
\* is OFAC's word and no kind of the UN's, and an index is not the absence of one.
ListsAreReadable ==
  /\ \A r \in SdnRows : r.whole
  /\ \A r \in UnRecords : r.kind # "individual"
  /\ \A source, entities, divergence :
       [source |-> source, entities |-> entities, divergence |-> divergence] # Nothing

JobFields == {"phase", "command", "sdn", "alt", "un", "read", "entities", "compared", "errors"}

\* A list a job holds is the whole list, at some time, or none; and what a job is about
\* to publish from both of them names every party that stays designated.
JobInv(w) ==
  \/ w = Waiting
  \/ w = [phase |-> "done"]
  \/ /\ DOMAIN w = JobFields
     /\ w.sdn = {} \/ SdnRows \subseteq w.sdn
     /\ w.un = {} \/ w.un = UnRecords
     /\ w.phase \in {"sdn", "alt", "un", "build", "feed", "publish"}
     /\ w.phase = "feed" => w.command.source # "official"
     /\ w.phase = "publish" /\ w.command.source = "official"
          => \A x \in Standing : \E e \in w.entities : e.name = x

RefreshInv ==
  /\ DOMAIN lists = {"sdn", "un"} /\ SdnRows \subseteq lists.sdn /\ lists.un = UnRecords
  /\ DOMAIN job = Jobs /\ \A j \in Jobs : JobInv(job[j])

LEMMA OfficialCoversAll ==
  ASSUME ListsAreReadable, NEW sdn, NEW alt, NEW un, SdnRows \subseteq sdn, UnRecords \subseteq un
  PROVE  \A x \in Standing : \E e \in parse_ofac(sdn, alt) \cup parse_un(un) : e.name = x
<1> TAKE x \in Standing
<1>1. PICK r \in SdnRows \cup UnRecords :
        r.kind \notin _SKIPPED_OFAC_TYPES /\ r.name # Nothing /\ x = Spelling(r)
  BY DEF Standing
<1>2. CASE r \in SdnRows
  <2> DEFINE e == OfacEntity(r, alt)
  <2>1. e \in parse_ofac(sdn, alt) BY <1>1, <1>2 DEF parse_ofac, ListsAreReadable
  <2>2. e.name = x BY <1>1 DEF OfacEntity, Spelling, _ofac_person_name
  <2> QED BY <2>1, <2>2
<1>3. CASE r \in UnRecords
  <2> DEFINE e == [ent |-> r.ent, name |-> r.name, ids |-> {},
                   aliases |-> _dedupe(r.aliases \cap Usable, r.name)]
  <2>1. e \in parse_un(un) BY <1>1, <1>3 DEF parse_un
  <2>2. e.name = x BY <1>1, <1>3 DEF Spelling, ListsAreReadable
  <2> HIDE DEF e
  <2> QED BY <2>1, <2>2
<1> QED BY <1>1, <1>2, <1>3

LEMMA JobMoves ==
  ASSUME RefreshInv, NEW j \in Jobs, DOMAIN job' = Jobs, \A i \in Jobs \ {j} : job'[i] = job[i],
         JobInv(job'[j]), UNCHANGED lists
  PROVE  RefreshInv'
BY DEF RefreshInv

\* What may be said of a new index.
GoodIndex == bucket' # bucket =>
  /\ bucket'.entities # {}
  /\ bucket'.source = "official" => Standing \subseteq Names(bucket')

LEMMA RefreshStarts == RefreshInit => RefreshInv
BY DEF RefreshInit, RefreshInv, JobInv, Waiting

LEMMA RefreshStep ==
  ASSUME ListsAreReadable, RefreshInv, [RefreshNext]_refreshVars
  PROVE  RefreshInv' /\ GoodIndex
<1>0. ASSUME NEW j \in Jobs, job[j] # Waiting, job[j].phase # "done"
      PROVE  /\ DOMAIN job[j] = JobFields
             /\ job[j].sdn = {} \/ SdnRows \subseteq job[j].sdn
             /\ job[j].un = {} \/ job[j].un = UnRecords
             /\ job[j].phase = "feed" => job[j].command.source # "official"
             /\ job[j].phase = "publish" /\ job[j].command.source = "official"
                  => \A x \in Standing : \E e \in job[j].entities : e.name = x
  <2>1. JobInv(job[j]) BY DEF RefreshInv
  <2>2. [phase |-> "done"].phase = "done" OBVIOUS
  <2> QED BY <1>0, <2>1, <2>2 DEF JobInv
<1>1. CASE UNCHANGED refreshVars
  BY <1>1 DEF refreshVars, RefreshInv, GoodIndex
<1>2. ASSUME NEW j \in Jobs, NEW w, JobInv(w), job' = [job EXCEPT ![j] = w], UNCHANGED <<lists, bucket>>
      PROVE  RefreshInv' /\ GoodIndex
  BY <1>2, JobMoves DEF RefreshInv, GoodIndex
<1>3. ASSUME NEW j \in Jobs, NEW command \in Commands, Call(j, command)
      PROVE  RefreshInv' /\ GoodIndex
  <2> DEFINE w == [phase |-> IF command.source = "official" THEN "sdn" ELSE "feed",
                   command |-> command, sdn |-> {}, alt |-> <<>>, un |-> {}, read |-> 0,
                   entities |-> {}, compared |-> {}, errors |-> 0]
  <2>1. /\ DOMAIN w = JobFields /\ w.sdn = {} /\ w.un = {} /\ w.phase \in {"sdn", "feed"}
        /\ w.phase = "feed" => w.command.source # "official"
    BY DEF JobFields
  <2>2. JobInv(w) BY <2>1 DEF JobInv
  <2>3. job' = [job EXCEPT ![j] = w] /\ UNCHANGED <<lists, bucket>> BY <1>3 DEF Call
  <2> HIDE DEF w
  <2> QED BY <1>2, <2>2, <2>3
<1>4. ASSUME NEW j \in Jobs, Dies(j) PROVE RefreshInv' /\ GoodIndex
  BY <1>2, <1>4 DEF Dies, JobInv
<1>5. ASSUME NEW j \in Jobs, Fetch(j) PROVE RefreshInv' /\ GoodIndex
  <2>1. UNCHANGED <<lists, bucket>> /\ job[j] # Waiting /\ job[j].phase \in {"sdn", "alt", "un"}
    BY <1>5 DEF Fetch, _fetch
  <2>2. /\ DOMAIN job[j] = JobFields
        /\ job[j].sdn = {} \/ SdnRows \subseteq job[j].sdn
        /\ job[j].un = {} \/ job[j].un = UnRecords
    BY <1>0, <2>1
  <2>3. DOMAIN job = Jobs BY DEF RefreshInv
  <2>4. /\ DOMAIN job' = Jobs /\ \A i \in Jobs \ {j} : job'[i] = job[i]
        /\ DOMAIN job'[j] = JobFields /\ job'[j].phase \in {"alt", "un", "build"}
        /\ job'[j].sdn \in {job[j].sdn, lists.sdn, {}} /\ job'[j].un \in {job[j].un, lists.un, {}}
    BY <1>5, <2>2, <2>3 DEF Fetch, _fetch, JobFields
  <2>5. JobInv(job'[j]) BY <2>2, <2>4 DEF JobInv, RefreshInv
  <2> QED BY <2>1, <2>4, <2>5, JobMoves DEF GoodIndex
<1>6. ASSUME NEW j \in Jobs, build_official(j) PROVE RefreshInv' /\ GoodIndex
  <2> DEFINE ofac == parse_ofac(job[j].sdn, job[j].alt)
             un == parse_un(job[j].un)
  <2>1. UNCHANGED <<lists, bucket>> /\ job[j] # Waiting /\ job[j].phase = "build"
    BY <1>6 DEF build_official
  <2>2. CASE Whole(ofac, un)
    <3>1. job' = [job EXCEPT ![j].phase = "publish", ![j].entities = ofac \cup un]
      BY <1>6, <2>2 DEF build_official
    <3>2. job[j].sdn # {} /\ job[j].un # {}
      BY <2>2 DEF Whole, parse_ofac, parse_un
    <3>3. SdnRows \subseteq job[j].sdn /\ job[j].un = UnRecords /\ DOMAIN job[j] = JobFields
      BY <1>0, <2>1, <3>2
    <3>4. \A x \in Standing : \E e \in ofac \cup un : e.name = x
      BY <3>3, OfficialCoversAll
    <3> HIDE DEF ofac, un
    <3>5. /\ DOMAIN job' = Jobs /\ \A i \in Jobs \ {j} : job'[i] = job[i]
          /\ DOMAIN job'[j] = JobFields /\ job'[j].phase = "publish" /\ job'[j].entities = ofac \cup un
          /\ job'[j].sdn = job[j].sdn /\ job'[j].un = job[j].un
      BY <3>1, <3>3 DEF RefreshInv, JobFields
    <3>6. JobInv(job'[j]) BY <3>3, <3>4, <3>5 DEF JobInv
    <3> QED BY <2>1, <3>5, <3>6, JobMoves DEF GoodIndex
  <2>3. CASE ~Whole(ofac, un)
    <3>1. job' = [job EXCEPT ![j] = Waiting] BY <1>6, <2>3 DEF build_official
    <3>2. JobInv(Waiting) BY DEF JobInv
    <3> QED BY <1>2, <2>1, <3>1, <3>2
  <2> QED BY <2>2, <2>3
<1>7. ASSUME NEW j \in Jobs, NEW reading \in Readings, build_opensanctions(j, reading)
      PROVE  RefreshInv' /\ GoodIndex
  <2>1. UNCHANGED <<lists, bucket>> /\ job[j] # Waiting /\ job[j].phase = "feed"
    BY <1>7 DEF build_opensanctions
  <2>2. PICK n, E, C, err : job' = [job EXCEPT ![j].read = n, ![j].entities = E, ![j].compared = C,
                                               ![j].errors = err]
    BY <1>7 DEF build_opensanctions
  <2>3. /\ DOMAIN job[j] = JobFields /\ job[j].command.source # "official"
        /\ job[j].sdn = {} \/ SdnRows \subseteq job[j].sdn
        /\ job[j].un = {} \/ job[j].un = UnRecords
    BY <1>0, <2>1
  <2>4. /\ DOMAIN job' = Jobs /\ \A i \in Jobs \ {j} : job'[i] = job[i]
        /\ DOMAIN job'[j] = JobFields /\ job'[j].phase = "feed"
        /\ job'[j].sdn = job[j].sdn /\ job'[j].un = job[j].un /\ job'[j].command = job[j].command
    BY <2>1, <2>2, <2>3 DEF RefreshInv, JobFields
  <2>5. JobInv(job'[j]) BY <2>3, <2>4 DEF JobInv
  <2> QED BY <2>1, <2>4, <2>5, JobMoves DEF GoodIndex
<1>8. ASSUME NEW j \in Jobs, FeedRead(j) PROVE RefreshInv' /\ GoodIndex
  <2>1. /\ UNCHANGED <<lists, bucket>> /\ job[j] # Waiting /\ job[j].phase = "feed"
        /\ job' = [job EXCEPT ![j].phase = "publish"]
    BY <1>8 DEF FeedRead
  <2>2. /\ DOMAIN job[j] = JobFields /\ job[j].command.source # "official"
        /\ job[j].sdn = {} \/ SdnRows \subseteq job[j].sdn
        /\ job[j].un = {} \/ job[j].un = UnRecords
    BY <1>0, <2>1
  <2>3. /\ DOMAIN job' = Jobs /\ \A i \in Jobs \ {j} : job'[i] = job[i]
        /\ DOMAIN job'[j] = JobFields /\ job'[j].phase = "publish"
        /\ job'[j].sdn = job[j].sdn /\ job'[j].un = job[j].un /\ job'[j].command = job[j].command
    BY <2>1, <2>2 DEF RefreshInv, JobFields
  <2>4. JobInv(job'[j]) BY <2>2, <2>3 DEF JobInv
  <2> QED BY <2>1, <2>3, <2>4, JobMoves DEF GoodIndex
<1>9. ASSUME NEW j \in Jobs, publish(j) PROVE RefreshInv' /\ GoodIndex
  <2>1. /\ UNCHANGED lists /\ job[j] # Waiting /\ job[j].phase = "publish"
        /\ job' = [job EXCEPT ![j] = [phase |-> "done"]]
    BY <1>9 DEF publish
  <2>2. JobInv([phase |-> "done"]) BY DEF JobInv
  <2>3. RefreshInv' BY <2>1, <2>2, JobMoves DEF RefreshInv
  <2>4. GoodIndex
    <3> DEFINE newIndex == [source |-> Command(j).source, entities |-> job[j].entities,
                         divergence |-> summarise(job[j].compared)]
    <3> SUFFICES ASSUME bucket' # bucket PROVE GoodIndex BY DEF GoodIndex
    <3>1. bucket' = newIndex /\ job[j].entities # {} BY <1>9 DEF publish
    <3>2. newIndex # Nothing BY DEF ListsAreReadable
    <3>3. newIndex.entities = job[j].entities /\ newIndex.source = job[j].command.source BY DEF Command
    <3> HIDE DEF newIndex
    <3>4. ASSUME newIndex.source = "official" PROVE Standing \subseteq Names(newIndex)
      <4>1. \A x \in Standing : \E e \in job[j].entities : e.name = x
        BY <1>0, <2>1, <3>3, <3>4
      <4> QED BY <3>2, <3>3, <4>1 DEF Names
    <3> QED BY <3>1, <3>3, <3>4 DEF GoodIndex
  <2> QED BY <2>3, <2>4
<1>10. ASSUME NEW r \in Additions, Designate(r) PROVE RefreshInv' /\ GoodIndex
  <2>1. UNCHANGED <<job, bucket>> /\ lists' = [lists EXCEPT !.sdn = @ \cup {r}]
    BY <1>10 DEF Designate
  <2>2. DOMAIN lists' = {"sdn", "un"} /\ SdnRows \subseteq lists'.sdn /\ lists'.un = UnRecords
    BY <2>1 DEF RefreshInv
  <2> QED BY <2>1, <2>2 DEF RefreshInv, GoodIndex
<1> QED BY <1>1, <1>3, <1>4, <1>5, <1>6, <1>7, <1>8, <1>9, <1>10 DEF RefreshNext

\* Whatever a publisher answers, whichever job dies and however the jobs overlap, what
\* a refresh puts in force is not empty and, from the official lists, names whoever
\* stays designated: for any lists, jobs, commands and readings of the model.
THEOREM DesignationsStayInForce == ASSUME ListsAreReadable PROVE RefreshSpec => StaysInForce
<1> DEFINE A == bucket' # bucket =>
       /\ bucket'.entities # {}
       /\ bucket'.source = "official" => Standing \subseteq Names(bucket')
<1>1. RefreshInv /\ [RefreshNext]_refreshVars => RefreshInv' /\ A
  BY RefreshStep DEF GoodIndex
<1>2. RefreshSpec => [][A]_refreshVars BY <1>1, RefreshStarts, PTL DEF RefreshSpec
<1> QED BY <1>2 DEF StaysInForce

=============================================================================
