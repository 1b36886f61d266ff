------------------------------ MODULE AuditIntake ------------------------------
(* The B2B entry point (app.compliance_audit): an integrator posts a shipment  *)
(* under its own reference and is told the verdict.  A replay is answered from *)
(* the case the reference already has; otherwise the handler opens the case,   *)
(* writes the reference on it and advances it itself, beside the worker that   *)
(* advances it too.  Handlers fail and clients post again.  What an advance    *)
(* computes is CasePipeline's; here it ends in any of the states it can.       *)
EXTENDS Integers, FiniteSets

CONSTANTS
  Posts,        \* the integrator's requests, each sent again when it fails
  Workers,      \* what else advances cases: the poller, a drain of the console
  PostOf,       \* [Posts -> [reference, shipment]]
  Impatient,    \* whether a client repeats a post while the first is running
  TURNS,        \* how often a handler advances a case: 8 in the code
  MaxTries,     \* bound: handlers per post
  MaxWork       \* bound: cases the workers take and decisions of reviewers

\* The posts considered carry a reference, and the integrator does not use one
\* reference for two shipments.
ASSUME PostsAssumption ==
  \A p, q \in Posts :
    /\ PostOf[p].reference # "no reference"
    /\ PostOf[p].reference = PostOf[q].reference => PostOf[p].shipment = PostOf[q].shipment

VARIABLES
  records,       \* [Shipments -> the case, Absent before it is opened]
  handler,      \* [Posts -> [phase, copy, turn]]
  worker,       \* [Workers -> a copy of a case it advances, or Absent]
  told,         \* [Posts -> the verdicts it was told]: history
  tries, work

auditVars == <<records, handler, worker, told, tries, work>>

Booked == {PostOf[p].shipment : p \in Posts}
Reference(p) == PostOf[p].reference
Shipment(p) == PostOf[p].shipment
NoReference == "no reference"

NotOpened == [shipment |-> "none", state |-> "ABSENT", reference |-> NoReference, _version |-> 0]
FreshCase(s) == [shipment |-> s, state |-> "INGESTED", reference |-> NoReference, _version |-> 1]
Idle == [phase |-> "idle", copy |-> NotOpened, turn |-> 0]

AuditInit ==
  /\ records = [s \in Booked |-> NotOpened]
  /\ handler = [p \in Posts |-> Idle]
  /\ worker = [w \in Workers |-> NotOpened]
  /\ told = [p \in Posts |-> {}]
  /\ tries = [p \in Posts |-> 0]
  /\ work = 0

-----------------------------------------------------------------------------
(* What is published of a state (b2b).                                        *)

IN_FLIGHT == {"INGESTED", "SPECIALISTS_DONE", "INVESTIGATED"}
CLEARED == {"AUTO_CLEARED", "RELEASED_BY_HUMAN"}
is_complete(case) == case.state \notin IN_FLIGHT
outcome_for(case) ==
  IF case.state \in CLEARED THEN "CLEARED"
  ELSE IF case.state = "BLOCKED_BY_HUMAN" THEN "BLOCKED"
  ELSE IF case.state = "HELD_FOR_REVIEW" THEN "HELD_FOR_REVIEW"
  ELSE IF case.state \in IN_FLIGHT \cup {"PENDING_HUMAN", "ESCALATED"} THEN "PENDING_HUMAN"
  ELSE "ERROR"

\* The states an advance leads to: a refused action leaves the case to a person.
Advanced(state) ==
  CASE state = "INGESTED" -> {"SPECIALISTS_DONE", "AUTO_CLEARED", "ESCALATED", "PENDING_HUMAN"}
    [] state = "SPECIALISTS_DONE" ->
         {"INVESTIGATED", "AUTO_CLEARED", "HELD_FOR_REVIEW", "PENDING_HUMAN"}
    [] OTHER -> {"ESCALATED", "PENDING_HUMAN"}

-----------------------------------------------------------------------------
(* The store.                                                                 *)

\* Mutant: put_case writes whatever the version.
Fits_any(copy) == TRUE
Fits(copy) == records[copy.shipment]._version = copy._version
Bumped(case) == [case EXCEPT !._version = @ + 1]
Write(case) == records' = [records EXCEPT ![case.shipment] = case]

Stands(p, phase) == handler[p].phase = phase
Moves(p, next) == handler' = [handler EXCEPT ![p] = next]
\* An exception: the answer is a 500 and says nothing of the case.
Fails(p) == Moves(p, Idle) /\ UNCHANGED <<records, told>>
Answers(p, case) ==
  /\ told' = [told EXCEPT ![p] = @ \cup ({outcome_for(case)} \cap {"CLEARED", "BLOCKED"})]
  /\ Moves(p, Idle)
  /\ UNCHANGED records

-----------------------------------------------------------------------------
(* One handler.                                                               *)

\* A client that waits posts again only when the handler has ended.
Post(p) ==
  /\ Stands(p, "idle")
  /\ tries[p] < MaxTries
  /\ ~Impatient => \A q \in Posts : Shipment(q) = Shipment(p) => Stands(q, "idle")
  /\ tries' = [tries EXCEPT ![p] = @ + 1]
  /\ Moves(p, [Idle EXCEPT !.phase = "lookup"])
  /\ UNCHANGED <<records, worker, told, work>>

\* find_case_by_client_reference: one of them, where a reference has several.
Lookup(p) ==
  /\ Stands(p, "lookup")
  /\ LET has == {s \in Booked : records[s].reference = Reference(p)} IN
     IF has # {} THEN \E s \in has : Answers(p, records[s])
     ELSE Moves(p, [handler[p] EXCEPT !.phase = "find"]) /\ UNCHANGED <<records, told>>
  /\ UNCHANGED <<worker, tries, work>>

\* ingest_shipment looks for the case, renders and archives its paper, and puts
\* it without a version.
\* Mutant: the shipment's case is not looked for.
Opened_never(s) == FALSE
Opened(s) == records[s] # NotOpened

Find(p) ==
  /\ Stands(p, "find")
  /\ Moves(p, [handler[p] EXCEPT !.phase = IF Opened(Shipment(p)) THEN "read" ELSE "put"])
  /\ UNCHANGED <<records, worker, told, tries, work>>

PutCase(p) ==
  /\ Stands(p, "put")
  /\ Write(FreshCase(Shipment(p)))
  /\ Moves(p, [handler[p] EXCEPT !.phase = "read"])
  /\ UNCHANGED <<worker, told, tries, work>>

\* _attach_integration_fields: read, and written back under the version read.
AttachRead(p) ==
  /\ Stands(p, "read")
  /\ Moves(p, [handler[p] EXCEPT !.phase = "attach", !.copy = records[Shipment(p)]])
  /\ UNCHANGED <<records, worker, told, tries, work>>

AttachPut(p) ==
  /\ Stands(p, "attach")
  /\ LET case == Bumped([handler[p].copy EXCEPT !.reference = Reference(p)]) IN
     IF Fits(handler[p].copy)
     THEN /\ Write(case)
          /\ Moves(p, [handler[p] EXCEPT !.phase = "advance", !.copy = case])
          /\ UNCHANGED told
     ELSE Fails(p)
  /\ UNCHANGED <<worker, tries, work>>

\* The loop: advance the copy, and load it again where somebody was faster.
Advance(p) ==
  /\ Stands(p, "advance")
  /\ ~is_complete(handler[p].copy)
  /\ handler[p].turn < TURNS
  /\ IF Fits(handler[p].copy)
     THEN \E state \in Advanced(handler[p].copy.state) :
            LET case == Bumped([handler[p].copy EXCEPT !.state = state]) IN
            /\ Write(case)
            /\ Moves(p, [handler[p] EXCEPT !.copy = case, !.turn = @ + 1])
     ELSE /\ Moves(p, [handler[p] EXCEPT !.copy = records[Shipment(p)], !.turn = @ + 1])
          /\ UNCHANGED records
  /\ UNCHANGED <<worker, told, tries, work>>

Answer(p) ==
  /\ Stands(p, "advance")
  /\ is_complete(handler[p].copy) \/ handler[p].turn = TURNS
  /\ Answers(p, handler[p].copy)
  /\ UNCHANGED <<worker, tries, work>>

\* With ?async=true the answer is the case's address, to be polled.
Accepted(p) ==
  /\ Stands(p, "advance")
  /\ handler[p].turn = 0
  /\ Moves(p, Idle)
  /\ UNCHANGED <<records, worker, told, tries, work>>

\* An agent's call raises, or the instance dies.
Break(p) ==
  /\ ~Stands(p, "idle")
  /\ Fails(p)
  /\ UNCHANGED <<worker, tries, work>>

compliance_audit_get(p) ==
  /\ Stands(p, "idle")
  /\ records[Shipment(p)] # NotOpened
  /\ Answers(p, records[Shipment(p)])
  /\ UNCHANGED <<worker, tries, work>>

-----------------------------------------------------------------------------
(* The others: a worker advances a copy, a reviewer decides.                  *)

Take(w) ==
  /\ worker[w] = NotOpened
  /\ work < MaxWork
  /\ \E s \in Booked :
       /\ records[s].state \in IN_FLIGHT
       /\ worker' = [worker EXCEPT ![w] = records[s]]
  /\ work' = work + 1
  /\ UNCHANGED <<records, handler, told, tries>>

\* The advance, or _fail after it raised: the case is tried again later, or no
\* more.  Attempts are CasePipeline's; here any may be the last.
Work(w) ==
  /\ worker[w] # NotOpened
  /\ IF Fits(worker[w])
     THEN \E state \in Advanced(worker[w].state) \cup {worker[w].state, "DEAD_LETTER"} :
            Write(Bumped([worker[w] EXCEPT !.state = state]))
     ELSE UNCHANGED records
  /\ worker' = [worker EXCEPT ![w] = NotOpened]
  /\ UNCHANGED <<handler, told, tries, work>>

\* human_decide, of a case without evidence; with evidence it is DecisionLoop's.
Decide(s) ==
  /\ work < MaxWork
  /\ records[s].state \in {"PENDING_HUMAN", "HELD_FOR_REVIEW", "ESCALATED"}
  /\ \E state \in {"RELEASED_BY_HUMAN", "BLOCKED_BY_HUMAN", "PENDING_HUMAN"} :
       Write(Bumped([records[s] EXCEPT !.state = state]))
  /\ work' = work + 1
  /\ UNCHANGED <<handler, worker, told, tries>>

AuditNext ==
  \/ \E p \in Posts :
       \/ Post(p) \/ Lookup(p) \/ Find(p) \/ PutCase(p) \/ AttachRead(p) \/ AttachPut(p)
       \/ Advance(p) \/ Answer(p) \/ Accepted(p) \/ Break(p) \/ compliance_audit_get(p)
  \/ \E w \in Workers : Take(w) \/ Work(w)
  \/ \E s \in Booked : Decide(s)

AuditSpec == AuditInit /\ [][AuditNext]_auditVars

-----------------------------------------------------------------------------
(* Properties.                                                                *)

\* A shipment has one verdict: whoever was told CLEARED or BLOCKED was told what
\* the case says from then on, whoever advanced it and however often it was
\* posted (compliance_audit, which retries promise not to end in "two possibly
\* different verdicts for one shipment").
OneVerdict ==
  \A p \in Posts : \A outcome \in told[p] : outcome_for(records[Shipment(p)]) = outcome

\* A reference once written on a case is found there by every replay
\* (_attach_integration_fields: "A lost update here would cost idempotency").
ReferenceStays ==
  [][\A s \in Booked : records[s].reference # NoReference => records'[s].reference # NoReference]_auditVars

=============================================================================
