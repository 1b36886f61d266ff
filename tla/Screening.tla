------------------------------- MODULE Screening -------------------------------
(* One shipment on its way through the deterministic screening, the models'   *)
(* verdicts, the routing of orchestrator.advance and, when it waits for a     *)
(* person, the evidence evaluation of evidence.reevaluate -- while a tenant's *)
(* screening rules are edited and the sanctions list is republished, ages out *)
(* of the process's cache or cannot be read.                                  *)
EXTENDS OriginEvidence

CONSTANTS
  Shipments,    \* the shipments considered
  Papers,       \* the papers a shipper may send
  MaxPapers,    \* bound: how many are sent
  Editors,      \* requests that update the rules
  Patches,      \* what they may ask for
  Saved,        \* rule documents the tenant may start from
  Lists,        \* sanctions lists the bucket may hold: [up, entities]
  Bundles,      \* bundled seed lists considered; {} cannot be read
  Scores,       \* risk scores of the fraud agent, Absent among them
  Statuses,     \* compliance statuses
  HsVerdicts, NewsVerdicts,
  Debates,      \* what the senior auditor may say: [disagrees, score]
  Pasts         \* how people may have ruled on the shipper

\* Freight is a number; a score outside 0 to 100 is refused where a model's
\* answer is read (schemas.py:325, 384), and then it is Absent.
ASSUME ScreeningInputs ==
  /\ \A s \in Shipments : s.cost \in Int
  /\ Scores \subseteq {Absent} \cup 0 .. 100
  /\ \A debate \in Debates : debate.score \in 0 .. 100

FRAUD_CLEAR_BELOW == 40
INVESTIGATE_AT == 70

VARIABLES
  stored,      \* the tenant's prefilter_rules document
  edit,        \* what an update request has read and means to write
  list,        \* the published sanctions list
  bundle,      \* the list in the image
  index,       \* sanctions._cached; {} is None
  fresh,       \* whether the cache is younger than RELOAD_AFTER_SECONDS
  case, papers

screeningVars == <<stored, edit, list, bundle, index, fresh, case, papers>>

NoValidation ==
  [findings |-> {}, risk_floor |-> 0, base |-> 0, skip_ai |-> FALSE, rejected |-> FALSE]
NoEvaluation == [papers |-> {}, status |-> "none", findings |-> {}]
NoEdit == [phase |-> "idle", before |-> Defaults, patch |-> <<>>]
Quiet == [verdict |-> "none", hs |-> NoName, sure |-> FALSE]
Unsearched == [verdict |-> "none", searched |-> FALSE, sure |-> FALSE]

NewCase(s) ==
  [state |-> "INGESTED", shipment |-> s, validation |-> NoValidation, search |-> FALSE,
   risk |-> 0, floor |-> 0, permitted |-> FALSE, status |-> "UNKNOWN", failed |-> FALSE,
   debate_escalated |-> FALSE, evaluation |-> NoEvaluation]

ScreeningInit ==
  /\ stored \in Saved
  /\ edit = [e \in Editors |-> NoEdit]
  /\ list \in Lists
  /\ bundle \in Bundles
  /\ index = {}
  /\ fresh = FALSE
  /\ case \in {NewCase(s) : s \in Shipments}
  /\ papers = {}

-----------------------------------------------------------------------------
\* Bound: the surroundings change while the case is worked on, until papers come.
Admit == case.state # "AUTO_CLEARED" /\ papers = {}

(* PUT /api/v1/governance/prefilter-rules: the rules are read, patched and    *)
(* written whole; nothing compares what is replaced with what was read.       *)

ReadRules(e, patch) ==
  /\ Admit
  /\ edit[e].phase = "idle"
  /\ Readable(patch)
  /\ edit' = [edit EXCEPT ![e] =
                [phase |-> "read", before |-> from_dict(stored), patch |-> patch]]
  /\ UNCHANGED <<stored, list, bundle, index, fresh, case, papers>>

WriteRules(e) ==
  /\ Admit
  /\ edit[e].phase = "read"
  /\ stored' = apply_prefilter_update(edit[e].before, edit[e].patch)
  /\ edit' = [edit EXCEPT ![e] = [NoEdit EXCEPT !.phase = "done"]]
  /\ UNCHANGED <<list, bundle, index, fresh, case, papers>>

(* The list: a refresh job or an outage replaces what the bucket answers.     *)
Republish(l) ==
  /\ Admit
  /\ l # list
  /\ list' = l
  /\ UNCHANGED <<stored, edit, bundle, index, fresh, case, papers>>

Age ==
  /\ Admit
  /\ fresh
  /\ fresh' = FALSE
  /\ UNCHANGED <<stored, edit, list, bundle, index, case, papers>>

\* load(): the cache while it is young, else the bucket, else the bundle.  A
\* bucket that answers without usable entities is not replaced by the bundle.
load == IF fresh /\ index # {} THEN index
        ELSE IF list.up THEN list.entities ELSE bundle
Loaded == index' = load /\ fresh' = TRUE

-----------------------------------------------------------------------------
(* advance().                                                                 *)

rules == from_dict(stored)

\* A decision becomes official when the boundary permits it (Delegation).
Decided(outcome, gate) == IF gate THEN outcome ELSE "PENDING_HUMAN"

\* INGESTED: the rules alone decide, or the models are asked.
Screen(gate) ==
  /\ case.state = "INGESTED"
  /\ Loaded
  /\ LET s == case.shipment
         v == validate(s, rules, load, Quiet, Unsearched)
         outcome == IF v.rejected THEN "ESCALATED" ELSE "AUTO_CLEARED"
     IN  case' = IF v.skip_ai
                 THEN [case EXCEPT !.validation = v, !.state = Decided(outcome, gate),
                                   !.risk = IF v.rejected THEN 100 ELSE 0,
                                   !.floor = v.risk_floor, !.permitted = ~v.rejected]
                 ELSE [case EXCEPT !.state = "ASKING",
                                   !.search = should_screen(s, load, v.skip_ai)]
  /\ UNCHANGED <<stored, edit, list, bundle, papers>>

\* The instance was lost, or its claim lapsed, while the models were asked.
Interrupted ==
  /\ case.state = "ASKING"
  /\ case' = NewCase(case.shipment)
  /\ UNCHANGED <<stored, edit, list, bundle, index, fresh, papers>>

\* How people have ruled on this shipper: [named, blocked, released].  Raising
\* rests on the name; lowering on an identity the counterparty book verified.
shipper_risk_adjustment(past, s) ==
  LET verified == lookup(s.tax, s.company) = "verified" IN
  IF past.named >= 2 \/ (verified /\ past.blocked >= 2) THEN 15
  ELSE IF verified /\ past.released >= 5 THEN -10 ELSE 0

\* Mutants: history is applied without the cap, and without the floor.
Learned_uncapped(r, past, s) ==
  IF shipper_risk_adjustment(past, s) = 0 THEN r.effective_risk
  ELSE Greatest({r.risk_floor, r.effective_risk + shipper_risk_adjustment(past, s)})
Learned_below_floor(r, past, s) ==
  LET sum == r.effective_risk + shipper_risk_adjustment(past, s) IN
  IF sum > 100 THEN 100 ELSE sum

Learned(r, past, s) ==
  LET adj == shipper_risk_adjustment(past, s) IN
  IF adj = 0 THEN r.effective_risk
  ELSE Greatest({r.risk_floor, IF r.effective_risk + adj > 100 THEN 100
                               ELSE r.effective_risk + adj})

\* A disputed veto is put to the auditor.  A confident disagreement of its own
\* sends the case to investigation and may raise the risk; nothing else moves it.
Escalates(r, debate) == r.vetoed /\ r.disputed /\ debate.disagrees
Debated(r, risk, debate) ==
  IF Escalates(r, debate) THEN Greatest({risk, debate.score}) ELSE risk

\* The verdicts that can come back: a model that is not asked says nothing.
HsReplies(s) == IF s.described /\ s.hs # NoName THEN HsVerdicts ELSE {Quiet}
NewsReplies  == IF case.search THEN NewsVerdicts ELSE {Unsearched}

Analyse(score, status, failed, hs, news, past, debate) ==
  /\ case.state = "ASKING"
  /\ Loaded
  /\ LET s == case.shipment
         v == validate(s, rules, load, hs, news)
         r == reconcile(score, v.risk_floor)
     IN  case' = [case EXCEPT
           !.state = "SPECIALISTS_DONE", !.validation = v, !.status = status,
           !.failed = failed, !.floor = v.risk_floor,
           !.permitted = r.auto_clear_permitted,
           !.risk = Debated(r, Learned(r, past, s), debate),
           !.debate_escalated = Escalates(r, debate)]
  /\ UNCHANGED <<stored, edit, list, bundle, papers>>

clean == /\ case.risk < FRAUD_CLEAR_BELOW
         /\ case.permitted
         /\ case.status = "CLEARED"
         /\ ~case.failed
needs_investigation ==
  \/ case.status \in {"BLOCKED", "REVIEW_REQUIRED"}
  \/ case.risk >= INVESTIGATE_AT
  \/ case.debate_escalated

\* What routed the case is not read again, and the model lets go of it.
Route(gate) ==
  /\ case.state = "SPECIALISTS_DONE"
  /\ case' = [case EXCEPT
       !.state = IF clean THEN Decided("AUTO_CLEARED", gate)
                 ELSE IF needs_investigation THEN "INVESTIGATED"
                 ELSE Decided("HELD_FOR_REVIEW", gate),
       !.status = "UNKNOWN", !.failed = FALSE, !.debate_escalated = FALSE, !.search = FALSE]
  /\ UNCHANGED <<stored, edit, list, bundle, index, fresh, papers>>

\* check_exposure_claim: a figure over a hundred times the declared value.
Exposed(inflated) ==
  If(inflated /\ case.shipment.value > 0,
     Finding("EXPOSURE_CLAIM_UNSUPPORTED", "MEDIUM", 0))

Conclude(inflated, gate) ==
  /\ case.state = "INVESTIGATED"
  /\ case' = [case EXCEPT !.validation.findings = @ \cup Exposed(inflated),
                          !.state = Decided("ESCALATED", gate)]
  /\ UNCHANGED <<stored, edit, list, bundle, index, fresh, papers>>

-----------------------------------------------------------------------------
(* The evidence loop's use of the verifier (its requests: EvidenceLoop).      *)

\* AWAITING_EVIDENCE, the fourth of them, comes back to one of these by resume_state.
REEVALUABLE == {"HELD_FOR_REVIEW", "ESCALATED", "PENDING_HUMAN"}

\* Bound: papers are sent about the shipments of a watched lane.
Receive(d) ==
  /\ case.state \in REEVALUABLE
  /\ watched_lane(case.shipment) # {}
  /\ Cardinality(papers) < MaxPapers
  /\ papers' = papers \cup {d}
  /\ UNCHANGED <<stored, edit, list, bundle, index, fresh, case>>

\* Mutant: the newest evaluation sets the score.
Raise_anew(floor) == [case EXCEPT !.floor = floor, !.risk = floor]

Raise(floor) ==
  IF floor > case.floor THEN [case EXCEPT !.floor = floor, !.risk = Greatest({@, floor})]
  ELSE case

\* The checks run again, under the bundled rules and without the models.
Reevaluate ==
  /\ case.state \in REEVALUABLE
  /\ papers # {}
  /\ Loaded
  /\ LET s == case.shipment
         found == deterministic(s, Defaults, load) \cup evidence_findings(s, papers)
         floor == _floor_for(found)
     IN  case' = [Raise(floor) EXCEPT
           !.evaluation = [papers |-> papers, findings |-> found,
                           status |-> check_origin_evidence(s, papers)],
           !.state = IF floor >= INVESTIGATE_AT \/ @ = "ESCALATED" THEN "ESCALATED"
                     ELSE "HELD_FOR_REVIEW"]
  /\ UNCHANGED <<stored, edit, list, bundle, papers>>

ScreeningNext ==
  \/ \E e \in Editors : WriteRules(e) \/ \E p \in Patches : ReadRules(e, p)
  \/ \E l \in Lists : Republish(l)
  \/ Age
  \/ \E gate \in BOOLEAN :
       Screen(gate) \/ Route(gate) \/ \E inflated \in BOOLEAN : Conclude(inflated, gate)
  \/ Interrupted
  \/ \E score \in Scores, status \in Statuses, failed \in BOOLEAN,
        hs \in HsReplies(case.shipment), news \in NewsReplies, past \in Pasts,
        debate \in Debates : Analyse(score, status, failed, hs, news, past, debate)
  \/ \E d \in Papers : Receive(d)
  \/ Reevaluate

ScreeningSpec == ScreeningInit /\ [][ScreeningNext]_screeningVars

-----------------------------------------------------------------------------
Screened == case.state \notin {"INGESTED", "ASKING"}

ScreeningTypeOK ==
  /\ DOMAIN stored \subseteq RuleLists
  /\ \A e \in Editors : edit[e].phase \in {"idle", "read", "done"}
  /\ fresh \in BOOLEAN
  /\ papers \subseteq Papers
  /\ case.state \in {"INGESTED", "ASKING", "SPECIALISTS_DONE", "INVESTIGATED", "AUTO_CLEARED",
                     "HELD_FOR_REVIEW", "ESCALATED", "PENDING_HUMAN"}
  /\ case.risk \in 0 .. 100
  /\ case.floor \in 0 .. 100

\* No model, no history and no debate talks a finding down: the score a case
\* carries is never under the floor of the facts alone, whatever the models
\* added, and a prohibition is a hundred (orchestrator.py:1268-1275,
\* verifier.py:1790-1799).
FloorStands ==
  Screened =>
    /\ case.risk >= case.floor
    /\ case.floor >= case.validation.risk_floor
    /\ case.validation.risk_floor >= case.validation.base
    /\ case.validation.rejected => case.risk = 100

\* A shipment no person saw was screened against a list that could be read and
\* is on none of the lists that forbid it, whichever of the rules, the models
\* and the shipper's standing spoke for it (verifier.py:1689-1699).
ReleasedIsScreened ==
  case.state = "AUTO_CLEARED" =>
    LET s == case.shipment IN
    /\ index # {} /\ screen(index, s) = {}
    /\ watched_lane(s) = {}
    /\ s.hs \notin DUAL_USE_HS_PREFIXES \cup {NoName}
    /\ {lane(s)[1], lane(s)[2]} \cap HIGH_RISK_DESTINATIONS = {}
    /\ s.cost > 0 /\ ~s.rerouted
    /\ lookup(s.tax, s.company) # "identity_mismatch"
    /\ case.risk < FRAUD_CLEAR_BELOW

\* Papers that contradict the declared origin are never outweighed by others,
\* complete or not: the case is escalated, at the contradiction's floor
\* (verifier.py:1426-1429).
ContradictionEscalates ==
  (\E d \in case.evaluation.papers : Contradicts(case.shipment, d)) =>
    /\ case.evaluation.status = "contradicted"
    /\ case.state = "ESCALATED"
    /\ case.risk >= 80

\* Papers count as proof only when each kind was read to its last page and
\* none of them, counted or not, speaks of another origin (verifier.py:1445-1456).
ProvidedIsProof ==
  case.evaluation.status = "provided" =>
    /\ \A type \in ORIGIN_EVIDENCE_DOCS :
         \E d \in case.evaluation.papers : d.doc_type = type /\ ~d.read_in_part
    /\ \A d \in case.evaluation.papers :
         /\ d.input_origins \cap watched(case.shipment) = {}
         /\ d.doc_type = "certificate_of_origin" =>
               (d.origin_country = {declared(case.shipment)} \/ Cardinality(d.origin_country) # 1)

\* From the models' verdicts on, no step takes risk off a case or takes an
\* escalation back: evidence only raises (verifier.py:1409-1412).
ReviewOnlyRaises ==
  [][Screened =>
       /\ case'.risk >= case.risk
       /\ case.state = "ESCALATED" => case'.state = "ESCALATED"]_screeningVars

\* "The evaluation's findings match what the verifier would say today (rules
\* may have changed since the case arrived)" (evidence.py:811-813).
ReevaluatedUnderTodaysRules ==
  [][case'.evaluation # case.evaluation =>
       case'.evaluation.findings =
         deterministic(case.shipment, rules, load) \cup
         evidence_findings(case.shipment, papers)]_screeningVars
=============================================================================
