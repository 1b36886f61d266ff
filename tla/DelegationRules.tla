---------------------------- MODULE DelegationRules ----------------------------
(* The pure part of governance.py: which permission objects may be published, *)
(* what the execution gate check() answers for an action on a case, and when  *)
(* recent behaviour has drifted materially.                                   *)
EXTENDS Integers, FiniteSets

CONSTANTS DRIFT_MIN_SAMPLE,            \* cases needed to judge drift
          DRIFT_MAX_AUTO_RELEASE_RATE, \* the three limits, in percent
          DRIFT_MAX_VETO_RATE,
          DRIFT_MAX_INJECTION_RATE

ASSUME RulesAssumption ==
  /\ DRIFT_MIN_SAMPLE \in Nat \ {0}
  /\ DRIFT_MAX_AUTO_RELEASE_RATE \in Nat
  /\ DRIFT_MAX_VETO_RATE \in Nat
  /\ DRIFT_MAX_INJECTION_RATE \in Nat

PROTECTED_ACTIONS == {"release_shipment", "hold_shipment", "assign_analyst",
                      "draft_sar", "notify_webhook", "publish_decision"}

NON_WAIVABLE_HUMAN_TRIGGERS == {"injection_detected", "forbidden_field_attempted"}

KNOWN_HUMAN_TRIGGERS == NON_WAIVABLE_HUMAN_TRIGGERS \cup
  {"score_disputed", "compliance_blocked", "exposure_claim_unsupported"}

Listable == PROTECTED_ACTIONS \ {"release_shipment"}

\* A JSON value where a boolean is due: stated, of another type, or left out.
Flags == {"true", "false", "other", "absent"}

\* A JSON value where a number is due: a number from 0, or one of these.
Absent == -1
Unusable == -2   \* another type, not finite, or negative
IsNumber(n) == n >= 0

-----------------------------------------------------------------------------
(* validate_permissions: a permission object is a record of what the schema   *)
(* looks at.  "tidy" is FALSE when it is empty or not an object, has an       *)
(* unknown key, or a list or a text with a malformed, duplicate or surplus    *)
(* entry.                                                                     *)

\* A release grant states both ceilings; without a grant they may be left out.
ValidCeiling(rules, n) == IsNumber(n) \/ (n = Absent /\ rules.permitted # "true")

_validate_auto_release(rules) ==
  /\ rules.permitted \in {"true", "false"}
  /\ rules.zero # "other"
  /\ ValidCeiling(rules, rules.risk) /\ rules.risk <= 100
  /\ ValidCeiling(rules, rules.value)

validate_permissions(p) ==
  /\ p.tidy
  /\ p.allowed \subseteq Listable
  /\ p.require \subseteq KNOWN_HUMAN_TRIGGERS
  /\ p.draft # "other"
  /\ p.file \notin {"other", "true"}
  /\ p.release.stated => _validate_auto_release(p.release)

-----------------------------------------------------------------------------
(* The execution gate.                                                        *)

Injected(case) == case.screened \/ case.armor

HitTriggers(case) ==
  {x \in KNOWN_HUMAN_TRIGGERS :
     \/ x = "injection_detected" /\ case.screened
     \/ x = "forbidden_field_attempted" /\ case.forbidden
     \/ x = "score_disputed" /\ case.disputed
     \/ x = "compliance_blocked" /\ case.blocked
     \/ x = "exposure_claim_unsupported" /\ case.unsupported}

\* Mutant: the boundary decides about every trigger.
required_triggers(case, p) == HitTriggers(case) \cap p.require

_human_triggers(case, p) ==
  {x \in HitTriggers(case) : x \in p.require \/ x \in NON_WAIVABLE_HUMAN_TRIGGERS}

\* A destination is the set of excluded names its text contains, or blank.
DestinationPasses(case, rules) ==
  \/ rules.destinations = {}
  \/ case.stated_destination /\ case.destinations \cap rules.destinations = {}

_check_release(case, p) ==
  LET rules == p.release IN
  /\ rules.stated /\ rules.permitted = "true"
  /\ IsNumber(rules.risk) /\ IsNumber(rules.value)
  /\ IsNumber(case.risk) /\ case.risk <= rules.risk
  /\ rules.zero = "false" \/ case.findings = 0
  /\ case.clear = "true"
  /\ IsNumber(case.value) /\ case.value <= rules.value
  /\ case.hs \notin rules.hs
  /\ DestinationPasses(case, rules)

check(action, case, p) ==
  \/ action \notin PROTECTED_ACTIONS
  \/ /\ action \in p.allowed \cup {"release_shipment"}
     /\ _human_triggers(case, p) = {}
     /\ action = "release_shipment" => _check_release(case, p)
     /\ action = "draft_sar" => p.draft = "true"

-----------------------------------------------------------------------------
(* Drift: a rate above its limit in a sample that is large enough.  The code  *)
(* rounds a rate to three digits; no fraction of at most 60 cases lies within *)
(* half a thousandth of a limit without being equal to it.                    *)

Exceeds(count, sample, limit) == count * 100 > limit * sample

material(sample, released, vetoed, injected) ==
  /\ sample >= DRIFT_MIN_SAMPLE
  /\ \/ Exceeds(released, sample, DRIFT_MAX_AUTO_RELEASE_RATE)
     \/ Exceeds(vetoed, sample, DRIFT_MAX_VETO_RATE)
     \/ Exceeds(injected, sample, DRIFT_MAX_INJECTION_RATE)

-----------------------------------------------------------------------------
(* simulate_boundary: each recent case is judged under the active boundary    *)
(* and under the candidate; the cases that differ, and the direction.         *)

AllowedUnder(action, cases, p) == {c \in cases : check(action, c, p)}

simulate(action, cases, current, candidate) ==
  LET before == AllowedUnder(action, cases, current)
      after  == AllowedUnder(action, cases, candidate)
  IN  [now_allowed |-> after \ before, now_denied |-> before \ after,
       unchanged   |-> Cardinality(cases \ ((after \ before) \cup (before \ after)))]

direction(s) ==
  IF s.now_denied # {} /\ s.now_allowed # {} THEN "mixed"
  ELSE IF s.now_denied # {} THEN "tighter"
  ELSE IF s.now_allowed # {} THEN "looser" ELSE "no change"
=============================================================================
