----------------------------- MODULE ScreeningRules -----------------------------
(* The deterministic screening of a shipment: verifier.py, the sanctions index *)
(* it looks names up in (sanctions.py), the counterparty book                  *)
(* (shipper_registry.py) and the score that orchestrator.py acts on.           *)
(* A shipment is a record of what the checks read.  Names, tax numbers and     *)
(* places stand for their normalised spelling; money and weight are whole      *)
(* numbers from 0.                                                             *)
EXTENDS Integers, FiniteSets

CONSTANTS
  NoName,              \* a name, a number or a heading that states nothing
  Malformed,           \* a heading of fewer than four digits
  Alphabet,            \* the order in which the rules list the companies
  CountryOf,           \* the country a place lies in
  HUB_ALIASES,         \* the place a name of a transhipment hub stands for
  HIGH_RISK_DESTINATIONS,
  DUAL_USE_HS_PREFIXES,
  is_dual_use,         \* the headings data/hs_reference.yaml marks
  CIRCUMVENTION_WATCH, \* lanes: [hs, origins, destinations, inputs]
  LANE_BASELINES,      \* freight by <<origin, destination>> country
  DEFAULT_LANE_BASELINE,
  _BOOK,               \* the counterparty book: tax number -> [company, tx]
  Defaults             \* PrefilterRules.defaults()

Absent == -1           \* a figure that is missing or not a number
RuleLists == {"vip_registry", "blacklist_companies", "blacklist_tax_ids",
              "safe_routes", "low_value_threshold_usd"}

ASSUME ScreeningAssumption ==
  /\ DOMAIN Defaults = RuleLists
  /\ DUAL_USE_HS_PREFIXES \subseteq is_dual_use
  /\ \A lane \in DOMAIN LANE_BASELINES : LANE_BASELINES[lane] \in Nat \ {0}
  /\ DEFAULT_LANE_BASELINE \in Nat \ {0}
  /\ \A tax \in DOMAIN _BOOK : _BOOK[tax].tx \in Nat

\* PrefilterRules.from_dict: a stored document may lack a list.
from_dict(stored) ==
  [l \in RuleLists |-> IF l \in DOMAIN stored THEN stored[l] ELSE Defaults[l]]

\* A patch gives some of the lists; one that cannot be read refuses them all.
Readable(patch) == \A l \in DOMAIN patch : patch[l] # Malformed
apply_prefilter_update(current, patch) ==
  [l \in RuleLists |-> IF l \in DOMAIN patch THEN patch[l] ELSE current[l]]

\* The lists an audit entry says were changed.
prefilter_diff(before, after) == {l \in RuleLists : before[l] # after[l]}

-----------------------------------------------------------------------------
(* Findings.                                                                  *)

Finding(code, severity, floor) ==
  [code |-> code, severity |-> severity, floor |-> floor, flags |-> {}]
With(finding, flags) == [finding EXCEPT !.flags = flags]
If(condition, finding) == IF condition THEN {finding} ELSE {}
Has(finding, flag) == flag \in finding.flags

RuleClear(code)  == With(Finding(code, "CLEAR", 0), {"auto_clear_by_rules", "skip_ai"})
RuleReject(code, floor) ==
  With(Finding(code, "CRITICAL", floor), {"auto_reject_by_rules", "skip_ai"})
Observation(code) == With(Finding(code, "INFO", 0), {"observation"})

\* The company the registry holds a tax number for; the last one listed counts.
holders(vip, tax) == {c \in DOMAIN vip : vip[c] = tax /\ tax # NoName}
holder(vip, tax) ==
  CHOOSE c \in holders(vip, tax) : \A d \in holders(vip, tax) : Alphabet[d] <= Alphabet[c]

check_whitelist(s, rules) ==
  LET vip == rules.vip_registry
      known == s.company \in DOMAIN vip
      wrong_number == known /\ vip[s.company] # NoName /\ s.tax \notin {NoName, vip[s.company]}
      held == holders(vip, s.tax) # {}
      wrong_name == held /\ s.company \notin {NoName, holder(vip, s.tax)}
      mismatch == wrong_number \/ wrong_name
  IN  If(mismatch, RuleReject("WHITELIST_IDENTITY_MISMATCH", 95)) \cup
      If(~mismatch /\ (known \/ held), RuleClear("WHITELIST_MATCH"))

check_blacklist(s, rules) ==
  If(s.company \in rules.blacklist_companies, RuleReject("BLACKLIST_MATCH", 100)) \cup
  If(/\ s.company \notin rules.blacklist_companies
     /\ s.tax \in rules.blacklist_tax_ids, RuleReject("BLACKLIST_TAX_ID", 100))

LowValue(s, rules) == s.value # Absent /\ s.value < rules.low_value_threshold_usd

check_low_value_domestic(s, rules) ==
  If(/\ LowValue(s, rules)
     /\ <<s.origin, s.destination>> \in rules.safe_routes
     /\ s.hs \notin DUAL_USE_HS_PREFIXES, RuleClear("LOW_VALUE_DOMESTIC"))

lane(s) == <<CountryOf[s.origin], CountryOf[s.destination]>>
to_destination(s) == {l \in DOMAIN LANE_BASELINES : l[2] = lane(s)[2]}
lane_baseline(s) ==
  IF s.avg > 0 THEN s.avg
  ELSE IF lane(s) \in DOMAIN LANE_BASELINES THEN LANE_BASELINES[lane(s)]
  ELSE IF to_destination(s) # {} THEN LANE_BASELINES[CHOOSE l \in to_destination(s) : TRUE]
  ELSE DEFAULT_LANE_BASELINE

check_freight_ratio(s, rules) ==
  LET base == lane_baseline(s)
      Below(percent) == 100 * s.cost < percent * base
      scored == s.cost > 0 /\ ~LowValue(s, rules)
      above == scored /\ s.cost > 3 * base
  IN  If(s.cost <= 0, Finding("FREIGHT_MISSING", "HIGH", 60)) \cup
      If(scored /\ Below(25), Finding("FREIGHT_ANOMALY", "CRITICAL", 90)) \cup
      If(scored /\ ~Below(25) /\ Below(50), Finding("FREIGHT_ANOMALY", "HIGH", 75)) \cup
      If(scored /\ ~Below(50) /\ Below(70), Finding("FREIGHT_ANOMALY", "MEDIUM", 50)) \cup
      If(above /\ s.avg > 0, Finding("FREIGHT_ANOMALY", "MEDIUM", 50)) \cup
      If(above /\ ~(s.avg > 0), Observation("FREIGHT_ABOVE_LANE_TYPICAL"))

check_value_density(s) ==
  LET stated == s.value > 0 /\ s.weight > 0 IN
  If(stated /\ s.value > 500 * s.weight, Finding("VALUE_DENSITY_HIGH", "MEDIUM", 50)) \cup
  If(stated /\ s.value < s.weight, Finding("VALUE_DENSITY_LOW", "MEDIUM", 45))

check_mandatory_fields(s) ==
  If(s.tax = NoName, Finding("SHIPPER_TAX_ID_MISSING", "HIGH", 65)) \cup
  If(s.hs = NoName, Finding("HS_CODE_MISSING", "HIGH", 60)) \cup
  If(~s.described, Finding("CARGO_DESCRIPTION_MISSING", "HIGH", 60)) \cup
  If(s.shipper_country = NoName, Finding("SHIPPER_COUNTRY_MISSING", "MEDIUM", 45)) \cup
  If(s.receiver_country = NoName, Finding("RECEIVER_COUNTRY_MISSING", "MEDIUM", 45))

check_hs_code(s) ==
  If(s.hs = Malformed, Finding("HS_CODE_MALFORMED", "MEDIUM", 45)) \cup
  If(s.hs \in DUAL_USE_HS_PREFIXES, Finding("DUAL_USE_HS_CODE", "CRITICAL", 85))

\* Names found in the transit points or the route; only the name passed as
\* `exclude` is taken out of them.
distinct_hubs(names, exclude) ==
  {HUB_ALIASES[n] : n \in (names \cap DOMAIN HUB_ALIASES) \ {exclude}}

check_routing(s) ==
  LET origin == lane(s)[1]
      dest == lane(s)[2]
      through == ((s.transit \cup s.route) \cap HIGH_RISK_DESTINATIONS) \ {origin, dest}
  IN  If(dest \in HIGH_RISK_DESTINATIONS, Finding("HIGH_RISK_DESTINATION", "HIGH", 70)) \cup
      If(origin \in HIGH_RISK_DESTINATIONS /\ origin # dest,
         Finding("HIGH_RISK_ORIGIN", "HIGH", 70)) \cup
      If(through # {}, Finding("HIGH_RISK_TRANSIT", "HIGH", 70)) \cup
      If(Cardinality(distinct_hubs(s.transit, dest)) >= 2,
         Finding("MULTIPLE_DIVERSION_HUBS", "HIGH", 70)) \cup
      If(s.rerouted, Finding("ROUTE_CHANGED_AFTER_BOOKING", "HIGH", 75))

watched_lane(s) ==
  {w \in CIRCUMVENTION_WATCH :
     /\ s.hs \in w.hs
     /\ lane(s)[2] \in w.destinations
     /\ {lane(s)[1], s.shipper_country} \cap w.origins # {}}

check_origin_inputs(s) ==
  If(watched_lane(s) # {},
     With(Finding("ORIGIN_INPUTS_UNVERIFIED", "MEDIUM", 45), {"blocks_auto_clear"}))

\* shipper_registry.lookup, and what enrich() leaves on the shipment: history
\* only for a verified identity, and never from the document itself.
lookup(tax, company) ==
  IF tax \notin DOMAIN _BOOK THEN "unknown"
  ELSE IF company # _BOOK[tax].company THEN "identity_mismatch" ELSE "verified"
tx_count(s) ==
  IF lookup(s.tax, s.company) = "verified" THEN _BOOK[s.tax].tx ELSE Absent

check_counterparty(s) ==
  LET tx == tx_count(s) IN
  If(lookup(s.tax, s.company) = "identity_mismatch",
     Finding("SHIPPER_IDENTITY_MISMATCH", "HIGH", 75)) \cup
  If(tx = Absent, Finding("SHIPPER_HISTORY_UNVERIFIED", "MEDIUM", 45)) \cup
  If(tx \in {0, 1}, Finding("SHIPPER_NO_HISTORY", "HIGH", 65)) \cup
  If(tx \in 2 .. 9, Observation("SHIPPER_THIN_HISTORY")) \cup
  If(s.recent, Finding("RECENTLY_REGISTERED_SHIPPER", "HIGH", 70))

-----------------------------------------------------------------------------
(* Sanctions.  An entity is [keys, topics]; its keys are its names, aliases    *)
(* and identifiers.  An index is a set of entities; no index is the empty one, *)
(* for a list without entities counts as one that could not be read.          *)

risk_level(entity) ==
  IF "sanction" \in entity.topics THEN "CRITICAL"
  ELSE IF entity.topics \cap {"export.control", "debarment"} # {} THEN "HIGH"
  ELSE IF "sanction.linked" \in entity.topics THEN "MEDIUM" ELSE "HIGH"

screen(index, s) == {risk_level(e) : e \in {e \in index : e.keys \cap s.parties # {}}}

check_sanctions_screening(s, index) ==
  LET levels == screen(index, s) IN
  If(index = {}, Finding("SANCTIONS_SCREENING_UNAVAILABLE", "HIGH", 60)) \cup
  If("CRITICAL" \in levels,
     With(Finding("SANCTIONS_MATCH", "CRITICAL", 100), {"auto_reject_by_rules"})) \cup
  If(levels # {} /\ "CRITICAL" \notin levels, Finding("SANCTIONS_MATCH", "HIGH", 85))

-----------------------------------------------------------------------------
(* What two models say: the HS classifier [verdict, hs, sure] and the adverse  *)
(* media agent [verdict, searched, sure].  "none" is a model that was not run. *)

\* Which shipments are searched for in the press, on the facts known before.
should_screen(s, index, skipped) ==
  /\ index # {} /\ screen(index, s) = {} /\ ~skipped
  /\ \/ s.hs \in DUAL_USE_HS_PREFIXES
     \/ lane(s)[2] \in HIGH_RISK_DESTINATIONS
     \/ Cardinality(distinct_hubs(s.transit \cup s.route, s.destination)) >= 2
     \/ tx_count(s) \in {Absent, 0, 1}

check_hs_description_consistency(s, v) ==
  LET mismatch == v.verdict = "inconsistent"
      contradictory == v.hs = s.hs /\ s.hs \notin {NoName, Malformed}
      acted == mismatch /\ ~contradictory /\ v.sure
  IN  If(v.verdict = "unknown", Finding("HS_DESCRIPTION_CHECK_UNAVAILABLE", "INFO", 0)) \cup
      If(mismatch /\ contradictory, Observation("HS_DESCRIPTION_CHECK_CONTRADICTORY")) \cup
      If(mismatch /\ ~contradictory /\ ~v.sure,
         Finding("HS_DESCRIPTION_MISMATCH_LOW_CONFIDENCE", "LOW", 0)) \cup
      If(acted /\ v.hs \in is_dual_use,
         Finding("HS_DESCRIPTION_MISMATCH_DUAL_USE", "CRITICAL", 80)) \cup
      If(acted /\ v.hs \notin is_dual_use,
         Finding("HS_DESCRIPTION_MISMATCH", "MEDIUM", 40))

check_zero_day(z) ==
  If(z.verdict = "unknown", Finding("ZERO_DAY_CHECK_UNAVAILABLE", "LOW", 0)) \cup
  If(z.verdict = "no_risk_found" /\ ~z.searched,
     Finding("ZERO_DAY_SEARCH_DID_NOT_RUN", "MEDIUM", 40)) \cup
  If(z.verdict = "risk_found" /\ ~z.sure,
     Finding("ZERO_DAY_ADVERSE_MEDIA_LOW_CONFIDENCE", "LOW", 0)) \cup
  If(z.verdict = "risk_found" /\ z.sure, Finding("ZERO_DAY_ADVERSE_MEDIA", "HIGH", 70))

-----------------------------------------------------------------------------
(* The arithmetic of the floor.                                               *)

Grave(finding) == finding.severity \in {"HIGH", "CRITICAL"}
\* Mutant: a finding that asks for a person does not block.
Grave_alone(finding) == Grave(finding)

Blocking(finding) == Grave(finding) \/ Has(finding, "blocks_auto_clear")
Scored(findings) == {f \in findings : ~Has(f, "observation")}

auto_clear(findings)  == \E f \in findings : Has(f, "auto_clear_by_rules")
auto_reject(findings) == \E f \in findings : Has(f, "auto_reject_by_rules")
Contradicted(findings) ==
  \E f \in findings : Blocking(f) /\ ~Has(f, "auto_clear_by_rules")

Greatest(numbers) == CHOOSE n \in numbers : \A m \in numbers : m <= n
worst(findings) == Greatest({0} \cup {f.floor : f \in {f \in findings : ~Has(f, "skip_ai")}})

\* Several grave facts together are worse than any one of them alone.
corroboration(findings) ==
  LET high == Cardinality({f \in findings : Grave(f)}) IN
  IF high >= 3 THEN 90 ELSE IF high = 2 THEN 80 ELSE 0

_floor_for(findings) ==
  LET alone == IF auto_reject(findings) THEN 100
               ELSE IF auto_clear(findings) /\ ~Contradicted(findings) THEN 0
               ELSE worst(findings)
  IN  Greatest({alone, corroboration(findings)})

\* The models are skipped when a rule decided and nothing grave speaks against.
skip_ai(findings) ==
  /\ \E f \in findings : Has(f, "skip_ai")
  /\ \A f \in findings : Blocking(f) => Has(f, "skip_ai")

deterministic(s, rules, index) ==
  Scored(check_whitelist(s, rules) \cup check_blacklist(s, rules) \cup
         check_low_value_domestic(s, rules) \cup check_freight_ratio(s, rules) \cup
         check_value_density(s) \cup check_mandatory_fields(s) \cup check_hs_code(s) \cup
         check_routing(s) \cup check_origin_inputs(s) \cup check_counterparty(s) \cup
         check_sanctions_screening(s, index))

from_models(s, v, z) ==
  Scored(check_hs_description_consistency(s, v)) \cup check_zero_day(z)

validate(s, rules, index, v, z) ==
  LET facts == deterministic(s, rules, index)
      findings == facts \cup from_models(s, v, z)
  IN  [findings |-> findings, risk_floor |-> _floor_for(findings),
       base |-> _floor_for(facts), skip_ai |-> skip_ai(findings),
       rejected |-> auto_reject(findings)]

\* The score acted on: never under the floor, and 50 at least without a model's.
reconcile(model, floor) ==
  [effective_risk |-> Greatest({floor, IF model = Absent THEN 50 ELSE model}),
   risk_floor |-> floor,
   disputed |-> model = Absent \/ floor - model >= 15,
   vetoed |-> model # Absent /\ floor > model,
   auto_clear_permitted |-> model # Absent /\ floor = 0]
=============================================================================
