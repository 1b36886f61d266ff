---------------------------- MODULE OriginEvidence ----------------------------
(* verifier.check_origin_evidence: what the papers a shipper sent about the   *)
(* origin of the goods show.  A paper is a record of what the reader could    *)
(* make out: a field holds the set of countries, or of producers, it states   *)
(* after canonical spelling, and a field that says nothing holds none.        *)
EXTENDS ScreeningRules

ORIGIN_EVIDENCE_DOCS ==
  {"certificate_of_origin", "producer_declaration", "input_purchase_invoices"}

\* The country a field states, as a set: none when it states several.
_stated_country(names) == IF Cardinality(names) = 1 THEN names ELSE {}
_names_several_countries(names) == Cardinality(names) > 1

\* The fields each type of paper must state to count.
_REQUIRED_FIELDS(d) ==
  /\ d.doc_type = "certificate_of_origin" => d.origin_country # {}
  /\ d.doc_type = "producer_declaration" => d.producer # {} /\ d.input_origins # {}
  /\ d.doc_type = "input_purchase_invoices" =>
        d.supplier /\ d.goods_origin \cup d.supplier_country # {}

\* Mutant: a paper read in part counts.
counts_in_part(d) ==
  /\ _REQUIRED_FIELDS(d)
  /\ \A names \in {d.origin_country, d.goods_origin, d.supplier_country} :
        ~_names_several_countries(names)

\* A paper counts when all its pages were read, it states what its type must,
\* and each field that names a country names one.
counts(d) ==
  /\ ~d.read_in_part
  /\ _REQUIRED_FIELDS(d)
  /\ \A names \in {d.origin_country, d.goods_origin, d.supplier_country} :
        ~_names_several_countries(names)

present(papers) == {d.doc_type : d \in {d \in papers : counts(d)}} \cap ORIGIN_EVIDENCE_DOCS
missing(papers) == ORIGIN_EVIDENCE_DOCS \ present(papers)

\* The origin the shipment declares, and the origins an authority watches it for.
declared(s) == IF lane(s)[1] # NoName THEN lane(s)[1] ELSE s.shipper_country
watched(s) == {w.inputs : w \in watched_lane(s)}

\* An invoice's goods origin, or its supplier's country when it states none.
invoice_origin(d) ==
  IF _stated_country(d.goods_origin) # {} THEN _stated_country(d.goods_origin)
  ELSE _stated_country(d.supplier_country)

\* Contradictions are read from every paper, also from one that does not count.
Contradicts(s, d) ==
  \/ /\ d.doc_type = "certificate_of_origin"
     /\ declared(s) # NoName
     /\ _stated_country(d.origin_country) \notin {{}, {declared(s)}}
  \/ /\ d.doc_type = "producer_declaration"
     /\ d.input_origins \cap watched(s) # {}
  \/ /\ d.doc_type = "input_purchase_invoices"
     /\ invoice_origin(d) \cap watched(s) # {}

producers(papers, types) == UNION {d.producer : d \in {d \in papers : d.doc_type \in types}}
producer_mismatch(papers) ==
  LET certified == producers(papers, {"certificate_of_origin"})
      others == producers(papers, ORIGIN_EVIDENCE_DOCS \ {"certificate_of_origin"})
  IN  certified # {} /\ others # {} /\ certified \cap others = {}

\* Mutant: only a paper that counts can contradict.
evidence_findings_counted(s, papers) ==
  If(\E d \in papers : counts(d) /\ Contradicts(s, d),
     Finding("ORIGIN_EVIDENCE_CONTRADICTION", "HIGH", 80))

evidence_findings(s, papers) ==
  If(\E d \in papers : Contradicts(s, d),
     Finding("ORIGIN_EVIDENCE_CONTRADICTION", "HIGH", 80)) \cup
  If(producer_mismatch(papers), Finding("ORIGIN_PRODUCER_MISMATCH", "HIGH", 75))

check_origin_evidence(s, papers) ==
  IF evidence_findings(s, papers) # {} THEN "contradicted"
  ELSE IF missing(papers) = {} THEN "provided" ELSE "missing"
=============================================================================
