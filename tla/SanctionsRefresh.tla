---------------------------- MODULE SanctionsRefresh ----------------------------
(* scripts/refresh_sanctions.py: jobs that rebuild the sanctions index from   *)
(* what the publishers answer and put it where every instance loads it, while *)
(* the lists change, downloads fail or come back empty, jobs die and overlap. *)
(* A name stands for its normalised spelling.                                 *)
EXTENDS Integers, Sequences, FiniteSets

CONSTANTS
  Jobs,
  SdnRows,     \* OFAC's rows: [ent, kind, name, ids, whole]
  AltNames,    \* OFAC's further names, by row number: {} where a row has none
  UnRecords,   \* the UN's records: [ent, kind, name, aliases]
  Additions,   \* rows the authorities may add to either list
  Natural,     \* "LAST, First" as a shipment spells it
  Usable,      \* names long enough to be matched on
  Feed,        \* the OpenSanctions feed, a sequence of records or Unreadable
  Unreadable,
  Commands,    \* how the job is called: [source, limit, sample, dry, bucket], the
               \* last whether it is told of a bucket to publish to
  Readings,    \* what the model may read off a record, Unreadable among them
  Nothing      \* no object in the bucket, no name

VARIABLES
  lists,       \* what the publishers answer: [sdn, un]
  job,         \* [Jobs -> the job and what it holds]
  bucket       \* the published index

refreshVars == <<lists, job, bucket>>

SCREENABLE_SCHEMAS == {"Person", "Company", "Organization", "LegalEntity"}
_SKIPPED_OFAC_TYPES == {"vessel", "aircraft"}

Waiting == [phase |-> "idle"]

RefreshInit ==
  /\ lists = [sdn |-> SdnRows, un |-> UnRecords]
  /\ job = [j \in Jobs |-> Waiting]
  /\ bucket = Nothing

-----------------------------------------------------------------------------
(* Parsing.                                                                   *)

_ofac_person_name(raw) == Natural[raw]
_dedupe(values, name) == values \ {name, Nothing}

\* Mutant: a person is indexed as OFAC spells the name.
OfacEntity_as_listed(r, alt) ==
  [ent |-> r.ent, name |-> r.name, ids |-> r.ids,
   aliases |-> _dedupe(alt[r.ent] \cap Usable, r.name)]
OfacEntity(r, alt) ==
  LET individual == r.kind = "individual"
      Spelt(n) == IF individual THEN _ofac_person_name(n) ELSE n
      further == alt[r.ent] \cap Usable
  IN  [ent |-> r.ent, name |-> Spelt(r.name), ids |-> r.ids,
       aliases |-> _dedupe({Spelt(n) : n \in further} \cup
                           (IF individual THEN {r.name} \cap Usable ELSE {}), Spelt(r.name))]

parse_ofac(rows, alt) ==
  {OfacEntity(r, alt) : r \in {x \in rows : /\ x.whole
                                            /\ x.kind \notin _SKIPPED_OFAC_TYPES
                                            /\ x.name # Nothing}}

parse_un(records) ==
  {[ent |-> r.ent, name |-> r.name, ids |-> {}, aliases |-> _dedupe(r.aliases \cap Usable, r.name)] :
     r \in {x \in records : x.name # Nothing}}

\* The caption, else the first name; a record of another kind is left out.
primary(r) == IF r.caption # Nothing THEN r.caption ELSE r.name
Screenable(r) == r.schema \in SCREENABLE_SCHEMAS /\ primary(r) # Nothing
parse_deterministic(r) ==
  [ent |-> r.ent, name |-> primary(r), ids |-> r.ids,
   aliases |-> (r.aliases \cup {r.name}) \ {primary(r), Nothing}]

\* How the two readings of one record differ.
compare(code, model) ==
  [ent |-> code.ent, name_agrees |-> code.name = model.name,
   identifiers_agree |-> code.ids = model.ids,
   missed |-> code.ids \ model.ids, invented |-> model.ids \ code.ids]
summarise(comparisons) ==
  [sampled |-> Cardinality(comparisons),
   agreeing |-> Cardinality({c \in comparisons : c.identifiers_agree}),
   records_with_invented_identifiers |-> Cardinality({c \in comparisons : c.invented # {}})]

-----------------------------------------------------------------------------
(* The job.                                                                   *)

Call(j, command) ==
  /\ job[j] = Waiting
  /\ job' = [job EXCEPT ![j] =
       [phase |-> IF command.source = "official" THEN "sdn" ELSE "feed", command |-> command,
        sdn |-> {}, alt |-> <<>>, un |-> {}, read |-> 0, entities |-> {}, compared |-> {},
        errors |-> 0]]
  /\ UNCHANGED <<lists, bucket>>

\* A download that fails ends the job, as does a loss of the machine.
Dies(j) ==
  /\ job[j] # Waiting
  /\ job[j].phase # "done"
  /\ job' = [job EXCEPT ![j] = Waiting]
  /\ UNCHANGED <<lists, bucket>>

\* Each file is fetched when its turn comes; a publisher may answer an empty one.
_fetch(j, file, next, answer) ==
  /\ job[j] # Waiting
  /\ job[j].phase = file
  /\ job' = [job EXCEPT ![j][file] = answer, ![j].phase = next]
  /\ UNCHANGED <<lists, bucket>>
Fetch(j) ==
  \/ \E rows \in {lists.sdn, {}} : _fetch(j, "sdn", "alt", rows)
  \/ \E names \in {AltNames, [ent \in DOMAIN AltNames |-> {}]} : _fetch(j, "alt", "un", names)
  \/ \E records \in {lists.un, {}} : _fetch(j, "un", "build", records)

\* Mutant: the job goes on unless both lists are missing.
Whole_unless_both(ofac, un) == ofac \cup un # {}
Whole(ofac, un) == ofac # {} /\ un # {}

build_official(j) ==
  /\ job[j] # Waiting
  /\ job[j].phase = "build"
  /\ LET ofac == parse_ofac(job[j].sdn, job[j].alt)
         un == parse_un(job[j].un)
     IN  job' = IF Whole(ofac, un)
                THEN [job EXCEPT ![j].phase = "publish", ![j].entities = ofac \cup un]
                ELSE [job EXCEPT ![j] = Waiting]
  /\ UNCHANGED <<lists, bucket>>

Command(j) == job[j].command
Left(j) == IF Command(j).limit = 0 THEN Len(Feed)
           ELSE IF Command(j).limit < Len(Feed) THEN Command(j).limit ELSE Len(Feed)

\* Mutant: a sampled record enters the index as the model read it.
Kept_as_sampled(code, reading) == IF reading = Unreadable THEN code ELSE [code EXCEPT !.ids = reading.ids]
Kept(code, reading) == code

\* One record of the feed.  Unreadable lines are passed over; the records of
\* the sample are also put to the model, whose reading is only compared.
\* The code asks the model once the feed is read, which nothing here tells apart.
build_opensanctions(j, reading) ==
  /\ job[j] # Waiting
  /\ job[j].phase = "feed"
  /\ job[j].read < Left(j)
  /\ LET r == Feed[job[j].read + 1]
         kept == IF r = Unreadable THEN FALSE ELSE Screenable(r)
         sampled == kept /\ Cardinality(job[j].compared) + job[j].errors < Command(j).sample
         code == parse_deterministic(r)
     IN  /\ ~sampled => reading = Unreadable
         /\ job' = [job EXCEPT
              ![j].read = @ + 1,
              ![j].entities = IF kept THEN @ \cup {Kept(code, reading)} ELSE @,
              ![j].compared = IF sampled /\ reading # Unreadable
                              THEN @ \cup {compare(code, reading)} ELSE @,
              ![j].errors = IF sampled /\ reading = Unreadable THEN @ + 1 ELSE @]
  /\ UNCHANGED <<lists, bucket>>

FeedRead(j) ==
  /\ job[j] # Waiting
  /\ job[j].phase = "feed"
  /\ job[j].read = Left(j)
  /\ job' = [job EXCEPT ![j].phase = "publish"]
  /\ UNCHANGED <<lists, bucket>>

\* An index without entities is refused, and one without a bucket goes nowhere.
publish(j) ==
  /\ job[j] # Waiting
  /\ job[j].phase = "publish"
  /\ bucket' = IF Command(j).dry \/ job[j].entities = {} \/ ~Command(j).bucket THEN bucket
               ELSE [source |-> Command(j).source, entities |-> job[j].entities,
                     divergence |-> summarise(job[j].compared)]
  /\ job' = [job EXCEPT ![j] = [phase |-> "done"]]
  /\ UNCHANGED lists

\* The authorities designate somebody else.
Designate(r) ==
  /\ r \notin lists.sdn
  /\ lists' = [lists EXCEPT !.sdn = @ \cup {r}]
  /\ UNCHANGED <<job, bucket>>

RefreshNext ==
  \/ \E j \in Jobs :
       \/ \E command \in Commands : Call(j, command)
       \/ Dies(j) \/ Fetch(j) \/ build_official(j) \/ FeedRead(j) \/ publish(j)
       \/ \E reading \in Readings : build_opensanctions(j, reading)
  \/ \E r \in Additions : Designate(r)

RefreshSpec == RefreshInit /\ [][RefreshNext]_refreshVars

-----------------------------------------------------------------------------
Names(index) == IF index = Nothing THEN {}
                ELSE UNION {{e.name} \cup e.aliases : e \in index.entities}
Spelling(r) == IF r.kind = "individual" THEN Natural[r.name] ELSE r.name

\* The parties designated throughout, as a shipment spells them.
Standing == {Spelling(r) : r \in {x \in SdnRows \cup UnRecords :
                                    x.kind \notin _SKIPPED_OFAC_TYPES /\ x.name # Nothing}}

\* "An index silently missing the UN list would answer CLEAN for every UN-only
\* designation" (refresh_sanctions.py:434-438): whatever fails, dies or
\* overlaps, no refresh from the official lists leaves a party that both stays
\* designated and is a counterparty out of the index, and none empties it.
StaysInForce ==
  [][bucket' # bucket =>
       /\ bucket'.entities # {}
       /\ bucket'.source = "official" => Standing \subseteq Names(bucket')]_refreshVars

\* Not kept (README, section 6): an official index has the further names too.
\* A list of them that comes back empty is published all the same.
AliasesStayInForce ==
  bucket # Nothing /\ bucket.source = "official" =>
    \A e \in parse_ofac(SdnRows, AltNames) : e.aliases \subseteq Names(bucket)

\* Screening matches on nothing the publishers did not print: an identifier a
\* model read into a record stays in the comparison (refresh_sanctions.py:150,
\* 300-306).
OnlyWhatWasPrinted ==
  bucket # Nothing =>
    \A e \in bucket.entities : e.ids \subseteq
       UNION {r.ids : r \in {x \in SdnRows \cup Additions : x.ent = e.ent} \cup
                           {Feed[i] : i \in {k \in DOMAIN Feed : Feed[k] # Unreadable /\ Feed[k].ent = e.ent}}}
=============================================================================
