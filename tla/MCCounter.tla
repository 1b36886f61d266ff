------------------------------- MODULE MCCounter -------------------------------
(* What reaches a reviewer and on what ground: the refresh of the sanctions    *)
(* lists (SanctionsRefresh), files and posts that become cases                 *)
(* (DocumentIntake, AuditIntake), the deterministic screening of a case        *)
(* (Screening) and the reviewers' desk (Worklist), each in a small instance    *)
(* (the posts' and the screening's are MCAudit's and MCScreening's).            *)
(* They share no state, so a behaviour is about one of them, its side, and the *)
(* others stay as they began.                                                  *)
EXTENDS SanctionsRefresh, Worklist, DocumentIntake, MCAudit, MCScreening

VARIABLE side

-----------------------------------------------------------------------------
(* The lists as published, and the commands of the refresh.                    *)

MCSdn == {[ent |-> "o1", kind |-> "individual", name |-> "DOE, Jane", ids |-> {"77"}, whole |-> TRUE],
          [ent |-> "o2", kind |-> "vessel", name |-> "STAR", ids |-> {}, whole |-> TRUE]}
MCAdditions == {[ent |-> "o3", kind |-> "entity", name |-> "ZORN", ids |-> {}, whole |-> TRUE]}
MCAlt == ("o1" :> {"DOE, J", "JD"}) @@ ("o2" :> {}) @@ ("o3" :> {"ZORN TRADING"})
MCUn == {[ent |-> "u1", kind |-> "person", name |-> "KAI LO", aliases |-> {"KAI"}],
         [ent |-> "u2", kind |-> "entity", name |-> Nothing, aliases |-> {}]}
MCNatural == ("DOE, Jane" :> "Jane DOE") @@ ("DOE, J" :> "J DOE")
Rec(e, s, n, ids) == [ent |-> e, schema |-> s, caption |-> Nothing, name |-> n, aliases |-> {}, ids |-> ids]
MCFeed == <<Rec("f1", "Person", "KAI LO", {"88"}), Unreadable,
            Rec("f2", "Vessel", "STAR", {}), Rec("f3", "Company", "ZORN", {})>>
MCCommands ==
  {[source |-> "official", limit |-> 0, sample |-> 0, dry |-> FALSE, bucket |-> TRUE],
   [source |-> "official", limit |-> 0, sample |-> 0, dry |-> FALSE, bucket |-> FALSE],
   [source |-> "opensanctions", limit |-> 0, sample |-> 1, dry |-> FALSE, bucket |-> TRUE],
   [source |-> "opensanctions", limit |-> 1, sample |-> 1, dry |-> TRUE, bucket |-> TRUE]}
MCReadings == {Unreadable, [name |-> "KAI LO", ids |-> {"88"}], [name |-> "KAI LO", ids |-> {"99"}]}

-----------------------------------------------------------------------------
(* The desk: three cases and what their records say.                           *)

F(created, sla, denied, floors) ==
  [created |-> created, sla |-> sla, denied |-> denied, blocked |-> FALSE, disputed |-> FALSE, floors |-> floors]
MCFacts == (1 :> F(1, 1, FALSE, {60})) @@ (2 :> F(2, Never, TRUE, {})) @@ (3 :> F(3, 2, TRUE, {}))
MCWindows == {<<Never, Never>>, <<2, 3>>}

-----------------------------------------------------------------------------
(* The bucket: a paper with a booking, a trick and a scan without a booking;   *)
(* the listing of a sweep ends before the fourth object.                       *)

Bucket == <<"bill", "trick", "scan", "late">>
Contents ==
  [bill  |-> [own |-> TRUE, supported |-> TRUE, layer |-> "broken", windows |-> <<>>,
              patterns |-> TRUE, forbidden |-> FALSE, booking |-> "b1"],
   trick |-> [own |-> FALSE, supported |-> TRUE, layer |-> "text", windows |-> <<"clear", "match">>,
              patterns |-> FALSE, forbidden |-> FALSE, booking |-> "b2"],
   scan  |-> [own |-> TRUE, supported |-> TRUE, layer |-> "scan", windows |-> <<"clear">>,
              patterns |-> FALSE, forbidden |-> TRUE, booking |-> NoBooking],
   late  |-> [own |-> TRUE, supported |-> FALSE, layer |-> "scan", windows |-> <<>>,
              patterns |-> FALSE, forbidden |-> FALSE, booking |-> "b3"]]

-----------------------------------------------------------------------------
(* Side by side.                                                               *)

counterVars == <<refreshVars, deskVars, intakeVars, auditVars, screeningVars, side>>

CounterInit ==
  /\ side \in {"refresh", "desk", "intake", "audit", "screening"}
  /\ RefreshInit /\ DeskInit /\ IntakeInit /\ AuditInit /\ ScreeningInit
  /\ side # "screening" => <<stored, list, bundle, case.shipment>>
                            = <<CHOOSE x \in Saved : TRUE, CHOOSE x \in Lists : TRUE, {}, Plain>>

CounterNext ==
  \/ /\ side = "refresh" /\ RefreshNext
     /\ UNCHANGED <<deskVars, intakeVars, auditVars, screeningVars, side>>
  \/ /\ side = "desk" /\ DeskNext
     /\ UNCHANGED <<refreshVars, intakeVars, auditVars, screeningVars, side>>
  \/ /\ side = "intake" /\ IntakeNext
     /\ UNCHANGED <<refreshVars, deskVars, auditVars, screeningVars, side>>
  \/ /\ side = "audit" /\ AuditNext
     /\ UNCHANGED <<refreshVars, deskVars, intakeVars, screeningVars, side>>
  \/ /\ side = "screening" /\ ScreeningNext
     /\ UNCHANGED <<refreshVars, deskVars, intakeVars, auditVars, side>>

\* IntakeFairness, on its side.
Files(step) == side = "intake" /\ step
               /\ UNCHANGED <<refreshVars, deskVars, auditVars, screeningVars, side>>
CounterSpec ==
  /\ CounterInit /\ [][CounterNext]_counterVars
  /\ \A h \in Handlers : WF_counterVars(Files(IntakeStep(h))) /\ WF_counterVars(Files(sweep_bucket(h)))

\* ListedFilesAreTaken, of the behaviours that are about files.
StagedFilesAreTaken == side = "intake" => ListedFilesAreTaken

Seen == <<side, refreshVars, deskVars, intakeVars, auditVars, ScreeningSeen>>
===============================================================================
