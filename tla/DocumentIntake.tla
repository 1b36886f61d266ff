----------------------------- MODULE DocumentIntake -----------------------------
(* How a file becomes a case: uploads, notifications of the bucket and sweeps *)
(* over it (orchestrator.ingest_document, ingest_from_storage, sweep_bucket), *)
(* with Model Armor's screening and the marker that says a file was taken.    *)
(* Notifications repeat, handlers overlap and die.  What the worker does with *)
(* the case afterwards is CasePipeline's.                                     *)
EXTENDS Integers, Sequences, FiniteSets

CONSTANTS
  Handlers,
  Stage,        \* the objects of the bucket, as a listing gives them
  Content,        \* [objects -> what is in the file: [own, supported, layer, windows,
                \*             patterns, forbidden, booking]], `layer' of
                \*             {"text", "broken", "scan"}
  limit,        \* what a sweep takes at most
  MODEL_ARMOR,  \* whether a template is configured
  MaxEvents,    \* bound: uploads and notifications
  MaxFaults     \* bound: failed calls and deaths of a handler

Objects == {Stage[i] : i \in DOMAIN Stage}
NoBooking == "not stated"

\* The bucket has objects, and what lies in one can be told.
ASSUME IntakeAssumption ==
  /\ Stage \in Seq(Objects) /\ Stage # <<>>
  /\ \A o \in Objects :
        /\ Content[o].layer \in {"text", "broken", "scan"}
        /\ Content[o].patterns \in BOOLEAN /\ Content[o].forbidden \in BOOLEAN
  /\ limit \in Nat \ {0}

VARIABLES
  opened,       \* the cases: [state, requires_human, model_invoked], by case id
  markers,      \* [objects -> the case a marker links, NoCase or Unmarked]
  hand,         \* [Handlers -> where the handler is]
  serial,       \* ids made up so far
  flagged,      \* cases whose intake wrote what its screens said: history
  undone,       \* of those, the ones opened anew by a handler that died: history
  events, mishaps

history == <<flagged, undone>>
intakeVars == <<opened, markers, hand, serial, history, events, mishaps>>

Unmarked == <<"no marker">>
NoCase == <<"no case">>
NoVerdict == [blocked |-> FALSE, available |-> FALSE, requires_human |-> FALSE]
Ingested == [state |-> "INGESTED", requires_human |-> FALSE, model_invoked |-> FALSE]
Free == [phase |-> "free", object |-> Stage[1], names |-> <<>>, sweeping |-> FALSE, taken |-> 0, staged |-> TRUE,
         screened |-> FALSE, armor |-> NoVerdict, case |-> NoCase, copy |-> Ingested]

IntakeInit ==
  /\ opened = <<>>
  /\ markers = [o \in Objects |-> Unmarked]
  /\ hand = [h \in Handlers |-> Free]
  /\ serial = 0
  /\ flagged = {} /\ undone = {}
  /\ events = 0
  /\ mishaps = 0

-----------------------------------------------------------------------------
(* Screening.                                                                 *)

\* The whole text and then its windows, each a call; `lost' are the calls that
\* fail.  The patterns alone ask for a person, and so does a screen of nothing.
armor_screen(text, lost) ==
  LET answered == DOMAIN text.windows \ lost
      blocked == \E i \in answered : text.windows[i] = "match"
  IN  IF ~MODEL_ARMOR THEN NoVerdict
      ELSE [blocked |-> blocked, available |-> answered # {},
            requires_human |-> text.patterns \/ answered = {}]

\* The schema's own screen of what was transcribed, and Model Armor's verdict.
Flagged(h) ==
  \/ Content[hand[h].object].patterns
  \/ Content[hand[h].object].forbidden
  \/ hand[h].armor.blocked
  \/ hand[h].armor.requires_human

-----------------------------------------------------------------------------
(* The handler's way through a file.                                          *)

At(h, phase) == hand[h].phase = phase
Goes(h, next) == hand' = [hand EXCEPT ![h] = next]
\* A sweep goes on with its listing, another handler answers.
Leave(h) == Goes(h, IF hand[h].sweeping
                    THEN [Free EXCEPT !.phase = "sweep", !.sweeping = TRUE,
                                      !.names = hand[h].names, !.taken = hand[h].taken]
                    ELSE Free)
Failing(n) == mishaps + n <= MaxFaults /\ mishaps' = mishaps + n

\* ingest_refusal: another tenant's object, or output of the service itself.
ingest_refusal(o) == ~Content[o].own

\* event_storage.  Nothing keeps a second notification of one object away.
Notified(h, o) ==
  /\ At(h, "free")
  /\ events < MaxEvents
  /\ ~ingest_refusal(o)
  /\ Content[o].supported
  /\ events' = events + 1
  /\ Goes(h, [Free EXCEPT !.phase = "check", !.object = o])
  /\ UNCHANGED <<opened, markers, serial, history, mishaps>>

\* event_document: an upload has no marker and looks for none.
Uploaded(h, o) ==
  /\ At(h, "free")
  /\ events < MaxEvents
  /\ Content[o].supported
  /\ events' = events + 1
  /\ Goes(h, [Free EXCEPT !.phase = "screen", !.object = o, !.staged = FALSE])
  /\ UNCHANGED <<opened, markers, serial, history, mishaps>>

\* Mutant: as many names are listed as files are wanted.
list_objects_exact == IF Len(Stage) < limit THEN Stage ELSE SubSeq(Stage, 1, limit)
list_objects == IF Len(Stage) < 3 * limit THEN Stage ELSE SubSeq(Stage, 1, 3 * limit)

sweep_bucket(h) ==
  /\ At(h, "free")
  /\ Goes(h, [Free EXCEPT !.phase = "sweep", !.sweeping = TRUE, !.names = list_objects])
  /\ UNCHANGED <<opened, markers, serial, history, events, mishaps>>

\* The next name: past the limit the sweep is over, a file taken is passed over.
SweepOn(h) ==
  /\ At(h, "sweep")
  /\ LET names == hand[h].names IN
     Goes(h, IF names = <<>> \/ hand[h].taken = limit THEN Free
             ELSE IF ingest_refusal(Head(names)) \/ markers[Head(names)] # Unmarked
             THEN [hand[h] EXCEPT !.names = Tail(names)]
             ELSE [hand[h] EXCEPT !.names = Tail(names), !.object = Head(names),
                                  !.taken = @ + 1, !.phase = "check"])
  /\ UNCHANGED <<opened, markers, serial, history, events, mishaps>>

\* ingest_from_storage: the marker, then the bytes; a file not read stays open.
CheckMarker(h) ==
  /\ At(h, "check")
  /\ IF markers[hand[h].object] # Unmarked THEN Leave(h)
     ELSE Goes(h, [hand[h] EXCEPT !.phase = "fetch"])
  /\ UNCHANGED <<opened, markers, serial, history, events, mishaps>>

fetch(h) ==
  /\ At(h, "fetch")
  /\ \/ Goes(h, [hand[h] EXCEPT !.phase = "screen"]) /\ UNCHANGED mishaps
     \/ Leave(h) /\ Failing(1)
  /\ UNCHANGED <<opened, markers, serial, history, events>>

\* A text layer is screened before a model sees the file and one that cannot be
\* read is a person's; a scan has none.  A file that is blocked is not read.
PreScreen(h) ==
  /\ At(h, "screen")
  /\ LET text == Content[hand[h].object] IN
     CASE text.layer = "text" ->
            \E lost \in SUBSET DOMAIN text.windows :
              LET verdict == armor_screen(text, lost) IN
              /\ Goes(h, [hand[h] EXCEPT !.armor = verdict, !.screened = TRUE,
                           !.phase = IF verdict.blocked THEN "open" ELSE "read"])
              /\ Failing(Cardinality(lost))
       [] text.layer = "broken" ->
            /\ Goes(h, [hand[h] EXCEPT !.armor.requires_human = TRUE, !.screened = TRUE,
                         !.phase = "read"])
            /\ UNCHANGED mishaps
       [] text.layer = "scan" ->
            Goes(h, [hand[h] EXCEPT !.phase = "read"]) /\ UNCHANGED mishaps
  /\ UNCHANGED <<opened, markers, serial, history, events>>

\* The screen of a scan's transcription, where no text layer was screened.
PostScreen(h, lost) ==
  IF hand[h].screened THEN hand[h].armor ELSE armor_screen(Content[hand[h].object], lost)

\* extract_shipment.  A reply that is no record ends the intake, and the file is
\* marked all the same.
Transcribe(h) ==
  /\ At(h, "read")
  /\ \/ \E lost \in SUBSET DOMAIN Content[hand[h].object].windows :
          /\ hand[h].screened => lost = {}
          /\ Failing(Cardinality(lost))
          /\ Goes(h, [hand[h] EXCEPT !.phase = "open", !.armor = PostScreen(h, lost)])
     \/ Failing(1) /\ Goes(h, [hand[h] EXCEPT !.phase = "mark", !.case = NoCase])
  /\ UNCHANGED <<opened, markers, serial, history, events>>

\* Refused on its text layer: the file was not read, and a person gets it.
Stopped(h) == hand[h].screened /\ hand[h].armor.blocked

\* The case is keyed by the booking; without one an id is made up, and so it is
\* for a file that was not read.
case_id(h) ==
  IF Stopped(h) \/ Content[hand[h].object].booking = NoBooking THEN <<"made up", serial>>
  ELSE <<"booking", Content[hand[h].object].booking>>

\* Mutant: a case that is there is taken for one whose intake is finished.
FindCase_finished(h) ==
  /\ At(h, "open")
  /\ LET id == case_id(h) IN
     /\ serial' = IF id = <<"made up", serial>> THEN serial + 1 ELSE serial
     /\ Goes(h, [hand[h] EXCEPT !.case = id,
                  !.phase = IF id \in DOMAIN opened THEN "mark" ELSE "put"])
  /\ UNCHANGED <<opened, markers, history, events, mishaps>>

\* ingest_shipment returns the case that is there; it builds one where none is.
FindCase(h) ==
  /\ At(h, "open")
  /\ LET id == case_id(h) IN
     /\ serial' = IF id = <<"made up", serial>> THEN serial + 1 ELSE serial
     /\ Goes(h, IF id \in DOMAIN opened
                THEN [hand[h] EXCEPT !.phase = "flag", !.case = id, !.copy = opened[id]]
                ELSE [hand[h] EXCEPT !.phase = "put", !.case = id, !.copy = Ingested])
  /\ UNCHANGED <<opened, markers, history, events, mishaps>>

\* It puts the new case whatever was stored since: put_case compares nothing.
OpenCase(h) ==
  /\ At(h, "put")
  /\ opened' = [i \in DOMAIN opened \cup {hand[h].case} |->
                 IF i = hand[h].case THEN hand[h].copy ELSE opened[i]]
  /\ Goes(h, [hand[h] EXCEPT !.phase = "flag"])
  /\ UNCHANGED <<markers, serial, history, events, mishaps>>

\* What the screens said is written with the copy of the first write or of the
\* read, whatever has become of the case since; this put compares nothing either.
FlagCase(h) ==
  /\ At(h, "flag")
  /\ opened' = [opened EXCEPT ![hand[h].case] =
       [hand[h].copy EXCEPT !.requires_human = @ \/ Stopped(h) \/ Flagged(h),
                            !.model_invoked = ~Stopped(h),
                            !.state = IF Stopped(h) THEN "PENDING_HUMAN" ELSE @]]
  /\ Goes(h, [hand[h] EXCEPT !.phase = "mark"])
  /\ flagged' = flagged \cup {hand[h].case}
  /\ undone' = undone \ {hand[h].case}
  /\ UNCHANGED <<markers, serial, events, mishaps>>

\* The marker comes last, so that a death before it leaves the file to be taken.
Mark(h) ==
  /\ At(h, "mark")
  /\ markers' = IF hand[h].staged THEN [markers EXCEPT ![hand[h].object] = hand[h].case]
                ELSE markers
  /\ Leave(h)
  /\ UNCHANGED <<opened, serial, history, events, mishaps>>

Die(h) ==
  /\ ~At(h, "free")
  /\ Failing(1)
  /\ Goes(h, Free)
  /\ undone' = undone \cup {c \in flagged : /\ At(h, "flag") /\ c = hand[h].case
                                           /\ ~opened[c].requires_human}
  /\ UNCHANGED <<opened, markers, serial, flagged, events>>

IntakeStep(h) ==
  \/ SweepOn(h) \/ CheckMarker(h) \/ fetch(h) \/ PreScreen(h) \/ Transcribe(h)
  \/ FindCase(h) \/ OpenCase(h) \/ FlagCase(h) \/ Mark(h)

IntakeNext ==
  \E h \in Handlers :
    \/ \E o \in Objects : Notified(h, o) \/ Uploaded(h, o)
    \/ sweep_bucket(h) \/ IntakeStep(h) \/ Die(h)

IntakeSpec == IntakeInit /\ [][IntakeNext]_intakeVars

\* A request that was begun goes on, and somebody sweeps again and again:
\* sweep_bucket is an operator's call and no schedule of the service's.
IntakeFairness == \A h \in Handlers : WF_intakeVars(IntakeStep(h)) /\ WF_intakeVars(sweep_bucket(h))
IntakeFairSpec == IntakeSpec /\ IntakeFairness

-----------------------------------------------------------------------------
(* Properties.                                                                *)

Suspicious(o) == Content[o].patterns \/ Content[o].forbidden

\* What the screens of a file ask for is lost in one way only.  Once a marker links
\* a case, the case of a file that carries an injection pattern or a forbidden field
\* is a person's, or a delivery that had found no case has put it anew and stands
\* before its second write, or died there (ingest_document, whose two writes compare
\* no version).  It holds where no two files state one booking: two that do share a
\* case, and the last write of one takes the mark of the other back.
FlagSticks ==
  \A o \in Objects :
    markers[o] \in DOMAIN opened /\ Suspicious(o) =>
      \/ opened[markers[o]].requires_human
      \/ \E h \in Handlers : At(h, "flag") /\ hand[h].case = markers[o]
      \/ markers[o] \in undone

\* Every file of the tenant's within the listing of a sweep, the first 3 * limit
\* names, is taken in the end, as long as somebody sweeps and however handlers die
\* (sweep_bucket).
ListedFilesAreTaken ==
  \A i \in DOMAIN Stage : i <= 3 * limit /\ Content[Stage[i]].own => <>(markers[Stage[i]] # Unmarked)

-----------------------------------------------------------------------------
(* What the code's own text says and its writes and its listing do not keep.  *)

\* A document flagged for mandatory human review stays flagged.
FlagIsKept ==
  \A o \in Objects :
    markers[o] \in DOMAIN opened /\ Suspicious(o) => opened[markers[o]].requires_human

\* A sweep takes what lies on the stage, wherever in the listing it stands.
EveryFileIsTaken == \A o \in Objects : Content[o].own => <>(markers[o] # Unmarked)

\* A marker stands for a case: "Write the marker only after intake, so a failed
\* read can be retried" (orchestrator.py, ingest_from_storage).
MarkedHasACase == \A o \in Objects : markers[o] # Unmarked => markers[o] \in DOMAIN opened

=============================================================================
