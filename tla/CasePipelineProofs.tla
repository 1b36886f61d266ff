------------------------ MODULE CasePipelineProofs ------------------------
(***************************************************************************)
(* What the states of a case and the announcements rest on, for any number *)
(* of drains, ticks, deliveries, uploads and reviewers and for every bound. *)
(***************************************************************************)
EXTENDS CasePipeline, SequenceTheorems, TLAPS

-----------------------------------------------------------------------------
(* StateIsBacked is not inductive: a write makes the state of a copy the    *)
(* state of the case, so the copies have to be backed already, and a pack   *)
(* on its way has to be about to back its outcome.                          *)

Backed(s, rows) == s \in DOMAIN Backing => Row(Backing[s], s) \in rows

\* The tool that backs the outcome has run or is the next one of the pack.
OnItsWay(k, rows) ==
  /\ k.left # <<>>
  /\ k.outcome \in DOMAIN Backing =>
       Row(Backing[k.outcome], k.outcome) \in rows \/ Head(k.left) = Backing[k.outcome]

\* The copy, place and pack of a handler fit the stored case and the audit rows.
Fits(c, p, k, case, rows) ==
  /\ p \notin {"idle", "opening", "done"} => case # NoCase
  /\ p \notin {"idle", "opening", "found", "done"} => c # NoCase
  /\ c # NoCase => Backed(c.state, rows)
  /\ p = "acting" => OnItsWay(k, rows)

HandlersFit == \A h \in Handlers : Fits(copy[h], pc[h], pack[h], stored, audit)

IInv == CaseTyped /\ StateIsBacked /\ AnnouncedWasDone /\ HandlersFit

LEMMA BackingIs ==
  /\ DOMAIN Backing = {"AUTO_CLEARED", "ESCALATED", "RELEASED_BY_HUMAN", "BLOCKED_BY_HUMAN"}
  /\ Backing["AUTO_CLEARED"] = "release_shipment"
  /\ Backing["ESCALATED"] = "hold_shipment"
  /\ Backing["RELEASED_BY_HUMAN"] = "release_shipment"
  /\ Backing["BLOCKED_BY_HUMAN"] = "hold_shipment"
BY DEF Backing

\* A case that is open stays open and rows stay, so whoever fits goes on to fit.
LEMMA FitsOn ==
  ASSUME NEW c, NEW p, NEW k, NEW case, NEW case2, NEW rows, NEW rows2,
         Fits(c, p, k, case, rows), case # NoCase => case2 # NoCase, rows \subseteq rows2
  PROVE  Fits(c, p, k, case2, rows2)
BY DEF Fits, Backed, OnItsWay

\* What every step of a handler h has to show.
LEMMA StepKeeps ==
  ASSUME IInv, NEW h \in Handlers,
         NEW c \in CaseRec \cup {NoCase}, NEW p \in Places, NEW k \in PackRec,
         copy' = [copy EXCEPT ![h] = c],
         pc'   = [pc EXCEPT ![h] = p],
         pack' = [pack EXCEPT ![h] = k],
         stored' \in CaseRec \cup {NoCase}, stored # NoCase => stored' # NoCase,
         stored' # NoCase => Backed(stored'.state, audit'),
         audit \subseteq audit', audit' \subseteq Rows, AnnouncedWasDone',
         Fits(c, p, k, stored', audit'),
         faults' \in 0..MaxFaults, reviews' \in 0..MaxReviews,
         flags' \subseteq {"injection", "blocked"}
  PROVE  IInv'
<1>1. CaseTyped' BY DEF IInv, CaseTyped
<1>2. StateIsBacked' BY DEF StateIsBacked, Exists, Backed
<1>3. HandlersFit'
  <2> SUFFICES ASSUME NEW g \in Handlers
               PROVE  Fits(copy'[g], pc'[g], pack'[g], stored', audit')
      BY DEF HandlersFit
  <2>1. CASE g = h BY <2>1 DEF IInv, CaseTyped
  <2>2. CASE g # h
    <3>1. Fits(copy[g], pc[g], pack[g], stored, audit) BY DEF IInv, HandlersFit
    <3>2. copy'[g] = copy[g] /\ pc'[g] = pc[g] /\ pack'[g] = pack[g]
          BY <2>2 DEF IInv, CaseTyped
    <3> QED BY <3>1, <3>2, FitsOn
  <2> QED BY <2>1, <2>2
<1> QED BY <1>1, <1>2, <1>3 DEF IInv

\* A step that neither writes the case nor adds a row.
LEMMA QuietStepKeeps ==
  ASSUME IInv, NEW h \in Handlers,
         NEW c \in CaseRec \cup {NoCase}, NEW p \in Places, NEW k \in PackRec,
         copy' = [copy EXCEPT ![h] = c],
         pc'   = [pc EXCEPT ![h] = p],
         pack' = [pack EXCEPT ![h] = k],
         UNCHANGED <<stored, audit>>,
         Fits(c, p, k, stored, audit),
         faults' \in 0..MaxFaults, reviews' \in 0..MaxReviews, UNCHANGED flags
  PROVE  IInv'
<1>1. /\ stored \in CaseRec \cup {NoCase} /\ audit \subseteq Rows
      /\ flags \subseteq {"injection", "blocked"}
      BY DEF IInv, CaseTyped
<1>2. stored # NoCase => Backed(stored.state, audit)
      BY DEF IInv, StateIsBacked, Exists, Backed
<1>3. AnnouncedWasDone' BY DEF IInv, AnnouncedWasDone
<1> QED BY <1>1, <1>2, <1>3, StepKeeps

\* A step that writes the case, as `new`, and adds no row.
LEMMA WriteKeeps ==
  ASSUME IInv, NEW h \in Handlers,
         NEW c \in CaseRec \cup {NoCase}, NEW p \in Places, NEW k \in PackRec,
         copy' = [copy EXCEPT ![h] = c],
         pc'   = [pc EXCEPT ![h] = p],
         pack' = [pack EXCEPT ![h] = k],
         NEW new \in CaseRec, stored' = new, Backed(new.state, audit), UNCHANGED audit,
         Fits(c, p, k, new, audit),
         UNCHANGED <<faults, reviews>>, flags' \subseteq {"injection", "blocked"}
  PROVE  IInv'
<1>1. new # NoCase BY NoCaseIsNoRecord
<1>2. /\ audit \subseteq Rows /\ faults \in 0..MaxFaults /\ reviews \in 0..MaxReviews
      BY DEF IInv, CaseTyped
<1>3. AnnouncedWasDone' BY DEF IInv, AnnouncedWasDone
<1> QED BY <1>1, <1>2, <1>3, StepKeeps

\* A handler that is done fits every case.
LEMMA LeaveKeeps ==
  ASSUME IInv, NEW h \in Handlers, Leave(h),
         stored' \in CaseRec \cup {NoCase}, stored # NoCase => stored' # NoCase,
         stored' # NoCase => Backed(stored'.state, audit'),
         audit \subseteq audit', audit' \subseteq Rows, AnnouncedWasDone',
         faults' \in 0..MaxFaults, reviews' \in 0..MaxReviews, UNCHANGED flags
  PROVE  IInv'
<1> DEFINE p == IF h \in Uploads THEN "done" ELSE "idle"
<1>1. p \in Places BY DEF Places
<1>2. NoPack \in PackRec BY DEF NoPack, PackRec, CaseStates, ACTIONABLE
<1>3. Fits(NoCase, p, NoPack, stored', audit') BY DEF Fits
<1>4. flags' \subseteq {"injection", "blocked"} BY DEF IInv, CaseTyped
<1>5. /\ copy' = [copy EXCEPT ![h] = NoCase] /\ pc' = [pc EXCEPT ![h] = p]
      /\ pack' = [pack EXCEPT ![h] = NoPack]
      BY DEF Leave
<1> QED BY <1>1, <1>2, <1>3, <1>4, <1>5, StepKeeps


-----------------------------------------------------------------------------
(* The actions                                                             *)

LEMMA HandlerFacts ==
  ASSUME IInv, NEW h \in Handlers
  PROVE  /\ copy[h] \in CaseRec \cup {NoCase} /\ pc[h] \in Places /\ pack[h] \in PackRec
         /\ Fits(copy[h], pc[h], pack[h], stored, audit)
         /\ copy = [copy EXCEPT ![h] = copy[h]]
         /\ pc = [pc EXCEPT ![h] = pc[h]]
         /\ pack = [pack EXCEPT ![h] = pack[h]]
BY DEF IInv, CaseTyped, HandlersFit

LEMMA StateFacts ==
  ASSUME IInv
  PROVE  /\ stored \in CaseRec \cup {NoCase} /\ audit \subseteq Rows
         /\ stored # NoCase => Backed(stored.state, audit)
         /\ faults \in 0..MaxFaults /\ reviews \in 0..MaxReviews
         /\ flags \subseteq {"injection", "blocked"}
         /\ AnnouncedWasDone
BY DEF IInv, CaseTyped, StateIsBacked, Exists, Backed

LEMMA NewCaseFits == NewCase \in CaseRec /\ \A rows : Backed(NewCase.state, rows)
BY BackingIs DEF NewCase, CaseRec, CaseStates, ACTIONABLE, Backed

\* put_case without a version.
LEMMA PutBlindKeeps ==
  ASSUME IInv, NEW h \in Handlers, NEW new \in CaseRec, NEW place \in Places \ {"acting"},
         PutBlind(h, new, place), Backed(new.state, audit),
         UNCHANGED <<audit, pack, faults, reviews>>, flags' \subseteq {"injection", "blocked"}
  PROVE  IInv'
<1> DEFINE c == [new EXCEPT !.version = 1]
<1>1. c \in CaseRec /\ c.state = new.state /\ c # NoCase BY NoCaseIsNoRecord DEF CaseRec
<1>2. /\ stored' = c /\ copy' = [copy EXCEPT ![h] = c] /\ pc' = [pc EXCEPT ![h] = place]
      BY DEF PutBlind
<1>3. pack[h] \in PackRec /\ pack' = [pack EXCEPT ![h] = pack[h]] BY HandlerFacts
<1>4. Fits(c, place, pack[h], c, audit) BY <1>1 DEF Fits
<1> HIDE DEF c
<1> QED BY <1>1, <1>2, <1>3, <1>4, WriteKeeps

\* put_case with the version of the copy.
LEMMA PutKeeps ==
  ASSUME IInv, NEW h \in Handlers, NEW place \in Places \ {"acting"}, NEW k \in PackRec,
         copy[h] # NoCase, Put(h, copy[h], place), pack' = [pack EXCEPT ![h] = k],
         UNCHANGED <<audit, faults, reviews, flags>>
  PROVE  IInv'
<1> DEFINE c == written(h, copy[h])
<1>1. copy[h] \in CaseRec /\ Backed(copy[h].state, audit) BY HandlerFacts DEF Fits
<1>2. c \in CaseRec /\ c.state = copy[h].state /\ c # NoCase
      BY <1>1, NoCaseIsNoRecord DEF written, CaseRec
<1>3. /\ stored' = c /\ copy' = [copy EXCEPT ![h] = c] /\ pc' = [pc EXCEPT ![h] = place]
      BY DEF Put
<1>4. Fits(c, place, k, c, audit) BY <1>1, <1>2 DEF Fits
<1>5. flags' \subseteq {"injection", "blocked"} BY StateFacts
<1> HIDE DEF c
<1> QED BY <1>1, <1>2, <1>3, <1>4, <1>5, WriteKeeps

LEMMA IntakeKeeps == ASSUME IInv, NEW i \in Intakes, IntakeStep(i) PROVE IInv'
<1>1. i \in Handlers BY DEF Handlers, Workers
<1>2. CASE Receive(i)
  <2> DEFINE p == IF ~Exists THEN "opening"
                  ELSE IF i \in Uploads THEN "annotating" ELSE "ready"
  <2>1. p \in Places /\ (stored # NoCase \/ p = "opening") /\ p # "acting" BY DEF Places, Exists
  <2>2. copy' = [copy EXCEPT ![i] = stored] /\ pc' = [pc EXCEPT ![i] = p]
        BY <1>2 DEF Receive, Get
  <2>3. pack[i] \in PackRec /\ pack' = [pack EXCEPT ![i] = pack[i]]
        BY <1>1, <1>2, HandlerFacts DEF Receive
  <2> HIDE DEF p
  <2>4. Fits(stored, p, pack[i], stored, audit) BY <2>1, StateFacts DEF Fits
  <2> QED BY <1>1, <1>2, <2>1, <2>2, <2>3, <2>4, StateFacts, QuietStepKeeps DEF Receive
<1>3. CASE Open(i)
  <2> DEFINE place == IF i \in Uploads THEN "annotating" ELSE "ready"
  <2>1. place \in Places \ {"acting"} BY DEF Places
  <2>2. flags' \subseteq {"injection", "blocked"} BY <1>3, StateFacts DEF Open
  <2> QED BY <1>1, <1>3, <2>1, <2>2, NewCaseFits, PutBlindKeeps DEF Open
<1> QED BY <1>2, <1>3 DEF IntakeStep

LEMMA UploadKeeps == ASSUME IInv, NEW u \in Uploads, UploadStep(u) PROVE IInv'
<1>1. u \in Handlers BY DEF Handlers, Workers, Intakes
<1>2. {"again", "blocking"} \subseteq Places \ {"acting"} BY DEF Places
<1>3. pc[u] \in {"annotating", "blocking"} => copy[u] \in CaseRec /\ Backed(copy[u].state, audit)
      BY <1>1, HandlerFacts DEF Fits
<1>4. ASSUME Annotate(u) PROVE IInv'
  <2> PICK injection, advice \in BOOLEAN :
         /\ pc[u] = "annotating"
         /\ PutBlind(u, annotated(copy[u], injection, advice), "again")
         /\ flags' = flags \cup (IF injection THEN {"injection"} ELSE {})
         /\ UNCHANGED <<audit, pack, faults, reviews>>
      BY <1>4 DEF Annotate
  <2> DEFINE new == annotated(copy[u], injection, advice)
  <2>1. new \in CaseRec /\ new.state = copy[u].state BY <1>3 DEF annotated, CaseRec
  <2>2. flags' \subseteq {"injection", "blocked"} BY StateFacts
  <2> HIDE DEF new
  <2> QED BY <1>1, <1>2, <1>3, <2>1, <2>2, PutBlindKeeps DEF new
<1>5. ASSUME OpenBlocked(u) PROVE IInv'
  <2>1. flags' \subseteq {"injection", "blocked"} BY <1>5, StateFacts DEF OpenBlocked
  <2> QED BY <1>1, <1>2, <1>5, <2>1, NewCaseFits, PutBlindKeeps DEF OpenBlocked
<1>6. ASSUME Block(u) PROVE IInv'
  <2> DEFINE new == [copy[u] EXCEPT !.state = "PENDING_HUMAN", !.requires_human = TRUE]
  <2>1. new \in CaseRec /\ new.state = "PENDING_HUMAN"
        BY <1>3, <1>6 DEF Block, CaseRec, CaseStates, AWAITING_HUMAN
  <2>2. Backed(new.state, audit) BY <2>1, BackingIs DEF Backed
  <2>3. flags' \subseteq {"injection", "blocked"} BY <1>6, StateFacts DEF Block
  <2> HIDE DEF new
  <2> QED BY <1>1, <1>2, <1>6, <2>1, <2>2, <2>3, PutBlindKeeps DEF Block, new
<1> QED BY <1>4, <1>5, <1>6 DEF UploadStep

LEMMA TypesOfStates ==
  /\ ACTIONABLE \subseteq CaseStates /\ DOMAIN Backing \subseteq CaseStates
  /\ \A s \in ACTIONABLE \cup {"PENDING_HUMAN", "HELD_FOR_REVIEW", "DEAD_LETTER"} :
       s \in CaseStates /\ s \notin DOMAIN Backing
BY BackingIs DEF ACTIONABLE, CaseStates, AWAITING_HUMAN, DecidedByHuman

LEMMA ClaimKeeps == ASSUME IInv, NEW d \in Drains, ClaimStep(d) PROVE IInv'
<1>1. d \in Handlers BY DEF Handlers, Workers
<1>2. {"found", "ready", "committing"} \subseteq Places BY DEF Places
<1>3. ASSUME Find(d) PROVE IInv'
  <2>1. copy' = [copy EXCEPT ![d] = copy[d]] /\ pack' = [pack EXCEPT ![d] = pack[d]]
        BY <1>1, <1>3, HandlerFacts DEF Find
  <2>2. Fits(copy[d], "found", pack[d], stored, audit)
        BY <1>1, <1>3, HandlerFacts DEF Find, Exists, Fits
  <2>3. pc' = [pc EXCEPT ![d] = "found"] BY <1>3 DEF Find
  <2>4. copy[d] \in CaseRec \cup {NoCase} /\ pack[d] \in PackRec BY <1>1, HandlerFacts
  <2>5. UNCHANGED <<stored, audit, flags>> /\ faults' \in 0..MaxFaults /\ reviews' \in 0..MaxReviews
        BY <1>3, StateFacts DEF Find
  <2> QED BY <1>1, <1>2, <2>1, <2>2, <2>3, <2>4, <2>5, QuietStepKeeps
<1>4. ASSUME pc[d] = "found" PROVE stored \in CaseRec /\ stored # NoCase /\ Backed(stored.state, audit)
  BY <1>1, <1>4, HandlerFacts, StateFacts DEF Fits
<1>5. ASSUME Take(d) PROVE IInv'
  <2> DEFINE new == [stored EXCEPT !.claimed = TRUE]
  <2>1. new \in CaseRec /\ new.state = stored.state BY <1>4, <1>5 DEF Take, CaseRec
  <2>2. /\ stored' = new /\ copy' = [copy EXCEPT ![d] = new] /\ pc' = [pc EXCEPT ![d] = "ready"]
        /\ Backed(new.state, audit)
        BY <1>4, <1>5, <2>1 DEF Take
  <2>3. pack[d] \in PackRec /\ pack' = [pack EXCEPT ![d] = pack[d]]
        BY <1>1, <1>5, HandlerFacts DEF Take
  <2>4. Fits(new, "ready", pack[d], new, audit) BY <2>1, <2>2, NoCaseIsNoRecord DEF Fits
  <2> HIDE DEF new
  <2> QED BY <1>1, <1>2, <1>5, <2>1, <2>2, <2>3, <2>4, StateFacts, WriteKeeps DEF Take
<1>6. ASSUME TakeFinished(d) PROVE IInv'
  <2> DEFINE new == [stored EXCEPT !.claimed = TRUE]
             c   == [stored EXCEPT !.claimed = FALSE]
  <2>1. /\ new \in CaseRec /\ new.state = stored.state /\ new # NoCase
        /\ c \in CaseRec /\ c.state = stored.state
        BY <1>4, <1>6, NoCaseIsNoRecord DEF TakeFinished, CaseRec
  <2>2. stored' = new /\ Backed(new.state, audit) BY <1>4, <1>6, <2>1 DEF TakeFinished
  <2>3. CASE Leave(d)
    <3>1. UNCHANGED <<audit, faults, reviews, flags>> BY <1>6 DEF TakeFinished
    <3>2. AnnouncedWasDone' BY <3>1, StateFacts DEF AnnouncedWasDone
    <3> HIDE DEF new, c
    <3> QED BY <1>1, <2>1, <2>2, <2>3, <3>1, <3>2, StateFacts, LeaveKeeps
  <2>4. CASE /\ copy' = [copy EXCEPT ![d] = c]
             /\ pc' = [pc EXCEPT ![d] = "committing"]
             /\ UNCHANGED pack
    <3>1. pack[d] \in PackRec /\ pack' = [pack EXCEPT ![d] = pack[d]]
          BY <1>1, <2>4, HandlerFacts
    <3>2. Fits(c, "committing", pack[d], new, audit) BY <2>1, <2>2, NoCaseIsNoRecord DEF Fits
    <3> HIDE DEF new, c
    <3> QED BY <1>1, <1>2, <1>6, <2>1, <2>2, <2>4, <3>1, <3>2, StateFacts, WriteKeeps
            DEF TakeFinished
  <2> QED BY <1>6, <2>3, <2>4 DEF TakeFinished
<1>7. ASSUME TakenByAnother(d) PROVE IInv'
  <2>1. UNCHANGED <<stored, audit, faults, reviews, flags>> BY <1>7 DEF TakenByAnother
  <2>2. AnnouncedWasDone' BY <2>1, StateFacts DEF AnnouncedWasDone
  <2> QED BY <1>1, <1>7, <2>1, <2>2, StateFacts, LeaveKeeps DEF TakenByAnother
<1> QED BY <1>3, <1>5, <1>6, <1>7 DEF ClaimStep

\* The handler leaves and nothing else happens.
LEMMA JustLeaveKeeps ==
  ASSUME IInv, NEW h \in Handlers, Leave(h), UNCHANGED <<stored, audit, reviews, flags>>,
         faults' \in 0..MaxFaults
  PROVE  IInv'
<1>1. AnnouncedWasDone' BY StateFacts DEF AnnouncedWasDone
<1> QED BY <1>1, StateFacts, LeaveKeeps

LEMMA ClockKeeps == ASSUME IInv, LeaseRunsOut \/ BackoffEnds PROVE IInv'
<1>1. stored \in CaseRec /\ Backed(stored.state, audit)
      BY StateFacts DEF LeaseRunsOut, BackoffEnds, Exists
<1>2. stored' \in CaseRec /\ stored'.state = stored.state /\ stored' # NoCase
      BY <1>1, NoCaseIsNoRecord DEF LeaseRunsOut, BackoffEnds, CaseRec
<1>3. UNCHANGED <<audit, pc, copy, pack, faults, reviews, flags>>
      BY DEF LeaseRunsOut, BackoffEnds
<1>4. CaseTyped' BY <1>2, <1>3 DEF IInv, CaseTyped
<1>5. StateIsBacked' BY <1>1, <1>2, <1>3 DEF StateIsBacked, Backed
<1>6. AnnouncedWasDone' BY <1>3, StateFacts DEF AnnouncedWasDone
<1>7. HandlersFit'
  <2>1. \A h \in Handlers : Fits(copy[h], pc[h], pack[h], stored', audit)
        BY <1>2, HandlerFacts, FitsOn
  <2> QED BY <1>3, <2>1 DEF HandlersFit
<1> QED BY <1>4, <1>5, <1>6, <1>7 DEF IInv

\* A handler that has a case in hand.
LEMMA HolderFacts ==
  ASSUME IInv, NEW h \in Handlers, pc[h] \notin {"idle", "opening", "found", "done"}
  PROVE  /\ copy[h] \in CaseRec /\ Backed(copy[h].state, audit)
         /\ stored \in CaseRec /\ stored # NoCase /\ copy[h] # NoCase
BY HandlerFacts, StateFacts DEF Fits

\* It goes on to another place with another copy, and nothing else happens.
LEMMA GoesOnKeeps ==
  ASSUME IInv, NEW h \in Handlers, pc[h] \notin {"idle", "opening", "found", "done"},
         NEW c \in CaseRec, NEW p \in Places, NEW k \in PackRec,
         copy' = [copy EXCEPT ![h] = c],
         pc'   = [pc EXCEPT ![h] = p],
         pack' = [pack EXCEPT ![h] = k],
         UNCHANGED <<stored, audit, reviews, flags>>, faults' \in 0..MaxFaults,
         Backed(c.state, audit), p = "acting" => OnItsWay(k, audit)
  PROVE  IInv'
<1>1. Fits(c, p, k, stored, audit) BY HolderFacts, NoCaseIsNoRecord DEF Fits
<1> QED BY <1>1, StateFacts, QuietStepKeeps

\* Every pack begins with the tool that backs its outcome.
PackOf(outcome, tools) ==
  /\ outcome \in CaseStates /\ tools \in Seq(Tools) /\ tools # <<>>
  /\ outcome \in DOMAIN Backing => Head(tools) = Backing[outcome]

LEMMA ProposeKeeps ==
  ASSUME IInv, NEW h \in Handlers, NEW state \in CaseStates, NEW outcome, NEW tools,
         NEW claimed \in BOOLEAN, PackOf(outcome, tools),
         Propose(h, state, outcome, tools, claimed)
  PROVE  IInv'
<1> DEFINE c == [copy[h] EXCEPT !.claimed = claimed]
           k == [outcome |-> outcome, left |-> tools]
<1>1. pc[h] = "ready" BY DEF Propose
<1>2. /\ copy' = [copy EXCEPT ![h] = c] /\ pc' = [pc EXCEPT ![h] = "acting"]
      /\ pack' = [pack EXCEPT ![h] = k] /\ UNCHANGED <<stored, audit, faults, reviews, flags>>
      BY DEF Propose
<1>3. c \in CaseRec /\ c.state = copy[h].state BY <1>1, HolderFacts DEF CaseRec
<1>4. Backed(c.state, audit) BY <1>1, <1>3, HolderFacts
<1>5. k \in PackRec /\ OnItsWay(k, audit) BY DEF PackOf, PackRec, OnItsWay
<1>6. "acting" \in Places BY DEF Places
<1>7. faults' \in 0..MaxFaults BY <1>2, StateFacts
<1> HIDE DEF c, k
<1> QED BY <1>1, <1>2, <1>3, <1>4, <1>5, <1>6, <1>7, GoesOnKeeps

LEMMA PacksAreInOrder ==
  /\ PackOf("AUTO_CLEARED", <<"release_shipment">>)
  /\ PackOf("ESCALATED", <<"hold_shipment", "assign_analyst">>)
  /\ PackOf("AUTO_CLEARED", <<"release_shipment", "publish_decision">>)
  /\ PackOf("HELD_FOR_REVIEW", <<"assign_analyst", "publish_decision">>)
  /\ PackOf("ESCALATED", <<"hold_shipment", "draft_sar", "notify_webhook", "assign_analyst",
                           "publish_decision">>)
<1>1. {"AUTO_CLEARED", "ESCALATED", "HELD_FOR_REVIEW"} \subseteq CaseStates
      BY DEF CaseStates, AWAITING_HUMAN
<1>2. "HELD_FOR_REVIEW" \notin DOMAIN Backing BY BackingIs
<1>3. PackOf("AUTO_CLEARED", <<"release_shipment">>) BY <1>1, BackingIs DEF PackOf, Tools
<1>4. PackOf("ESCALATED", <<"hold_shipment", "assign_analyst">>) BY <1>1, BackingIs DEF PackOf, Tools
<1>5. PackOf("AUTO_CLEARED", <<"release_shipment", "publish_decision">>)
      BY <1>1, BackingIs DEF PackOf, Tools
<1>6. PackOf("HELD_FOR_REVIEW", <<"assign_analyst", "publish_decision">>)
      BY <1>1, <1>2 DEF PackOf, Tools
<1>7. PackOf("ESCALATED", <<"hold_shipment", "draft_sar", "notify_webhook", "assign_analyst",
                           "publish_decision">>)
      BY <1>1, BackingIs DEF PackOf, Tools
<1> QED BY <1>3, <1>4, <1>5, <1>6, <1>7

LEMMA OutcomesAreStates ==
  {"INGESTED", "SPECIALISTS_DONE", "INVESTIGATED"} \subseteq CaseStates
BY DEF CaseStates, ACTIONABLE

LEMMA DecisionKeeps ==
  ASSUME IInv, NEW h \in Handlers,
         RulesClear(h) \/ RulesReject(h) \/ Clear(h) \/ HoldForReview(h) \/ Escalate(h)
  PROVE  IInv'
<1>1. pc[h] = "ready" BY DEF RulesClear, RulesReject, Clear, HoldForReview, Escalate, Propose
<1>2. copy[h].claimed \in BOOLEAN BY <1>1, HolderFacts DEF CaseRec
<1>3. CASE RulesClear(h)
  BY <1>2, <1>3, PacksAreInOrder, OutcomesAreStates, ProposeKeeps DEF RulesClear
<1>4. CASE RulesReject(h)
  BY <1>2, <1>4, PacksAreInOrder, OutcomesAreStates, ProposeKeeps DEF RulesReject
<1>5. CASE Clear(h)
  BY <1>5, PacksAreInOrder, OutcomesAreStates, ProposeKeeps DEF Clear
<1>6. CASE HoldForReview(h)
  BY <1>6, PacksAreInOrder, OutcomesAreStates, ProposeKeeps DEF HoldForReview
<1>7. CASE Escalate(h)
  BY <1>7, PacksAreInOrder, OutcomesAreStates, ProposeKeeps DEF Escalate
<1> QED BY <1>3, <1>4, <1>5, <1>6, <1>7

LEMMA AnalysisKeeps ==
  ASSUME IInv, NEW h \in Handlers, Specialists(h) \/ Investigate(h) PROVE IInv'
<1> PICK to \in {"SPECIALISTS_DONE", "INVESTIGATED"} :
      /\ pc[h] = "ready"
      /\ copy' = [copy EXCEPT ![h].state = to, ![h].claimed = FALSE]
      /\ pc' = [pc EXCEPT ![h] = "committing"]
      /\ UNCHANGED <<stored, audit, pack, faults, reviews, flags>>
  BY DEF Specialists, Investigate, Analyse
<1> DEFINE c == [copy[h] EXCEPT !.state = to, !.claimed = FALSE]
<1>1. copy[h] \in CaseRec BY HolderFacts
<1>2. c \in CaseRec /\ c.state = to BY <1>1, OutcomesAreStates DEF CaseRec
<1>3. copy' = [copy EXCEPT ![h] = c] BY <1>1, HandlerFacts
<1>4. Backed(c.state, audit) BY <1>2, TypesOfStates DEF ACTIONABLE, Backed
<1>5. pack[h] \in PackRec /\ pack' = [pack EXCEPT ![h] = pack[h]] BY HandlerFacts
<1>6. "committing" \in Places BY DEF Places
<1>7. faults' \in 0..MaxFaults BY StateFacts
<1> HIDE DEF c
<1> QED BY <1>2, <1>3, <1>4, <1>5, <1>6, <1>7, GoesOnKeeps

\* A tool's row is added after the rows it must follow.
LEMMA AnnouncedAfter ==
  ASSUME IInv, NEW rows, audit' = audit \cup rows,
         \A o \in {"AUTO_CLEARED", "ESCALATED"} :
           Row("publish_decision", o) \in rows => Row(Backing[o], o) \in audit
  PROVE  AnnouncedWasDone'
BY StateFacts DEF AnnouncedWasDone

LEMMA RowsDiffer ==
  ASSUME NEW t1, NEW o1, NEW t2, NEW o2, Row(t1, o1) = Row(t2, o2) PROVE t1 = t2 /\ o1 = o2
BY DEF Row

LEMMA RowsOf ==
  ASSUME NEW tool, NEW outcome \in CaseStates
  PROVE  /\ rows_of(tool, outcome) \subseteq Rows
         /\ tool \in Witnessed => rows_of(tool, outcome) = {Row(tool, outcome)}
         /\ \A r \in rows_of(tool, outcome) : r = Row(tool, outcome)
BY DEF rows_of, Row, Rows

LEMMA ActKeeps == ASSUME IInv, NEW h \in Handlers, Act(h) PROVE IInv'
<1> DEFINE k    == pack[h]
           tool == Head(k.left)
           rest == Tail(k.left)
           new  == rows_of(tool, k.outcome)
           k2   == [k EXCEPT !.left = rest]
<1>1. pc[h] = "acting" BY DEF Act
<1>2. /\ copy[h] \in CaseRec /\ Backed(copy[h].state, audit)
      /\ stored \in CaseRec /\ stored # NoCase /\ Backed(stored.state, audit)
      BY <1>1, HolderFacts, StateFacts
<1>3. k \in PackRec /\ OnItsWay(k, audit) BY <1>1, HandlerFacts DEF Fits
<1>4. k.outcome \in CaseStates /\ k.left \in Seq(Tools) /\ k.left # <<>> BY <1>3 DEF PackRec, OnItsWay
<1>5. rest \in Seq(Tools) /\ k2 \in PackRec /\ k2.outcome = k.outcome /\ k2.left = rest
      BY <1>3, <1>4 DEF PackRec
<1>6. /\ audit' = audit \cup new /\ pack' = [pack EXCEPT ![h] = k2]
      /\ UNCHANGED <<stored, faults, reviews, flags>>
      BY <1>3, HandlerFacts DEF Act
<1>7. /\ audit \subseteq audit' /\ audit' \subseteq Rows
      BY <1>4, <1>6, RowsOf, StateFacts
<1>8. \* From here on the outcome is backed, or needs no tool.
      Backed(k.outcome, audit')
  <2>1. ASSUME k.outcome \in DOMAIN Backing, tool = Backing[k.outcome]
        PROVE  Row(Backing[k.outcome], k.outcome) \in audit'
    <3>1. tool \in Witnessed BY <2>1, BackingIs DEF Witnessed
    <3> QED BY <1>4, <1>6, <2>1, <3>1, RowsOf
  <2> QED BY <1>3, <1>6, <2>1 DEF OnItsWay, Backed
<1>9. AnnouncedWasDone'
  <2>1. ASSUME NEW o \in {"AUTO_CLEARED", "ESCALATED"}, Row("publish_decision", o) \in new
        PROVE  Row(Backing[o], o) \in audit
    <3>1. tool = "publish_decision" /\ k.outcome = o BY <1>4, <2>1, RowsOf, RowsDiffer
    <3>2. o \in DOMAIN Backing /\ Backing[o] # "publish_decision" BY BackingIs
    <3> QED BY <1>3, <3>1, <3>2 DEF OnItsWay
  <2> HIDE DEF new
  <2> QED BY <1>6, <2>1, AnnouncedAfter
<1>10. Backed(stored'.state, audit') /\ Backed(copy[h].state, audit')
      BY <1>2, <1>6, <1>7 DEF Backed
<1>11. {"acting", "recording"} \subseteq Places BY DEF Places
<1>12. stored' # NoCase /\ stored' \in CaseRec \cup {NoCase}
      /\ faults' \in 0..MaxFaults /\ reviews' \in 0..MaxReviews
      /\ flags' \subseteq {"injection", "blocked"}
      BY <1>2, <1>6, StateFacts
<1>13. CASE rest = <<>>
  <2> DEFINE c == [copy[h] EXCEPT !.state = k.outcome]
  <2>1. c \in CaseRec /\ c.state = k.outcome BY <1>2, <1>4 DEF CaseRec
  <2>2. copy' = [copy EXCEPT ![h] = c] /\ pc' = [pc EXCEPT ![h] = "recording"]
        BY <1>13, HandlerFacts DEF Act
  <2>3. Fits(c, "recording", k2, stored', audit')
        BY <1>8, <1>12, <2>1, NoCaseIsNoRecord DEF Fits
  <2> HIDE DEF c, k2, new
  <2> QED BY <1>5, <1>6, <1>7, <1>9, <1>10, <1>11, <1>12, <2>1, <2>2, <2>3, StepKeeps
<1>14. CASE rest # <<>>
  <2>1. copy' = [copy EXCEPT ![h] = copy[h]] /\ pc' = [pc EXCEPT ![h] = "acting"]
        BY <1>1, <1>14, HandlerFacts DEF Act
  <2>2. OnItsWay(k2, audit') BY <1>5, <1>8, <1>14 DEF OnItsWay, Backed
  <2>3. Fits(copy[h], "acting", k2, stored', audit')
        BY <1>2, <1>10, <1>12, <2>2, NoCaseIsNoRecord DEF Fits
  <2> HIDE DEF k2, new
  <2> QED BY <1>2, <1>5, <1>6, <1>7, <1>9, <1>10, <1>11, <1>12, <2>1, <2>3, StepKeeps
<1> QED BY <1>13, <1>14

\* A step that adds rows no announcement is among, and writes nothing.
LEMMA LogKeeps ==
  ASSUME IInv, NEW h \in Handlers, pc[h] \notin {"idle", "opening", "found", "done"},
         NEW c \in CaseRec, NEW p \in Places \ {"acting"}, NEW k \in PackRec,
         copy' = [copy EXCEPT ![h] = c],
         pc'   = [pc EXCEPT ![h] = p],
         pack' = [pack EXCEPT ![h] = k],
         UNCHANGED <<stored, faults, reviews, flags>>,
         NEW rows \in SUBSET Rows, audit' = audit \cup rows,
         \A r \in rows : r.action # "publish_decision",
         Backed(c.state, audit')
  PROVE  IInv'
<1>1. AnnouncedWasDone'
  <2>1. \A o : Row("publish_decision", o).action = "publish_decision" BY DEF Row
  <2> QED BY <2>1, AnnouncedAfter
<1>2. stored \in CaseRec /\ stored # NoCase /\ Backed(stored.state, audit)
      BY HolderFacts, StateFacts
<1>3. audit \subseteq audit' /\ audit' \subseteq Rows BY StateFacts
<1>4. Backed(stored'.state, audit') BY <1>2, <1>3 DEF Backed
<1>5. Fits(c, p, k, stored', audit') BY <1>2, NoCaseIsNoRecord DEF Fits
<1>6. /\ stored' \in CaseRec \cup {NoCase} /\ stored' # NoCase
      /\ faults' \in 0..MaxFaults /\ reviews' \in 0..MaxReviews
      /\ flags' \subseteq {"injection", "blocked"}
      BY <1>2, StateFacts
<1> QED BY <1>1, <1>3, <1>4, <1>5, <1>6, StepKeeps

LEMMA RecordRow ==
  ASSUME NEW o \in CaseStates
  PROVE  /\ {Row("decision_record", o)} \in SUBSET Rows
         /\ \A r \in {Row("decision_record", o)} : r.action # "publish_decision"
BY DEF Row, Rows

LEMMA RefuseKeeps == ASSUME IInv, NEW h \in Handlers, Refuse(h) PROVE IInv'
<1> DEFINE c == [copy[h] EXCEPT !.state = "PENDING_HUMAN"]
           k == [pack[h] EXCEPT !.left = <<>>]
<1>1. pc[h] = "acting" BY DEF Refuse
<1>2. c \in CaseRec /\ c.state = "PENDING_HUMAN"
      BY <1>1, HolderFacts, TypesOfStates DEF CaseRec
<1>3. k \in PackRec
  <2>1. pack[h] \in PackRec /\ <<>> \in Seq(Tools) BY HandlerFacts
  <2> QED BY <2>1 DEF PackRec
<1>4. /\ copy' = [copy EXCEPT ![h] = c] /\ pc' = [pc EXCEPT ![h] = "recording"]
      /\ pack' = [pack EXCEPT ![h] = k] /\ UNCHANGED <<stored, audit, faults, reviews, flags>>
      BY HandlerFacts DEF Refuse, refused, after_refusal
<1>5. Backed(c.state, audit) BY <1>2, TypesOfStates DEF Backed
<1>6. "recording" \in Places BY DEF Places
<1>7. faults' \in 0..MaxFaults BY <1>4, StateFacts
<1> HIDE DEF c, k
<1> QED BY <1>1, <1>2, <1>3, <1>4, <1>5, <1>6, <1>7, GoesOnKeeps

LEMMA RecordKeeps == ASSUME IInv, NEW h \in Handlers, Record(h) PROVE IInv'
<1> DEFINE rows == {Row("decision_record", copy[h].state)}
<1>1. pc[h] = "recording" BY DEF Record
<1>2. copy[h] \in CaseRec /\ Backed(copy[h].state, audit) BY <1>1, HolderFacts
<1>3. copy[h].state \in CaseStates BY <1>2 DEF CaseRec
<1>4. rows \in SUBSET Rows /\ \A r \in rows : r.action # "publish_decision" BY <1>3, RecordRow
<1>5. /\ copy' = [copy EXCEPT ![h] = copy[h]] /\ pc' = [pc EXCEPT ![h] = "committing"]
      /\ pack[h] \in PackRec /\ pack' = [pack EXCEPT ![h] = pack[h]]
      BY HandlerFacts DEF Record
<1>6. audit' = audit \cup rows /\ UNCHANGED <<stored, faults, reviews, flags>> BY DEF Record
<1>7. Backed(copy[h].state, audit') BY <1>2, <1>6 DEF Backed
<1>8. "committing" \in Places \ {"acting"} BY DEF Places
<1> HIDE DEF rows
<1> QED BY <1>1, <1>2, <1>4, <1>5, <1>6, <1>7, <1>8, LogKeeps

LEMMA TransitionKeeps == ASSUME IInv, NEW h \in Handlers, Transition(h) PROVE IInv'
<1>1. CASE NothingToDo(h)
  <2>1. faults' \in 0..MaxFaults BY <1>1, StateFacts DEF NothingToDo
  <2> QED BY <1>1, <2>1, JustLeaveKeeps DEF NothingToDo
<1> QED BY <1>1, DecisionKeeps, AnalysisKeeps, ActKeeps, RefuseKeeps, RecordKeeps DEF Transition

LEMMA FailKeeps == ASSUME IInv, NEW h \in Handlers, Fail(h) PROVE IInv'
<1> DEFINE new == written(h, failed(copy[h]))
<1>1. pc[h] = "failing" BY DEF Fail
<1>2. copy[h] \in CaseRec /\ Backed(copy[h].state, audit) BY <1>1, HolderFacts
<1>3. failed(copy[h]) \in CaseRec /\ failed(copy[h]).state \in {copy[h].state, "DEAD_LETTER"}
  <2> DEFINE n    == copy[h].attempts + 1
             dead == [copy[h] EXCEPT !.attempts = n, !.claimed = FALSE, !.state = "DEAD_LETTER"]
             next == [copy[h] EXCEPT !.attempts = n, !.claimed = FALSE, !.backoff = TRUE]
  <2>1. n \in Nat /\ "DEAD_LETTER" \in CaseStates BY <1>2, TypesOfStates DEF CaseRec
  <2> HIDE DEF n
  <2>2. dead \in CaseRec /\ dead.state = "DEAD_LETTER" BY <1>2, <2>1 DEF CaseRec
  <2>3. next \in CaseRec /\ next.state = copy[h].state BY <1>2, <2>1 DEF CaseRec
  <2>4. failed(copy[h]) = IF n >= MAX_ATTEMPTS THEN dead ELSE next BY DEF failed, n
  <2> HIDE DEF dead, next
  <2> QED BY <2>2, <2>3, <2>4
<1>4. new \in CaseRec /\ new.state = failed(copy[h]).state
      BY <1>2, <1>3 DEF written, CaseRec
<1>5. Backed(new.state, audit) BY <1>2, <1>3, <1>4, TypesOfStates DEF Backed
<1>6. stored' = new /\ Leave(h) /\ UNCHANGED <<audit, faults, reviews, flags>> BY DEF Fail
<1>7. AnnouncedWasDone' BY <1>6, StateFacts DEF AnnouncedWasDone
<1> HIDE DEF new
<1> QED BY <1>4, <1>5, <1>6, <1>7, NoCaseIsNoRecord, StateFacts, LeaveKeeps

LEMMA RaiseKeeps == ASSUME IInv, NEW h \in Handlers, Raise(h) PROVE IInv'
<1>1. pc[h] \notin {"idle", "opening", "found", "done"} BY DEF Raise
<1>2. copy[h] \in CaseRec /\ Backed(copy[h].state, audit) BY <1>1, HolderFacts
<1>3. /\ copy' = [copy EXCEPT ![h] = copy[h]] /\ pc' = [pc EXCEPT ![h] = "failing"]
      /\ pack[h] \in PackRec /\ pack' = [pack EXCEPT ![h] = pack[h]]
      BY HandlerFacts DEF Raise
<1>4. faults' \in 0..MaxFaults BY StateFacts, PipelineBounds DEF Raise
<1>5. "failing" \in Places /\ "failing" # "acting" BY DEF Places
<1>6. UNCHANGED <<stored, audit, reviews, flags>> BY DEF Raise
<1> QED BY <1>1, <1>2, <1>3, <1>4, <1>5, <1>6, GoesOnKeeps

LEMMA LeaversKeep ==
  ASSUME IInv, NEW h \in Handlers, Stop(h) \/ Superseded(h) \/ Killed(h) PROVE IInv'
<1>1. faults' \in 0..MaxFaults BY StateFacts, PipelineBounds DEF Stop, Superseded, Killed
<1> QED BY <1>1, JustLeaveKeeps DEF Stop, Superseded, Killed

LEMMA WorkKeeps == ASSUME IInv, NEW h \in Handlers, WorkStep(h) PROVE IInv'
<1>1. CASE Commit(h)
  <2>1. copy[h] # NoCase BY <1>1, HolderFacts DEF Commit
  <2>2. NoPack \in PackRec /\ "again" \in Places \ {"acting"}
        BY DEF NoPack, PackRec, CaseStates, ACTIONABLE, Places
  <2> QED BY <1>1, <2>1, <2>2, PutKeeps DEF Commit
<1>2. CASE Again(h)
  <2>1. stored \in CaseRec /\ Backed(stored.state, audit)
        BY <1>2, HolderFacts, StateFacts DEF Again
  <2>2. /\ copy' = [copy EXCEPT ![h] = stored] /\ pc' = [pc EXCEPT ![h] = "ready"]
        /\ pack[h] \in PackRec /\ pack' = [pack EXCEPT ![h] = pack[h]]
        /\ UNCHANGED <<stored, audit, faults, reviews, flags>>
        BY <1>2, HandlerFacts DEF Again, Get
  <2>3. "ready" \in Places /\ pc[h] = "again" BY <1>2 DEF Places, Again
  <2>4. faults' \in 0..MaxFaults BY <2>2, StateFacts
  <2> QED BY <2>1, <2>2, <2>3, <2>4, GoesOnKeeps
<1> QED BY <1>1, <1>2, TransitionKeeps, LeaversKeep, FailKeeps DEF WorkStep

LEMMA DisposesKeeps ==
  ASSUME IInv, NEW r \in Handlers, NEW outcome \in CaseStates, NEW rows \in SUBSET Rows,
         Disposes(r, outcome, rows), \A x \in rows : x.action # "publish_decision",
         outcome \in DOMAIN Backing => Row(Backing[outcome], outcome) \in rows
  PROVE  IInv'
<1> DEFINE c == [copy[r] EXCEPT !.state = outcome, !.claimed = FALSE]
           k == [pack[r] EXCEPT !.outcome = outcome]
<1>1. pc[r] = "ready" BY DEF Disposes
<1>2. c \in CaseRec /\ c.state = outcome BY <1>1, HolderFacts DEF CaseRec
<1>3. k \in PackRec BY HandlerFacts DEF PackRec
<1>4. /\ copy' = [copy EXCEPT ![r] = c] /\ pc' = [pc EXCEPT ![r] = "committing"]
      /\ pack' = [pack EXCEPT ![r] = k] /\ audit' = audit \cup rows
      /\ UNCHANGED <<stored, faults, reviews, flags>>
      BY HandlerFacts DEF Disposes
<1>5. Backed(c.state, audit') BY <1>2, <1>4 DEF Backed
<1>6. "committing" \in Places \ {"acting"} BY DEF Places
<1> HIDE DEF c, k
<1> QED BY <1>1, <1>2, <1>3, <1>4, <1>5, <1>6, LogKeeps

LEMMA ReviewKeeps == ASSUME IInv, NEW r \in Reviewers, ReviewStep(r) PROVE IInv'
<1>1. r \in Handlers BY DEF Handlers
<1>2. {"ready", "committing", "logging"} \subseteq Places \ {"acting"} BY DEF Places
<1>3. {"RELEASED_BY_HUMAN", "BLOCKED_BY_HUMAN", "PENDING_HUMAN"} \subseteq CaseStates
      BY DEF CaseStates, DecidedByHuman, AWAITING_HUMAN
<1>4. CASE ReviewRead(r)
  <2>1. stored \in CaseRec /\ stored # NoCase /\ Backed(stored.state, audit)
        BY <1>4, StateFacts DEF ReviewRead, Exists
  <2>2. /\ copy' = [copy EXCEPT ![r] = stored] /\ pc' = [pc EXCEPT ![r] = "ready"]
        /\ pack[r] \in PackRec /\ pack' = [pack EXCEPT ![r] = pack[r]]
        /\ UNCHANGED <<stored, audit, faults, flags>>
        BY <1>1, <1>4, HandlerFacts DEF ReviewRead, Get
  <2>3. Fits(stored, "ready", pack[r], stored, audit) BY <2>1 DEF Fits
  <2>4. reviews' \in 0..MaxReviews BY <1>4, StateFacts, PipelineBounds DEF ReviewRead
  <2>5. faults' \in 0..MaxFaults BY <2>2, StateFacts
  <2> QED BY <1>1, <1>2, <2>1, <2>2, <2>3, <2>4, <2>5, QuietStepKeeps
<1>5. CASE Release(r)
  <2> DEFINE rows == {Row("release_shipment", "RELEASED_BY_HUMAN")}
  <2>1. rows \in SUBSET Rows /\ \A x \in rows : x.action # "publish_decision"
        BY <1>3 DEF Row, Rows, Witnessed
  <2> QED BY <1>1, <1>3, <1>5, <2>1, BackingIs, DisposesKeeps DEF Release
<1>6. CASE BlockCase(r)
  <2> DEFINE rows == {Row("hold_shipment", "BLOCKED_BY_HUMAN")}
  <2>1. rows \in SUBSET Rows /\ \A x \in rows : x.action # "publish_decision"
        BY <1>3 DEF Row, Rows, Witnessed
  <2> QED BY <1>1, <1>3, <1>6, <2>1, BackingIs, DisposesKeeps DEF BlockCase
<1>7. CASE RequestInfo(r)
  BY <1>1, <1>3, <1>7, TypesOfStates, DisposesKeeps DEF RequestInfo
<1>8. CASE DeepReview(r)
  <2>1. pc[r] = "ready" BY <1>8 DEF DeepReview
  <2>2. copy[r] \in CaseRec /\ Backed(copy[r].state, audit) BY <1>1, <2>1, HolderFacts
  <2>3. /\ copy' = [copy EXCEPT ![r] = copy[r]] /\ pc' = [pc EXCEPT ![r] = "committing"]
        /\ pack[r] \in PackRec /\ pack' = [pack EXCEPT ![r] = pack[r]]
        /\ UNCHANGED <<stored, audit, faults, reviews, flags>>
        BY <1>1, <1>8, HandlerFacts DEF DeepReview
  <2>4. faults' \in 0..MaxFaults BY <2>3, StateFacts
  <2> QED BY <1>1, <1>2, <2>1, <2>2, <2>3, <2>4, GoesOnKeeps
<1>9. CASE ReviewCommit(r)
  <2>1. copy[r] # NoCase BY <1>1, <1>9, HolderFacts DEF ReviewCommit
  <2>2. pack[r] \in PackRec /\ pack' = [pack EXCEPT ![r] = pack[r]]
        BY <1>1, <1>9, HandlerFacts DEF ReviewCommit
  <2> QED BY <1>1, <1>2, <1>9, <2>1, <2>2, PutKeeps DEF ReviewCommit
<1>10. CASE ReviewLog(r)
  <2> DEFINE row  == Row("decision_record", pack[r].outcome)
             rows == IF pack[r] = NoPack THEN {} ELSE {row}
  <2>1. pack[r].outcome \in CaseStates BY <1>1, HandlerFacts DEF PackRec
  <2>2. rows \subseteq Rows /\ \A x \in rows : x.action # "publish_decision" BY <2>1, RecordRow
  <2>3. audit' = audit \cup rows /\ Leave(r) /\ UNCHANGED <<stored, faults, reviews, flags>>
        BY <1>10 DEF ReviewLog
  <2> HIDE DEF rows
  <2>4. \A o : Row("publish_decision", o).action = "publish_decision" BY DEF Row
  <2>5. AnnouncedWasDone' BY <2>2, <2>3, <2>4, AnnouncedAfter
  <2>6. audit \subseteq audit' /\ audit' \subseteq Rows BY <2>2, <2>3, StateFacts
  <2>7. stored # NoCase => Backed(stored.state, audit') BY <2>6, StateFacts DEF Backed
  <2> QED BY <1>1, <2>3, <2>5, <2>6, <2>7, StateFacts, LeaveKeeps
<1>11. CASE Superseded(r) BY <1>1, <1>11, LeaversKeep
<1> QED BY <1>4, <1>5, <1>6, <1>7, <1>8, <1>9, <1>10, <1>11 DEF ReviewStep

-----------------------------------------------------------------------------
(* The theorems                                                            *)

LEMMA InitFits == Init => IInv
<1> SUFFICES ASSUME Init PROVE IInv OBVIOUS
<1>1. NoPack \in PackRec BY DEF NoPack, PackRec, CaseStates, ACTIONABLE
<1>2. CaseTyped BY <1>1, PipelineBounds DEF Init, CaseTyped, Places
<1>3. StateIsBacked /\ AnnouncedWasDone BY DEF Init, StateIsBacked, AnnouncedWasDone, Exists
<1>4. HandlersFit BY DEF Init, HandlersFit, Fits
<1> QED BY <1>2, <1>3, <1>4 DEF IInv

\* The inductive step: whoever moves, every copy stays backed and every pack on its
\* way stays about to back its outcome (orchestrator.py, all writers of a case).
THEOREM StepFits == IInv /\ [Next]_vars => IInv'
<1> SUFFICES ASSUME IInv, [Next]_vars PROVE IInv' OBVIOUS
<1>1. Workers \subseteq Handlers BY DEF Handlers
<1>2. ASSUME NEW i \in Intakes, IntakeStep(i) PROVE IInv' BY <1>2, IntakeKeeps
<1>3. ASSUME NEW u \in Uploads, UploadStep(u) PROVE IInv' BY <1>3, UploadKeeps
<1>4. ASSUME NEW d \in Drains, ClaimStep(d) PROVE IInv' BY <1>4, ClaimKeeps
<1>5. ASSUME NEW h \in Workers, WorkStep(h) \/ Raise(h) PROVE IInv'
      BY <1>1, <1>5, WorkKeeps, RaiseKeeps
<1>6. ASSUME NEW h \in Handlers, Killed(h) PROVE IInv' BY <1>6, LeaversKeep
<1>7. ASSUME NEW r \in Reviewers, ReviewStep(r) PROVE IInv' BY <1>7, ReviewKeeps
<1>8. CASE LeaseRunsOut \/ BackoffEnds BY <1>8, ClockKeeps
<1>9. CASE UNCHANGED vars
  BY <1>9 DEF vars, IInv, CaseTyped, StateIsBacked, AnnouncedWasDone, HandlersFit, Exists
<1>10. CASE Crowd
  BY <1>10 DEF Crowd, IInv, CaseTyped, StateIsBacked, AnnouncedWasDone, HandlersFit, Exists
<1> QED BY <1>2, <1>3, <1>4, <1>5, <1>6, <1>7, <1>8, <1>9, <1>10 DEF Next

\* Nobody but Crowd moves the count of the documents before the case.
LEMMA AheadGrows ==
  ASSUME ahead \in 0..MaxAhead, [Next]_vars PROVE ahead' \in 0..MaxAhead
<1>1. CASE Crowd BY <1>1, PipelineBounds DEF Crowd
<1>2. ASSUME NEW i, IntakeStep(i) \/ UploadStep(i) PROVE UNCHANGED ahead
  BY <1>2 DEF IntakeStep, UploadStep, Receive, Open, Annotate, OpenBlocked, Block
<1>3. ASSUME NEW d, ClaimStep(d) PROVE UNCHANGED ahead
  BY <1>3 DEF ClaimStep, Find, Take, TakeFinished, TakenByAnother
<1>4. ASSUME NEW h, Transition(h) PROVE UNCHANGED ahead
  BY <1>4 DEF Transition, RulesClear, RulesReject, Clear, HoldForReview, Escalate, Propose,
              Specialists, Investigate, Analyse, NothingToDo, Act, Refuse, Record
<1>5. ASSUME NEW h, WorkStep(h) \/ Raise(h) \/ Killed(h) PROVE UNCHANGED ahead
  BY <1>4, <1>5 DEF WorkStep, Commit, Again, Stop, Fail, Superseded, Raise, Killed
<1>6. ASSUME NEW r, ReviewStep(r) PROVE UNCHANGED ahead
  BY <1>6 DEF ReviewStep, ReviewRead, Release, BlockCase, RequestInfo, Disposes, DeepReview,
              ReviewCommit, ReviewLog, Superseded
<1>7. CASE LeaseRunsOut \/ BackoffEnds BY <1>7 DEF LeaseRunsOut, BackoffEnds
<1>8. CASE UNCHANGED vars BY <1>8 DEF vars
<1> QED BY <1>1, <1>2, <1>3, <1>5, <1>6, <1>7, <1>8 DEF Next

LEMMA AlwaysFits == Spec => []IInv
BY InitFits, StepFits, PTL DEF Spec

\* The documents, copies, packs and rows keep their shapes.
THEOREM PipelineTyped == Spec => []TypeOK
<1>1. IInv => CaseTyped BY DEF IInv
<1>2. Init => ahead \in 0..MaxAhead BY PipelineBounds DEF Init
<1>3. ahead \in 0..MaxAhead /\ [Next]_vars => (ahead \in 0..MaxAhead)' BY AheadGrows
<1>4. CaseTyped /\ ahead \in 0..MaxAhead => TypeOK BY DEF TypeOK
<1> QED BY <1>1, <1>2, <1>3, <1>4, AlwaysFits, PTL DEF Spec

\* A case reads as cleared, escalated, released or blocked only when the tool that
\* does it has run for that outcome, with any number of chains, drains, ticks, uploads
\* and reviewers on the case (_decide, _fail, human_decide).
THEOREM StatesAreBacked == Spec => []StateIsBacked
<1>1. IInv => StateIsBacked BY DEF IInv
<1> QED BY <1>1, AlwaysFits, PTL

\* No release or hold is announced to subscribers that was not carried out (_decide).
THEOREM AnnouncementsAreTrue == Spec => []AnnouncedWasDone
<1>1. IInv => AnnouncedWasDone BY DEF IInv
<1> QED BY <1>1, AlwaysFits, PTL

-----------------------------------------------------------------------------
(* AttemptsAreFailures.  A failure is counted when it happens and written to *)
(* the case later, so a copy that is failing has one attempt in hand.        *)

Counted(c, p, n) ==
  c # NoCase => c.attempts <= n /\ (p = "failing" => c.attempts + 1 <= n)

Counts == AttemptsAreFailures /\ \A h \in Handlers : Counted(copy[h], pc[h], faults)

LEMMA CountsKeep ==
  ASSUME IInv, Counts, NEW h \in Handlers, NEW c, NEW p,
         copy' = [copy EXCEPT ![h] = c], pc' = [pc EXCEPT ![h] = p],
         faults' \in 0..MaxFaults, faults <= faults',
         stored' # NoCase => stored'.attempts <= faults',
         Counted(c, p, faults')
  PROVE  Counts'
<1>1. AttemptsAreFailures' BY DEF AttemptsAreFailures, Exists
<1>2. ASSUME NEW g \in Handlers, g # h PROVE Counted(copy'[g], pc'[g], faults')
  <2>1. copy'[g] = copy[g] /\ pc'[g] = pc[g] BY <1>2 DEF IInv, CaseTyped
  <2>2. copy[g] # NoCase => copy[g].attempts \in Nat BY HandlerFacts DEF CaseRec
  <2>3. faults \in Nat /\ faults' \in Nat /\ Counted(copy[g], pc[g], faults)
        BY StateFacts DEF Counts
  <2> QED BY <2>1, <2>2, <2>3 DEF Counted
<1>3. Counted(copy'[h], pc'[h], faults') BY DEF IInv, CaseTyped
<1> QED BY <1>1, <1>2, <1>3 DEF Counts

\* What the counts say of a handler, of its copy and of the case.
LEMMA CountFacts ==
  ASSUME IInv, Counts, NEW h \in Handlers
  PROVE  /\ faults \in Nat /\ faults \in 0..MaxFaults
         /\ stored # NoCase => stored.attempts \in Nat /\ stored.attempts <= faults
         /\ copy[h] # NoCase => copy[h].attempts \in Nat
         /\ Counted(copy[h], pc[h], faults)
BY HandlerFacts, StateFacts, PipelineBounds DEF Counts, AttemptsAreFailures, Exists, CaseRec

\* A handler goes to `p` with a copy that counts what it counted, and the case is
\* unchanged or that copy.
LEMMA SameCount ==
  ASSUME IInv, Counts, NEW h \in Handlers, NEW c \in CaseRec, NEW p, p # "failing",
         copy' = [copy EXCEPT ![h] = c], pc' = [pc EXCEPT ![h] = p], UNCHANGED faults,
         \/ copy[h] # NoCase /\ c.attempts = copy[h].attempts
         \/ stored # NoCase /\ c.attempts = stored.attempts
         \/ c.attempts = 0,
         \/ stored' = stored
         \/ stored' # NoCase /\ stored'.attempts = c.attempts
  PROVE  Counts'
<1>1. c.attempts <= faults BY CountFacts DEF Counted
<1>2. faults' \in 0..MaxFaults /\ faults <= faults' BY CountFacts
<1>3. Counted(c, p, faults') BY <1>1 DEF Counted
<1>4. stored' # NoCase => stored'.attempts <= faults' BY <1>1, CountFacts
<1> QED BY <1>2, <1>3, <1>4, CountsKeep

LEMMA LeaverCount ==
  ASSUME IInv, Counts, NEW h \in Handlers, Leave(h),
         faults' \in 0..MaxFaults, faults <= faults', 
         stored' # NoCase => stored'.attempts <= faults'
  PROVE  Counts'
<1> DEFINE p == IF h \in Uploads THEN "done" ELSE "idle"
<1>1. copy' = [copy EXCEPT ![h] = NoCase] /\ pc' = [pc EXCEPT ![h] = p] BY DEF Leave
<1>2. Counted(NoCase, p, faults') BY DEF Counted
<1> QED BY <1>1, <1>2, CountsKeep

LEMMA IntakeCounts ==
  ASSUME IInv, Counts, NEW i \in Intakes, IntakeStep(i) \/ UploadStep(i)
  PROVE  Counts'
<1>1. i \in Handlers BY DEF Handlers, Workers
<1>2. CASE Receive(i)
  <2> PICK p : /\ p # "failing" /\ pc' = [pc EXCEPT ![i] = p]
      BY <1>2 DEF Receive, Get
  <2>1. copy' = [copy EXCEPT ![i] = stored] /\ UNCHANGED <<stored, faults>> BY <1>2 DEF Receive, Get
  <2>2. Counted(stored, p, faults') BY <1>1, <2>1, CountFacts DEF Counted
  <2>3. /\ faults' \in 0..MaxFaults /\ faults <= faults'
        /\ stored' # NoCase => stored'.attempts <= faults'
        BY <1>1, <2>1, CountFacts
  <2> QED BY <1>1, <2>1, <2>2, <2>3, CountsKeep
<1>3. ASSUME NEW new \in CaseRec, NEW p, p # "failing", PutBlind(i, new, p), UNCHANGED faults,
             \/ copy[i] # NoCase /\ new.attempts = copy[i].attempts
             \/ new.attempts = 0
      PROVE Counts'
  <2> DEFINE c == [new EXCEPT !.version = 1]
  <2>1. c \in CaseRec /\ c.attempts = new.attempts /\ c # NoCase BY NoCaseIsNoRecord DEF CaseRec
  <2>2. stored' = c /\ copy' = [copy EXCEPT ![i] = c] /\ pc' = [pc EXCEPT ![i] = p]
        BY <1>3 DEF PutBlind
  <2> HIDE DEF c
  <2> QED BY <1>1, <1>3, <2>1, <2>2, SameCount
<1>4. NewCase \in CaseRec /\ NewCase.attempts = 0 BY NewCaseFits DEF NewCase
<1>5. CASE Open(i)
  <2> PICK p : p # "failing" /\ PutBlind(i, NewCase, p) BY <1>5 DEF Open
  <2> QED BY <1>3, <1>4, <1>5 DEF Open
<1>6. CASE OpenBlocked(i) BY <1>3, <1>4, <1>6 DEF OpenBlocked
<1>7. pc[i] \in {"annotating", "blocking"} => copy[i] \in CaseRec /\ copy[i] # NoCase
      BY <1>1, HandlerFacts DEF Fits
<1>8. CASE Annotate(i)
  <2> PICK injection, advice \in BOOLEAN :
         /\ pc[i] = "annotating" /\ UNCHANGED faults
         /\ PutBlind(i, annotated(copy[i], injection, advice), "again")
      BY <1>8 DEF Annotate
  <2> DEFINE new == annotated(copy[i], injection, advice)
  <2>1. new \in CaseRec /\ new.attempts = copy[i].attempts BY <1>7 DEF annotated, CaseRec
  <2> HIDE DEF new
  <2> QED BY <1>3, <1>7, <2>1 DEF new
<1>9. CASE Block(i)
  <2> DEFINE new == [copy[i] EXCEPT !.state = "PENDING_HUMAN", !.requires_human = TRUE]
  <2>1. pc[i] = "blocking" /\ PutBlind(i, new, "again") /\ UNCHANGED faults BY <1>9 DEF Block
  <2>2. new \in CaseRec /\ new.attempts = copy[i].attempts
        BY <1>7, <2>1, TypesOfStates DEF CaseRec
  <2> HIDE DEF new
  <2> QED BY <1>3, <1>7, <2>1, <2>2
<1> QED BY <1>2, <1>5, <1>6, <1>8, <1>9 DEF IntakeStep, UploadStep

LEMMA ClaimCounts == ASSUME IInv, Counts, NEW d \in Drains, ClaimStep(d) PROVE Counts'
<1>1. d \in Handlers BY DEF Handlers, Workers
<1>2. pc[d] = "found" => stored \in CaseRec /\ stored # NoCase BY <1>1, HandlerFacts, StateFacts DEF Fits
<1>3. CASE Find(d)
  <2>1. copy' = [copy EXCEPT ![d] = copy[d]] /\ pc' = [pc EXCEPT ![d] = "found"]
        /\ UNCHANGED <<stored, faults>>
        BY <1>1, <1>3, HandlerFacts DEF Find
  <2>2. Counted(copy[d], "found", faults') BY <1>1, <2>1, CountFacts DEF Counted
  <2>3. /\ faults' \in 0..MaxFaults /\ faults <= faults'
        /\ stored' # NoCase => stored'.attempts <= faults'
        BY <1>1, <2>1, CountFacts
  <2> QED BY <1>1, <2>1, <2>2, <2>3, CountsKeep
<1>4. CASE Take(d)
  <2> DEFINE new == [stored EXCEPT !.claimed = TRUE]
  <2>1. new \in CaseRec /\ new.attempts = stored.attempts /\ stored # NoCase /\ new # NoCase
        BY <1>2, <1>4, NoCaseIsNoRecord DEF Take, CaseRec
  <2>2. stored' = new /\ copy' = [copy EXCEPT ![d] = new] /\ pc' = [pc EXCEPT ![d] = "ready"] /\ UNCHANGED faults
        BY <1>4 DEF Take
  <2> HIDE DEF new
  <2> QED BY <1>1, <2>1, <2>2, SameCount
<1>5. CASE TakeFinished(d)
  <2> DEFINE new == [stored EXCEPT !.claimed = TRUE]
             c   == [stored EXCEPT !.claimed = FALSE]
  <2>1. /\ new.attempts = stored.attempts /\ new # NoCase /\ stored # NoCase
        /\ c \in CaseRec /\ c.attempts = stored.attempts
        BY <1>2, <1>5, NoCaseIsNoRecord DEF TakeFinished, CaseRec
  <2>2. stored' = new /\ UNCHANGED faults BY <1>5 DEF TakeFinished
  <2>3. CASE Leave(d)
    <3> HIDE DEF new, c
    <3> QED BY <1>1, <2>1, <2>2, <2>3, CountFacts, LeaverCount
  <2>4. CASE copy' = [copy EXCEPT ![d] = c] /\ pc' = [pc EXCEPT ![d] = "committing"]
    <3> HIDE DEF new, c
    <3> QED BY <1>1, <2>1, <2>2, <2>4, SameCount
  <2> QED BY <1>5, <2>3, <2>4 DEF TakeFinished
<1>6. CASE TakenByAnother(d) BY <1>1, <1>6, CountFacts, LeaverCount DEF TakenByAnother
<1> QED BY <1>3, <1>4, <1>5, <1>6 DEF ClaimStep

\* A worker or a reviewer that has the case in hand.
LEMMA HandCounts ==
  ASSUME IInv, Counts, NEW h \in Handlers, NEW c \in CaseRec, NEW p, p # "failing",
         pc[h] \notin {"idle", "opening", "found", "done"}, c.attempts = copy[h].attempts,
         copy' = [copy EXCEPT ![h] = c], pc' = [pc EXCEPT ![h] = p],
         UNCHANGED <<stored, faults>>
  PROVE  Counts'
<1>1. copy[h] # NoCase BY HolderFacts
<1> QED BY <1>1, SameCount

LEMMA TransitionCounts == ASSUME IInv, Counts, NEW h \in Handlers, Transition(h) PROVE Counts'
<1>1. ASSUME NEW state, NEW outcome, NEW tools, NEW claimed \in BOOLEAN,
             Propose(h, state, outcome, tools, claimed)
      PROVE  Counts'
  <2> DEFINE c == [copy[h] EXCEPT !.claimed = claimed]
  <2>1. pc[h] = "ready" /\ copy' = [copy EXCEPT ![h] = c] /\ pc' = [pc EXCEPT ![h] = "acting"]
        /\ UNCHANGED <<stored, faults>>
        BY <1>1, HandlerFacts DEF Propose
  <2>2. c \in CaseRec /\ c.attempts = copy[h].attempts BY <2>1, HolderFacts DEF CaseRec
  <2> HIDE DEF c
  <2> QED BY <2>1, <2>2, HandCounts
<1>2. pc[h] = "ready" => copy[h] \in CaseRec BY HolderFacts
<1>3. CASE RulesClear(h) \/ RulesReject(h) \/ Clear(h) \/ HoldForReview(h) \/ Escalate(h)
  <2>1. pc[h] = "ready" BY <1>3 DEF RulesClear, RulesReject, Clear, HoldForReview, Escalate, Propose
  <2>2. copy[h].claimed \in BOOLEAN BY <1>2, <2>1 DEF CaseRec
  <2> QED BY <1>1, <1>3, <2>2 DEF RulesClear, RulesReject, Clear, HoldForReview, Escalate
<1>4. CASE Specialists(h) \/ Investigate(h)
  <2> PICK to \in {"SPECIALISTS_DONE", "INVESTIGATED"} :
        /\ pc[h] = "ready"
        /\ copy' = [copy EXCEPT ![h].state = to, ![h].claimed = FALSE]
        /\ pc' = [pc EXCEPT ![h] = "committing"]
        /\ UNCHANGED <<stored, faults>>
    BY <1>4 DEF Specialists, Investigate, Analyse
  <2> DEFINE c == [copy[h] EXCEPT !.state = to, !.claimed = FALSE]
  <2>1. c \in CaseRec /\ c.attempts = copy[h].attempts BY <1>2, OutcomesAreStates DEF CaseRec
  <2>2. copy' = [copy EXCEPT ![h] = c] BY <1>2, HandlerFacts
  <2> HIDE DEF c
  <2> QED BY <2>1, <2>2, HandCounts
<1>5. CASE NothingToDo(h) BY <1>5, CountFacts, LeaverCount DEF NothingToDo
<1>6. CASE Act(h)
  <2>1. pc[h] = "acting" /\ copy[h] \in CaseRec /\ UNCHANGED <<stored, faults>>
        BY <1>6, HolderFacts DEF Act
  <2>2. pack[h] \in PackRec BY HandlerFacts
  <2>3. CASE Tail(pack[h].left) = <<>>
    <3> DEFINE c == [copy[h] EXCEPT !.state = pack[h].outcome]
    <3>1. c \in CaseRec /\ c.attempts = copy[h].attempts BY <2>1, <2>2 DEF CaseRec, PackRec
    <3>2. copy' = [copy EXCEPT ![h] = c] /\ pc' = [pc EXCEPT ![h] = "recording"]
          BY <1>6, <2>3, HandlerFacts DEF Act
    <3> HIDE DEF c
    <3> QED BY <2>1, <3>1, <3>2, HandCounts
  <2>4. CASE Tail(pack[h].left) # <<>>
    <3>1. copy' = [copy EXCEPT ![h] = copy[h]] /\ pc' = [pc EXCEPT ![h] = "acting"]
          BY <1>6, <2>1, <2>4, HandlerFacts DEF Act
    <3> QED BY <2>1, <3>1, HandCounts
  <2> QED BY <2>3, <2>4
<1>7. CASE Refuse(h)
  <2> DEFINE c == [copy[h] EXCEPT !.state = "PENDING_HUMAN"]
  <2>1. pc[h] = "acting" /\ copy' = [copy EXCEPT ![h] = c] /\ pc' = [pc EXCEPT ![h] = "recording"]
        /\ UNCHANGED <<stored, faults>>
        BY <1>7, HandlerFacts DEF Refuse, refused
  <2>2. c \in CaseRec /\ c.attempts = copy[h].attempts
        BY <2>1, HolderFacts, TypesOfStates DEF CaseRec
  <2> HIDE DEF c
  <2> QED BY <2>1, <2>2, HandCounts
<1>8. CASE Record(h)
  <2>1. /\ pc[h] = "recording" /\ copy[h] \in CaseRec
        /\ copy' = [copy EXCEPT ![h] = copy[h]] /\ pc' = [pc EXCEPT ![h] = "committing"]
        /\ UNCHANGED <<stored, faults>>
        BY <1>8, HandlerFacts, HolderFacts DEF Record
  <2> QED BY <2>1, HandCounts
<1> QED BY <1>3, <1>4, <1>5, <1>6, <1>7, <1>8 DEF Transition

\* put_case with the version of the copy.
LEMMA PutCounts ==
  ASSUME IInv, Counts, NEW h \in Handlers, pc[h] = "committing",
         NEW p, p # "failing", Put(h, copy[h], p), UNCHANGED faults
  PROVE  Counts'
<1> DEFINE c == written(h, copy[h])
<1>1. copy[h] \in CaseRec /\ copy[h] # NoCase BY HolderFacts
<1>2. c \in CaseRec /\ c.attempts = copy[h].attempts /\ c # NoCase
      BY <1>1, NoCaseIsNoRecord DEF written, CaseRec
<1>3. stored' = c /\ copy' = [copy EXCEPT ![h] = c] /\ pc' = [pc EXCEPT ![h] = p] BY DEF Put
<1> HIDE DEF c
<1> QED BY <1>1, <1>2, <1>3, SameCount

\* A failure that is written was counted when it happened.
LEMMA FailCounts == ASSUME IInv, Counts, NEW h \in Handlers, Fail(h) PROVE Counts'
<1>1. pc[h] = "failing" /\ stored' = written(h, failed(copy[h])) /\ Leave(h) /\ UNCHANGED faults BY DEF Fail
<1>2. copy[h] \in CaseRec /\ copy[h] # NoCase BY <1>1, HolderFacts
<1>3. copy[h].attempts \in Nat /\ copy[h].attempts + 1 <= faults BY <1>1, <1>2, CountFacts DEF Counted
<1>4. failed(copy[h]).attempts = copy[h].attempts + 1
  <2> DEFINE n == copy[h].attempts + 1
  <2>1. [copy[h] EXCEPT !.attempts = n, !.claimed = FALSE, !.state = "DEAD_LETTER"].attempts = n
        BY <1>2 DEF CaseRec
  <2>2. [copy[h] EXCEPT !.attempts = n, !.claimed = FALSE, !.backoff = TRUE].attempts = n
        BY <1>2 DEF CaseRec
  <2> QED BY <2>1, <2>2 DEF failed
<1>5. written(h, failed(copy[h])).attempts = failed(copy[h]).attempts
  <2>1. "attempts" \in DOMAIN failed(copy[h])
    <3>1. "attempts" \in DOMAIN copy[h] BY <1>2 DEF CaseRec
    <3> QED BY <3>1 DEF failed
  <2> QED BY <2>1 DEF written
<1>6. stored'.attempts <= faults BY <1>1, <1>3, <1>4, <1>5
<1> QED BY <1>1, <1>6, CountFacts, LeaverCount

LEMMA RaiseCounts == ASSUME IInv, Counts, NEW h \in Handlers, Raise(h) PROVE Counts'
<1>1. /\ pc[h] \notin {"idle", "opening", "found", "done", "failing"}
      /\ faults' = faults + 1 /\ faults < MaxFaults /\ stored' = stored
      /\ pc' = [pc EXCEPT ![h] = "failing"] /\ copy' = [copy EXCEPT ![h] = copy[h]]
      BY HandlerFacts DEF Raise
<1>2. faults' \in 0..MaxFaults /\ faults <= faults' BY <1>1, CountFacts, PipelineBounds
<1>3. stored' # NoCase => stored'.attempts <= faults' BY <1>1, CountFacts
<1>4. Counted(copy[h], "failing", faults') BY <1>1, CountFacts DEF Counted
<1> QED BY <1>1, <1>2, <1>3, <1>4, CountsKeep

LEMMA LeaversCount ==
  ASSUME IInv, Counts, NEW h \in Handlers, Stop(h) \/ Superseded(h) \/ Killed(h) PROVE Counts'
<1>1. faults' \in 0..MaxFaults /\ faults <= faults' /\ stored' = stored /\ Leave(h)
      BY CountFacts, PipelineBounds DEF Stop, Superseded, Killed
<1>2. stored' # NoCase => stored'.attempts <= faults' BY <1>1, CountFacts
<1> QED BY <1>1, <1>2, LeaverCount

LEMMA ReviewCounts == ASSUME IInv, Counts, NEW r \in Reviewers, ReviewStep(r) PROVE Counts'
<1>1. r \in Handlers BY DEF Handlers
<1>2. CASE ReviewRead(r)
  <2>1. /\ stored \in CaseRec /\ stored # NoCase /\ UNCHANGED <<stored, faults>>
        /\ copy' = [copy EXCEPT ![r] = stored] /\ pc' = [pc EXCEPT ![r] = "ready"]
        BY <1>2, StateFacts DEF ReviewRead, Exists, Get
  <2> QED BY <1>1, <2>1, SameCount
<1>3. CASE Release(r) \/ BlockCase(r) \/ RequestInfo(r)
  <2> PICK outcome \in {"RELEASED_BY_HUMAN", "BLOCKED_BY_HUMAN", "PENDING_HUMAN"} :
        /\ pc[r] = "ready" /\ UNCHANGED <<stored, faults>>
        /\ copy' = [copy EXCEPT ![r].state = outcome, ![r].claimed = FALSE]
        /\ pc' = [pc EXCEPT ![r] = "committing"]
      BY <1>3 DEF Release, BlockCase, RequestInfo, Disposes
  <2> DEFINE c == [copy[r] EXCEPT !.state = outcome, !.claimed = FALSE]
  <2>1. copy[r] \in CaseRec BY <1>1, HolderFacts
  <2>2. outcome \in CaseStates BY DEF CaseStates, DecidedByHuman, AWAITING_HUMAN
  <2>3. c \in CaseRec /\ c.attempts = copy[r].attempts BY <2>1, <2>2 DEF CaseRec
  <2>4. copy' = [copy EXCEPT ![r] = c] BY <1>1, HandlerFacts
  <2> HIDE DEF c
  <2> QED BY <1>1, <2>3, <2>4, HandCounts
<1>4. CASE DeepReview(r)
  <2>1. /\ pc[r] = "ready" /\ copy[r] \in CaseRec /\ UNCHANGED <<stored, faults>>
        /\ copy' = [copy EXCEPT ![r] = copy[r]] /\ pc' = [pc EXCEPT ![r] = "committing"]
        BY <1>1, <1>4, HandlerFacts, HolderFacts DEF DeepReview
  <2> QED BY <1>1, <2>1, HandCounts
<1>5. CASE ReviewCommit(r) BY <1>1, <1>5, PutCounts DEF ReviewCommit
<1>6. CASE ReviewLog(r) BY <1>1, <1>6, CountFacts, LeaverCount DEF ReviewLog
<1>7. CASE Superseded(r) BY <1>1, <1>7, LeaversCount
<1> QED BY <1>2, <1>3, <1>4, <1>5, <1>6, <1>7 DEF ReviewStep

LEMMA AgainCounts == ASSUME IInv, Counts, NEW h \in Handlers, Again(h) PROVE Counts'
<1>1. /\ stored \in CaseRec /\ stored # NoCase /\ UNCHANGED <<stored, faults>>
      /\ copy' = [copy EXCEPT ![h] = stored] /\ pc' = [pc EXCEPT ![h] = "ready"]
      BY HolderFacts DEF Again, Get
<1> QED BY <1>1, SameCount

LEMMA WorkCounts == ASSUME IInv, Counts, NEW h \in Handlers, WorkStep(h) PROVE Counts'
<1>1. CASE Commit(h) BY <1>1, PutCounts DEF Commit
<1> QED BY <1>1, TransitionCounts, AgainCounts, LeaversCount, FailCounts DEF WorkStep

LEMMA ClockCounts == ASSUME IInv, Counts, LeaseRunsOut \/ BackoffEnds PROVE Counts'
<1>1. stored \in CaseRec /\ stored # NoCase BY StateFacts DEF LeaseRunsOut, BackoffEnds, Exists
<1>2. stored'.attempts = stored.attempts /\ UNCHANGED <<copy, pc, faults>>
      BY <1>1 DEF LeaseRunsOut, BackoffEnds, CaseRec
<1> QED BY <1>1, <1>2 DEF Counts, AttemptsAreFailures, Exists, Counted

LEMMA InitCounts == Init => Counts
BY DEF Init, Counts, Counted, AttemptsAreFailures, Exists

LEMMA StepCounts == IInv /\ Counts /\ [Next]_vars => Counts'
<1> SUFFICES ASSUME IInv, Counts, [Next]_vars PROVE Counts' OBVIOUS
<1>1. Workers \subseteq Handlers /\ Uploads \subseteq Intakes BY DEF Handlers, Workers, Intakes
<1>2. ASSUME NEW i \in Intakes, IntakeStep(i) PROVE Counts' BY <1>2, IntakeCounts
<1>3. ASSUME NEW u \in Uploads, UploadStep(u) PROVE Counts' BY <1>1, <1>3, IntakeCounts
<1>4. ASSUME NEW d \in Drains, ClaimStep(d) PROVE Counts' BY <1>4, ClaimCounts
<1>5. ASSUME NEW h \in Workers, WorkStep(h) \/ Raise(h) PROVE Counts'
      BY <1>1, <1>5, WorkCounts, RaiseCounts
<1>6. ASSUME NEW h \in Handlers, Killed(h) PROVE Counts' BY <1>6, LeaversCount
<1>7. ASSUME NEW r \in Reviewers, ReviewStep(r) PROVE Counts' BY <1>7, ReviewCounts
<1>8. CASE LeaseRunsOut \/ BackoffEnds BY <1>8, ClockCounts
<1>9. CASE Crowd \/ UNCHANGED vars
  BY <1>9 DEF vars, Crowd, Counts, AttemptsAreFailures, Exists
<1> QED BY <1>2, <1>3, <1>4, <1>5, <1>6, <1>7, <1>8, <1>9 DEF Next

\* A case is dead-lettered for its own failures only: however many handlers overtake
\* each other, its attempts are exceptions that happened (_fail, _superseded).
THEOREM AttemptsCountFailures == Spec => []AttemptsAreFailures
<1>1. Counts => AttemptsAreFailures BY DEF Counts
<1> QED BY <1>1, InitFits, StepFits, InitCounts, StepCounts, PTL DEF Spec

-----------------------------------------------------------------------------
(* What a person decided stays decided, in the system of versioned writers: *)
(* a case is opened once, nothing is uploaded over it, and drains do not    *)
(* tick.  The three hypotheses are needed.  A second first delivery and an  *)
(* upload write without a version (store.py:1430), and a tick that claims a *)
(* decided case puts it back through advance(), where an exception of the   *)
(* last attempt makes it DEAD_LETTER (orchestrator.py:2512-2574).           *)

OpenedOnce == \A i \in Intakes : pc[i] = "opening" => ~Exists

Working == {"ready", "acting", "recording", "committing", "failing"}

\* A copy that could still be written is the case as it is, until the handler changes
\* it; and by then the case is known to be undecided.
Stands(h, c, p, case) == p \in Working =>
  /\ c.version <= case.version
  /\ c.version = case.version =>
       /\ p = "ready" => c.state = case.state
       /\ p # "ready" \/ h \in Reviewers => case.state \notin DecidedByHuman

Standing == \A h \in Handlers : Stands(h, copy[h], pc[h], stored)

Decided == Exists /\ stored.state \in DecidedByHuman
Stays   == Decided => stored'.state = stored.state

\* The stored case as the others see it: not there before, of a later version, or of
\* the same version and state.
Later == \/ stored = NoCase
         \/ stored'.version > stored.version
         \/ stored'.version = stored.version /\ stored'.state = stored.state

\* What every step of a handler h has to show.
LEMMA StandsOn ==
  ASSUME IInv, IInv', Standing, Later, NEW h \in Handlers, NEW c, NEW p,
         copy' = [copy EXCEPT ![h] = c],
         pc'   = [pc EXCEPT ![h] = p],
         Stands(h, c, p, stored')
  PROVE  Standing'
<1> SUFFICES ASSUME NEW g \in Handlers, pc'[g] \in Working
             PROVE  Stands(g, copy'[g], pc'[g], stored')
  BY DEF Standing, Stands
<1>1. CASE g = h BY <1>1 DEF IInv, CaseTyped
<1>2. CASE g # h
  <2>1. copy'[g] = copy[g] /\ pc'[g] = pc[g] BY <1>2 DEF IInv, CaseTyped
  <2>2. Stands(g, copy[g], pc[g], stored) BY DEF Standing
  <2>3. pc[g] \notin {"idle", "opening", "found", "done"} BY <2>1 DEF Working
  <2>4. copy[g] \in CaseRec /\ stored \in CaseRec /\ stored # NoCase BY <2>3, HolderFacts
  <2>5. stored' \in CaseRec
    <3>1. IInv' /\ pc'[g] \notin {"idle", "opening", "found", "done"} BY <2>1, <2>3
    <3>2. Fits(copy'[g], pc'[g], pack'[g], stored', audit') BY DEF IInv, HandlersFit
    <3> QED BY <3>1, <3>2 DEF Fits, IInv, CaseTyped
  <2>6. copy[g].version \in Nat /\ stored.version \in Nat /\ stored'.version \in Nat
        BY <2>4, <2>5 DEF CaseRec
  <2>7. CASE stored'.version > stored.version
    BY <2>1, <2>2, <2>6, <2>7 DEF Stands
  <2>8. CASE stored'.version = stored.version /\ stored'.state = stored.state
    BY <2>1, <2>2, <2>8 DEF Stands
  <2> QED BY <2>4, <2>7, <2>8 DEF Later
<1> QED BY <1>1, <1>2

\* The handler is out of the transition, and what it wrote, if it did, is later.
LEMMA StandsAside ==
  ASSUME IInv, IInv', Standing, Later, NEW h \in Handlers, NEW c, NEW p,
         copy' = [copy EXCEPT ![h] = c],
         pc'   = [pc EXCEPT ![h] = p],
         p \notin Working
  PROVE  Standing'
<1>1. Stands(h, c, p, stored') BY DEF Stands
<1> QED BY <1>1, StandsOn

LEMMA LeaverStands ==
  ASSUME IInv, IInv', Standing, Later, NEW h \in Handlers, Leave(h)
  PROVE  Standing'
<1> DEFINE p == IF h \in Uploads THEN "done" ELSE "idle"
<1>1. p \notin Working BY DEF Working
<1>2. copy' = [copy EXCEPT ![h] = NoCase] /\ pc' = [pc EXCEPT ![h] = p] BY DEF Leave
<1> HIDE DEF p
<1> QED BY <1>1, <1>2, StandsAside

\* A handler reads the case; a reviewer only where nobody has decided it.
LEMMA ReaderStands ==
  ASSUME IInv, IInv', Standing, Later, NEW h \in Handlers,
         copy' = [copy EXCEPT ![h] = stored'],
         pc'   = [pc EXCEPT ![h] = "ready"],
         stored' \in CaseRec,
         h \in Reviewers => stored'.state \notin DecidedByHuman
  PROVE  Standing'
<1>1. stored'.version \in Nat BY DEF CaseRec
<1>2. Stands(h, stored', "ready", stored') BY <1>1 DEF Stands
<1> QED BY <1>2, StandsOn

\* A handler goes on from a place where the case was undecided if the copy is current.
LEMMA GoesOnStanding ==
  ASSUME IInv, IInv', Standing, NEW h \in Handlers, pc[h] \in Working,
         NEW c, NEW p, p # "ready", c.version = copy[h].version,
         copy' = [copy EXCEPT ![h] = c],
         pc'   = [pc EXCEPT ![h] = p],
         UNCHANGED stored,
         \/ pc[h] # "ready"
         \/ h \in Reviewers
         \/ copy[h].state \in ACTIONABLE
  PROVE  Standing'
<1>1. Stands(h, copy[h], pc[h], stored) BY DEF Standing
<1>2. ACTIONABLE \cap DecidedByHuman = {} BY DEF ACTIONABLE, DecidedByHuman
<1>3. Stands(h, c, p, stored) BY <1>1, <1>2 DEF Stands
<1>4. Later BY DEF Later
<1> QED BY <1>3, <1>4, StandsOn

\* A versioned write: the case was undecided, and is of a later version.
LEMMA PutStands ==
  ASSUME IInv, Standing, NEW h \in Handlers, pc[h] \in {"committing", "failing"},
         Current(h), NEW new \in CaseRec, stored' = written(h, new)
  PROVE  Later /\ Stays
<1>1. copy[h] \in CaseRec /\ stored \in CaseRec BY HolderFacts
<1>2. stored.version \in Nat /\ stored'.version = stored.version + 1
      BY <1>1 DEF Current, written, CaseRec
<1>3. stored'.version > stored.version BY <1>2
<1>4. Stands(h, copy[h], pc[h], stored) BY DEF Standing
<1>5. stored.state \notin DecidedByHuman BY <1>4 DEF Stands, Working, Current
<1> QED BY <1>3, <1>5 DEF Later, Stays, Decided

LEMMA NothingChanges == ASSUME UNCHANGED stored PROVE Later /\ Stays
BY DEF Later, Stays

LEMMA OpeningStands ==
  ASSUME IInv, IInv', Standing, OpenedOnce, NEW i \in Intakes \ Reviewers, i \notin Uploads,
         IntakeStep(i)
  PROVE  Standing' /\ Stays
<1>1. i \in Handlers BY DEF Handlers, Workers
<1>2. CASE Receive(i)
  <2> DEFINE p == IF ~Exists THEN "opening" ELSE "ready"
  <2>1. /\ copy' = [copy EXCEPT ![i] = stored] /\ pc' = [pc EXCEPT ![i] = p]
        /\ UNCHANGED stored
        BY <1>2 DEF Receive, Get
  <2>2. CASE Exists
    <3>1. stored' \in CaseRec BY <2>1, <2>2, StateFacts DEF Exists
    <3> QED BY <1>1, <2>1, <2>2, <3>1, NothingChanges, ReaderStands
  <2>3. CASE ~Exists
    BY <1>1, <2>1, <2>3, NothingChanges, StandsAside DEF Working
  <2> QED BY <2>2, <2>3
<1>3. CASE Open(i)
  <2>1. stored = NoCase BY <1>3 DEF Open, OpenedOnce, Exists
  <2>2. /\ stored' = [NewCase EXCEPT !.version = 1]
        /\ copy' = [copy EXCEPT ![i] = stored'] /\ pc' = [pc EXCEPT ![i] = "ready"]
        BY <1>3 DEF Open, PutBlind
  <2>3. stored' \in CaseRec BY <2>2, NewCaseFits DEF CaseRec
  <2>4. Later /\ Stays BY <2>1 DEF Later, Stays, Decided, Exists
  <2> QED BY <1>1, <2>2, <2>3, <2>4, ReaderStands
<1> QED BY <1>2, <1>3 DEF IntakeStep

LEMMA ClaimStands ==
  ASSUME IInv, IInv', Standing, NEW d \in Drains \ Reviewers, d \notin Ticks, ClaimStep(d)
  PROVE  Standing' /\ Stays
<1>1. d \in Handlers BY DEF Handlers, Workers
<1>2. CASE Find(d)
  <2>1. copy' = [copy EXCEPT ![d] = copy[d]] /\ pc' = [pc EXCEPT ![d] = "found"]
        /\ UNCHANGED stored
        BY <1>1, <1>2, HandlerFacts DEF Find
  <2> QED BY <1>1, <2>1, NothingChanges, StandsAside DEF Working
<1>3. ASSUME pc[d] = "found" PROVE stored \in CaseRec /\ stored # NoCase
  BY <1>1, <1>3, HandlerFacts, StateFacts DEF Fits
<1>4. ASSUME pc[d] = "found", stored' = [stored EXCEPT !.claimed = TRUE]
      PROVE  Later /\ Stays /\ stored' \in CaseRec
  <2>1. stored'.version = stored.version /\ stored'.state = stored.state /\ stored' \in CaseRec
        BY <1>3, <1>4 DEF CaseRec
  <2> QED BY <2>1 DEF Later, Stays
<1>5. CASE Take(d)
  BY <1>1, <1>4, <1>5, ReaderStands DEF Take
<1>6. CASE TakeFinished(d)
  BY <1>1, <1>4, <1>6, LeaverStands DEF TakeFinished
<1>7. CASE TakenByAnother(d)
  BY <1>1, <1>7, NothingChanges, LeaverStands DEF TakenByAnother
<1> QED BY <1>2, <1>5, <1>6, <1>7 DEF ClaimStep

LEMMA TransitionStands ==
  ASSUME IInv, IInv', Standing, NEW h \in Handlers, Transition(h) PROVE Standing' /\ Stays
<1>1. UNCHANGED stored
      BY DEF Transition, RulesClear, RulesReject, Clear, HoldForReview, Escalate, Propose,
             Specialists, Investigate, Analyse, NothingToDo, Act, Refuse, Record
<1>2. Later /\ Stays BY <1>1, NothingChanges
<1>3. CASE RulesClear(h) \/ RulesReject(h) \/ Clear(h) \/ HoldForReview(h) \/ Escalate(h)
  <2> PICK claimed \in {copy[h].claimed, FALSE} :
        /\ pc[h] = "ready" /\ copy[h].state \in ACTIONABLE
        /\ copy' = [copy EXCEPT ![h].claimed = claimed]
        /\ pc' = [pc EXCEPT ![h] = "acting"]
    BY <1>3 DEF RulesClear, RulesReject, Clear, HoldForReview, Escalate, Propose, ACTIONABLE
  <2> DEFINE c == [copy[h] EXCEPT !.claimed = claimed]
  <2>1. copy[h] \in CaseRec BY HolderFacts
  <2>2. c.version = copy[h].version BY <2>1 DEF CaseRec
  <2>3. copy' = [copy EXCEPT ![h] = c] BY HandlerFacts
  <2> HIDE DEF c
  <2> QED BY <1>1, <1>2, <2>2, <2>3, GoesOnStanding DEF Working
<1>4. CASE Specialists(h) \/ Investigate(h)
  <2> PICK to \in {"SPECIALISTS_DONE", "INVESTIGATED"} :
        /\ pc[h] = "ready" /\ copy[h].state \in ACTIONABLE
        /\ copy' = [copy EXCEPT ![h].state = to, ![h].claimed = FALSE]
        /\ pc' = [pc EXCEPT ![h] = "committing"]
    BY <1>4 DEF Specialists, Investigate, Analyse, ACTIONABLE
  <2> DEFINE c == [copy[h] EXCEPT !.state = to, !.claimed = FALSE]
  <2>1. copy[h] \in CaseRec BY HolderFacts
  <2>2. c.version = copy[h].version BY <2>1 DEF CaseRec
  <2>3. copy' = [copy EXCEPT ![h] = c] BY <2>1, HandlerFacts
  <2> HIDE DEF c
  <2> QED BY <1>1, <1>2, <2>2, <2>3, GoesOnStanding DEF Working
<1>5. CASE NothingToDo(h) BY <1>2, <1>5, LeaverStands DEF NothingToDo
<1>6. CASE Act(h)
  <2> PICK p \in {"acting", "recording"}, s \in {copy[h].state, pack[h].outcome} :
        /\ copy' = [copy EXCEPT ![h] = [copy[h] EXCEPT !.state = s]]
        /\ pc' = [pc EXCEPT ![h] = p]
    <3>1. pc[h] = "acting" BY <1>6 DEF Act
    <3>2. copy[h] \in CaseRec BY <3>1, HolderFacts
    <3>3. copy[h] = [copy[h] EXCEPT !.state = copy[h].state] BY <3>2 DEF CaseRec
    <3>4. CASE Tail(pack[h].left) = <<>> BY <1>6, <3>4, HandlerFacts DEF Act
    <3>5. CASE Tail(pack[h].left) # <<>>
      <4>1. copy' = [copy EXCEPT ![h] = copy[h]] /\ pc' = [pc EXCEPT ![h] = "acting"]
            BY <1>6, <3>1, <3>5, HandlerFacts DEF Act
      <4> QED BY <3>3, <4>1
    <3> QED BY <3>4, <3>5
  <2>1. pc[h] = "acting" BY <1>6 DEF Act
  <2> DEFINE c == [copy[h] EXCEPT !.state = s]
  <2>2. c.version = copy[h].version BY <2>1, HolderFacts DEF CaseRec
  <2> HIDE DEF c
  <2>3. copy' = [copy EXCEPT ![h] = c] BY DEF c
  <2> QED BY <1>1, <1>2, <2>1, <2>2, <2>3, GoesOnStanding DEF Working
<1>7. CASE Refuse(h)
  <2> DEFINE c == [copy[h] EXCEPT !.state = "PENDING_HUMAN"]
  <2>1. pc[h] = "acting" BY <1>7 DEF Refuse
  <2>2. c.version = copy[h].version BY <2>1, HolderFacts DEF CaseRec
  <2>3. copy' = [copy EXCEPT ![h] = c] /\ pc' = [pc EXCEPT ![h] = "recording"]
        BY <1>7 DEF Refuse, refused
  <2> HIDE DEF c
  <2> QED BY <1>1, <1>2, <2>1, <2>2, <2>3, GoesOnStanding DEF Working
<1>8. CASE Record(h)
  <2>1. /\ copy' = [copy EXCEPT ![h] = copy[h]] /\ pc' = [pc EXCEPT ![h] = "committing"]
        /\ pc[h] = "recording"
        BY <1>8, HandlerFacts DEF Record
  <2> QED BY <1>1, <1>2, <2>1, GoesOnStanding DEF Working
<1> QED BY <1>3, <1>4, <1>5, <1>6, <1>7, <1>8 DEF Transition

LEMMA LeaversStand ==
  ASSUME IInv, IInv', Standing, NEW h \in Handlers, Stop(h) \/ Superseded(h) \/ Killed(h)
  PROVE  Standing' /\ Stays
<1>1. UNCHANGED stored /\ Leave(h) BY DEF Stop, Superseded, Killed
<1> QED BY <1>1, NothingChanges, LeaverStands

LEMMA WorkStands ==
  ASSUME IInv, IInv', Standing, NEW h \in Handlers \ Reviewers, WorkStep(h)
  PROVE  Standing' /\ Stays
<1>1. CASE Commit(h)
  <2>1. pc[h] = "committing" /\ copy[h] \in CaseRec BY <1>1, HolderFacts DEF Commit
  <2>2. /\ Current(h) /\ stored' = written(h, copy[h])
        /\ copy' = [copy EXCEPT ![h] = stored'] /\ pc' = [pc EXCEPT ![h] = "again"]
        BY <1>1 DEF Commit, Put
  <2>3. Later /\ Stays BY <2>1, <2>2, PutStands
  <2> QED BY <2>2, <2>3, StandsAside DEF Working
<1>2. CASE Again(h)
  <2>1. /\ copy' = [copy EXCEPT ![h] = stored'] /\ pc' = [pc EXCEPT ![h] = "ready"]
        /\ UNCHANGED stored /\ stored' \in CaseRec
        BY <1>2, HolderFacts DEF Again, Get
  <2> QED BY <2>1, NothingChanges, ReaderStands
<1>3. CASE Fail(h)
  <2>1. /\ pc[h] = "failing" /\ Current(h) /\ Leave(h)
        /\ stored' = written(h, failed(copy[h]))
        BY <1>3 DEF Fail
  <2>2. copy[h] \in CaseRec BY <2>1, HolderFacts
  <2>3. failed(copy[h]) \in CaseRec
    <3> DEFINE n    == copy[h].attempts + 1
               dead == [copy[h] EXCEPT !.attempts = n, !.claimed = FALSE, !.state = "DEAD_LETTER"]
               next == [copy[h] EXCEPT !.attempts = n, !.claimed = FALSE, !.backoff = TRUE]
    <3>1. n \in Nat /\ "DEAD_LETTER" \in CaseStates BY <2>2, TypesOfStates DEF CaseRec
    <3> HIDE DEF n
    <3>2. dead \in CaseRec /\ next \in CaseRec BY <2>2, <3>1 DEF CaseRec
    <3>3. failed(copy[h]) = IF n >= MAX_ATTEMPTS THEN dead ELSE next BY DEF failed, n
    <3> HIDE DEF dead, next
    <3> QED BY <3>2, <3>3
  <2>4. Later /\ Stays BY <2>1, <2>3, PutStands
  <2> QED BY <2>1, <2>4, LeaverStands
<1> QED BY <1>1, <1>2, <1>3, TransitionStands, LeaversStand DEF WorkStep

LEMMA RaiseStands ==
  ASSUME IInv, IInv', Standing, NEW h \in Handlers, Raise(h) PROVE Standing' /\ Stays
<1>1. /\ copy' = [copy EXCEPT ![h] = copy[h]] /\ pc' = [pc EXCEPT ![h] = "failing"]
      /\ UNCHANGED stored /\ pc[h] \in Working
      /\ pc[h] # "ready" \/ copy[h].state \in ACTIONABLE
      BY HandlerFacts DEF Raise, Working
<1> QED BY <1>1, NothingChanges, GoesOnStanding

LEMMA ReviewStands ==
  ASSUME IInv, IInv', Standing, NEW r \in Reviewers, ReviewStep(r) PROVE Standing' /\ Stays
<1>1. r \in Handlers BY DEF Handlers
<1>2. CASE ReviewRead(r)
  <2>1. /\ copy' = [copy EXCEPT ![r] = stored'] /\ pc' = [pc EXCEPT ![r] = "ready"]
        /\ UNCHANGED stored /\ stored' \in CaseRec
        BY <1>2, StateFacts DEF ReviewRead, Exists, Get
  <2>2. stored'.state \notin DecidedByHuman
        BY <1>2, <2>1 DEF ReviewRead, AWAITING_HUMAN, DecidedByHuman
  <2> QED BY <1>1, <2>1, <2>2, NothingChanges, ReaderStands
<1>3. CASE Release(r) \/ BlockCase(r) \/ RequestInfo(r)
  <2> PICK outcome : /\ pc[r] = "ready" /\ UNCHANGED stored
                     /\ copy' = [copy EXCEPT ![r].state = outcome, ![r].claimed = FALSE]
                     /\ pc' = [pc EXCEPT ![r] = "committing"]
      BY <1>3 DEF Release, BlockCase, RequestInfo, Disposes
  <2> DEFINE c == [copy[r] EXCEPT !.state = outcome, !.claimed = FALSE]
  <2>1. copy[r] \in CaseRec BY <1>1, HolderFacts
  <2>2. c.version = copy[r].version BY <2>1 DEF CaseRec
  <2>3. copy' = [copy EXCEPT ![r] = c] BY <1>1, HandlerFacts
  <2> HIDE DEF c
  <2> QED BY <1>1, <2>2, <2>3, NothingChanges, GoesOnStanding DEF Working
<1>4. CASE DeepReview(r)
  <2>1. /\ pc[r] = "ready" /\ UNCHANGED stored
        /\ copy' = [copy EXCEPT ![r] = copy[r]] /\ pc' = [pc EXCEPT ![r] = "committing"]
        BY <1>1, <1>4, HandlerFacts DEF DeepReview
  <2> QED BY <1>1, <2>1, NothingChanges, GoesOnStanding DEF Working
<1>5. CASE ReviewCommit(r)
  <2>1. pc[r] = "committing" /\ copy[r] \in CaseRec BY <1>1, <1>5, HolderFacts DEF ReviewCommit
  <2>2. /\ Current(r) /\ stored' = written(r, copy[r])
        /\ copy' = [copy EXCEPT ![r] = stored'] /\ pc' = [pc EXCEPT ![r] = "logging"]
        BY <1>5 DEF ReviewCommit, Put
  <2>3. Later /\ Stays BY <1>1, <2>1, <2>2, PutStands
  <2> QED BY <1>1, <2>2, <2>3, StandsAside DEF Working
<1>6. CASE ReviewLog(r) BY <1>1, <1>6, NothingChanges, LeaverStands DEF ReviewLog
<1>7. CASE Superseded(r) BY <1>1, <1>7, LeaversStand
<1> QED BY <1>2, <1>3, <1>4, <1>5, <1>6, <1>7 DEF ReviewStep

LEMMA ClockStands ==
  ASSUME IInv, IInv', Standing, LeaseRunsOut \/ BackoffEnds PROVE Standing' /\ Stays
<1>1. stored \in CaseRec BY StateFacts DEF LeaseRunsOut, BackoffEnds, Exists
<1>2. /\ stored'.version = stored.version /\ stored'.state = stored.state
      /\ UNCHANGED <<copy, pc>>
      BY <1>1 DEF LeaseRunsOut, BackoffEnds, CaseRec
<1> QED BY <1>2 DEF Standing, Stands, Stays

\* Handlers of one kind are not of another, and the writers are versioned.
VersionedWriters == /\ Uploads = {} /\ Ticks = {}
                    /\ Workers \cap Reviewers = {}

LEMMA StepStands ==
  ASSUME VersionedWriters
  PROVE  IInv /\ IInv' /\ Standing /\ OpenedOnce /\ [Next]_vars => Standing' /\ [Stays]_vars
<1> SUFFICES ASSUME IInv, IInv', Standing, OpenedOnce, [Next]_vars PROVE Standing' /\ Stays
  OBVIOUS
<1>1. /\ Workers \subseteq Handlers \ Reviewers /\ Drains \subseteq Workers
      /\ Intakes \subseteq Workers
      BY DEF VersionedWriters, Handlers, Workers
<1>2. ASSUME NEW i \in Intakes, IntakeStep(i) PROVE Standing' /\ Stays
  BY <1>1, <1>2, OpeningStands DEF VersionedWriters
<1>3. ASSUME NEW d \in Drains, ClaimStep(d) PROVE Standing' /\ Stays
  BY <1>1, <1>3, ClaimStands DEF VersionedWriters
<1>4. ASSUME NEW h \in Workers, WorkStep(h) \/ Raise(h) PROVE Standing' /\ Stays
  BY <1>1, <1>4, WorkStands, RaiseStands
<1>5. ASSUME NEW h \in Handlers, Killed(h) PROVE Standing' /\ Stays BY <1>5, LeaversStand
<1>6. ASSUME NEW r \in Reviewers, ReviewStep(r) PROVE Standing' /\ Stays BY <1>6, ReviewStands
<1>7. CASE LeaseRunsOut \/ BackoffEnds BY <1>7, ClockStands
<1>8. CASE Crowd \/ UNCHANGED vars BY <1>8 DEF vars, Crowd, Standing, Stays
<1> QED BY <1>2, <1>3, <1>4, <1>5, <1>6, <1>7, <1>8 DEF Next, VersionedWriters

LEMMA InitStands == Init => Standing
BY DEF Init, Standing, Stands, Working

\* What a reviewer decided no chain, drain, retry, failure or redelivery writes over,
\* for any number of them and whoever dies, where a case is opened once and its writers
\* compare versions (advance, _fail, human_decide).
THEOREM DecisionsStand ==
  ASSUME VersionedWriters
  PROVE  Spec /\ []OpenedOnce => ReviewerDecisionStands
<1>1. [Stays]_vars => [Exists /\ stored.state \in DecidedByHuman => stored'.state = stored.state]_vars
      BY DEF Stays, Decided
<1> QED BY <1>1, InitFits, StepFits, InitStands, StepStands, PTL DEF Spec, ReviewerDecisionStands

\* Only a first delivery opens: no other step puts a case where there is none.
Opens(i) == pc'[i] = "opening" => pc[i] = "opening"
Creates  == stored = NoCase /\ stored' # NoCase

LEMMA PlaceOpens ==
  ASSUME IInv, NEW h \in Handlers, NEW i \in Handlers, NEW p, p # "opening",
         pc' = [pc EXCEPT ![h] = p]
  PROVE  Opens(i)
BY DEF IInv, CaseTyped, Opens

LEMMA LeaverOpens ==
  ASSUME IInv, NEW h \in Handlers, NEW i \in Handlers, Leave(h) PROVE Opens(i)
<1> DEFINE p == IF h \in Uploads THEN "done" ELSE "idle"
<1>1. p # "opening" /\ pc' = [pc EXCEPT ![h] = p] BY DEF Leave
<1> HIDE DEF p
<1> QED BY <1>1, PlaceOpens

LEMMA OthersDoNotOpen ==
  ASSUME IInv, NEW h \in Handlers, NEW i \in Handlers,
         ClaimStep(h) \/ WorkStep(h) \/ Raise(h) \/ Killed(h) \/ ReviewStep(h)
  PROVE  Opens(i) /\ ~Creates
<1>1. CASE ClaimStep(h)
  <2>1. CASE Find(h) BY <2>1, PlaceOpens DEF Find, Creates
  <2>2. pc[h] = "found" => stored # NoCase BY HandlerFacts DEF Fits
  <2>3. CASE Take(h) BY <2>2, <2>3, PlaceOpens DEF Take, Creates
  <2>4. CASE TakeFinished(h) BY <2>2, <2>4, PlaceOpens, LeaverOpens DEF TakeFinished, Creates
  <2>5. CASE TakenByAnother(h) BY <2>5, LeaverOpens DEF TakenByAnother, Creates
  <2> QED BY <1>1, <2>1, <2>3, <2>4, <2>5 DEF ClaimStep
<1>2. CASE Transition(h)
  <2>1. UNCHANGED stored
        BY <1>2 DEF Transition, RulesClear, RulesReject, Clear, HoldForReview, Escalate, Propose,
               Specialists, Investigate, Analyse, NothingToDo, Act, Refuse, Record
  <2>2. CASE RulesClear(h) \/ RulesReject(h) \/ Clear(h) \/ HoldForReview(h) \/ Escalate(h)
    BY <2>1, <2>2, PlaceOpens
       DEF RulesClear, RulesReject, Clear, HoldForReview, Escalate, Propose, Creates
  <2>3. CASE Specialists(h) \/ Investigate(h)
    BY <2>1, <2>3, PlaceOpens DEF Specialists, Investigate, Analyse, Creates
  <2>4. CASE NothingToDo(h) BY <2>1, <2>4, LeaverOpens DEF NothingToDo, Creates
  <2>5. CASE Act(h)
    <3>1. CASE Tail(pack[h].left) = <<>> BY <2>1, <2>5, <3>1, PlaceOpens DEF Act, Creates
    <3>2. CASE Tail(pack[h].left) # <<>> BY <2>1, <2>5, <3>2 DEF Act, Opens, Creates
    <3> QED BY <3>1, <3>2
  <2>6. CASE Refuse(h) \/ Record(h) BY <2>1, <2>6, PlaceOpens DEF Refuse, Record, Creates
  <2> QED BY <1>2, <2>2, <2>3, <2>4, <2>5, <2>6 DEF Transition
<1>3. CASE Commit(h) \/ ReviewCommit(h)
  <2>1. pc[h] = "committing" BY <1>3 DEF Commit, ReviewCommit
  <2>2. stored # NoCase BY <2>1, HolderFacts
  <2>3. CASE Commit(h) BY <2>2, <2>3, PlaceOpens DEF Commit, Put, Creates
  <2>4. CASE ReviewCommit(h) BY <2>2, <2>4, PlaceOpens DEF ReviewCommit, Put, Creates
  <2> QED BY <1>3, <2>3, <2>4
<1>4. CASE Fail(h)
  <2>1. stored # NoCase BY <1>4, HolderFacts DEF Fail
  <2> QED BY <1>4, <2>1, LeaverOpens DEF Fail, Creates
<1>5. CASE Again(h) BY <1>5, PlaceOpens DEF Again, Get, Creates
<1>6. CASE Stop(h) \/ Superseded(h) \/ Killed(h) \/ ReviewLog(h)
  BY <1>6, LeaverOpens DEF Stop, Superseded, Killed, ReviewLog, Creates
<1>7. CASE Raise(h) BY <1>7, PlaceOpens DEF Raise, Creates
<1>8. CASE ReviewRead(h) BY <1>8, PlaceOpens DEF ReviewRead, Get, Creates
<1>9. CASE Release(h) \/ BlockCase(h) \/ RequestInfo(h)
  BY <1>9, PlaceOpens DEF Release, BlockCase, RequestInfo, Disposes, Creates
<1>10. CASE DeepReview(h) BY <1>10, PlaceOpens DEF DeepReview, Creates
<1> QED BY <1>1, <1>2, <1>3, <1>4, <1>5, <1>6, <1>7, <1>8, <1>9, <1>10
        DEF WorkStep, ReviewStep

\* One delivery, however often it is repeated once it has ended, opens the case once.
THEOREM OneDeliveryOpensOnce ==
  ASSUME VersionedWriters, \A i, j \in Deliveries : i = j
  PROVE  Spec => []OpenedOnce
<1>1. Init => OpenedOnce BY DEF Init, OpenedOnce, Exists
<1>2. ASSUME IInv, OpenedOnce, [Next]_vars PROVE OpenedOnce'
  <2> SUFFICES ASSUME NEW i \in Intakes, pc'[i] = "opening" PROVE stored' = NoCase
    BY DEF OpenedOnce, Exists
  <2>1. i \in Handlers /\ Workers \subseteq Handlers /\ Drains \subseteq Handlers
        /\ Reviewers \subseteq Handlers /\ Intakes = Deliveries
        BY DEF Handlers, Workers, Intakes, VersionedWriters
  <2>2. (Opens(i) /\ ~Creates) => stored' = NoCase BY <1>2 DEF Opens, Creates, OpenedOnce, Exists
  <2>3. ASSUME NEW j \in Intakes, IntakeStep(j) PROVE stored' = NoCase
    <3>1. j = i BY <2>1
    <3>2. pc \in [Handlers -> Places] BY <1>2 DEF IInv, CaseTyped
    <3>3. Receive(i) BY <2>1, <2>3, <3>1, <3>2 DEF IntakeStep, Open, PutBlind
    <3> QED BY <2>1, <3>2, <3>3 DEF Receive, Get, Exists
  <2>4. ASSUME NEW d \in Drains, ClaimStep(d) PROVE stored' = NoCase
    BY <1>2, <2>1, <2>2, <2>4, OthersDoNotOpen
  <2>5. ASSUME NEW h \in Workers, WorkStep(h) \/ Raise(h) PROVE stored' = NoCase
    BY <1>2, <2>1, <2>2, <2>5, OthersDoNotOpen
  <2>6. ASSUME NEW h \in Handlers, Killed(h) PROVE stored' = NoCase
    BY <1>2, <2>1, <2>2, <2>6, OthersDoNotOpen
  <2>7. ASSUME NEW r \in Reviewers, ReviewStep(r) PROVE stored' = NoCase
    BY <1>2, <2>1, <2>2, <2>7, OthersDoNotOpen
  <2>8. CASE LeaseRunsOut \/ BackoffEnds
    BY <1>2, <2>2, <2>8 DEF LeaseRunsOut, BackoffEnds, Exists, Opens, Creates
  <2>9. CASE Crowd \/ UNCHANGED vars BY <1>2, <2>2, <2>9 DEF vars, Crowd, Opens, Creates
  <2> QED BY <1>2, <2>3, <2>4, <2>5, <2>6, <2>7, <2>8, <2>9 DEF Next, VersionedWriters
<1> QED BY <1>1, <1>2, InitFits, StepFits, PTL DEF Spec

\* So the reviewer's decision stands where one delivery opens the case.
THEOREM DecisionsStandForOneDelivery ==
  ASSUME VersionedWriters, \A i, j \in Deliveries : i = j
  PROVE  Spec => ReviewerDecisionStands
BY DecisionsStand, OneDeliveryOpensOnce, PTL

=============================================================================
