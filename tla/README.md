# Floorline: a verified model of how a shipment case is decided

Floorline screens shipments for a freight forwarder. Deterministic rules set a risk
floor, agents argue above it, a person decides what is disputed, and the decision is
published once. This directory is a TLA+ development of the part of the program
(`src/src/vf_logistics`, with the sanctions refresh in `src/scripts` and two files of
the console) where those promises are hard to keep: several request handlers, worker
loops, a broker and a receiver work on the same stored case, any of them may be killed,
people change the rules, the authority and the lists underneath, and the message that
moves real cargo must go out once, for papers that are still the papers on file.

All paths below are relative to `src/src/vf_logistics` unless they start with `docs/`,
`scripts/` or `frontend/`.

## 1. The system

### Components

| Component | Source | State it keeps | Operations | Hard because |
|---|---|---|---|---|
| Case store | `store.py` | cases with `_version`, audit rows, applied decisions, boundaries, throttle counters | `get_case`, `put_case(expected_version)`, `add_audit_once`, `apply_decision_once`, `claim_next_pending`, `publish_boundary`, `hit_rate_limit`, `query_cases` | everything else races through it; two backends must agree |
| Case pipeline | `orchestrator.py` | `state`, `claimed`, `attempts`, `not_before`, `actions` of a case | `ingest_shipment`, `advance`, `tick`, `drain`, `_fail`, `_superseded`, `human_decide`, `deep_review` | worker leases, retries after side effects, a reviewer deciding during a transition |
| File intake | `orchestrator.py`, `document_store.py`, `model_armor.py`, `untrusted.py` | markers of the files taken, flags on their cases | `ingest_document`, `ingest_from_storage`, `sweep_bucket` | files notified twice, unversioned second writes, handlers that die between case and marker |
| B2B audit | `app.py`, `b2b.py` | `client_reference` on the case | `compliance_audit`, replay by reference | a post repeated while the first one runs |
| Evidence loop | `evidence.py:333-1072` | `verification.requests`, `documents`, `evaluations`, `approvals`, `evidence_version`, `resume_state` | request, reissue, cancel, receive, re-evaluate, approve, approve by exception | a slow upload against every other writer; approvals on evidence that has moved |
| Execution | `evidence.py:1079-1456`, `tools.py` | `executions`, claim leases, publish rows, sent ledger | claim, resume, send, confirm, reconcile | crash between claim and confirm, lost answers, late messages, a claimant that outlives its lease |
| Decision receiver | `decision_receiver.py` | `applied_decisions` | push endpoint, `apply_decision_once` | redelivery, two messages under one key |
| Verifier and routing | `verifier.py`, `sanctions.py`, `shipper_registry.py`, `orchestrator.py` | cached sanctions list, the tenant's rules | `validate`, `reconcile`, routing, `reevaluate`, `check_origin_evidence` | arithmetic of the floor; rules and lists that change under way |
| Sanctions refresh | `scripts/refresh_sanctions.py`, `sanctions_sources.py` | the published index | `build_official`, `build_opensanctions`, `publish` | empty answers, dying and overlapping jobs |
| Delegated authority | `governance.py` | boundary versions, receipts | publish, revoke, `check`, `execute`, drift | check-then-act against a revocation |
| Delegated executor | `executor_client.py` | none | one HTTP call | a timeout that hides a success |
| Spend control | `budget.py`, `nebius_client.py` | a cached sum per process | `assert_within_budget` | a stale sum under concurrent calls |
| Agents that use tools | `agents/compliance_agent.py`, `zero_day_agent.py`, `debate_agent.py`, `tavily_client.py` | search cache, conversations | searches, tool rounds, verdicts | answers are arbitrary |
| Other model agents | `agents/` | none | one call each | inputs of the screening |
| Authentication, tenancy, membership | `auth.py`, `membership.py`, `tenant.py` | the revision's variables, sessions in browsers | `authenticate_request`, guards, `describe_identity` | sessions outlive the revision that minted them |
| Login throttle | `store.py`, `app.py`, `frontend/` | counters per account and source | `hit_rate_limit` | increments and reads of many instances |
| Worklist and outcomes | `worklist.py` | none | `build_worklist`, `build_outcomes` | paging over cases that move |
| API, documents, dossiers, console, scripts | `app.py`, `document_*.py`, `dossier.py`, `lineage.py`, `frontend/` | files, logs | I/O and rendering | not a matter of protocol |

### How they interact

A file, an event or an integrator's post becomes a case (`ingest_document`,
`ingest_shipment`, `compliance_audit`); workers claim it and run one transition at a time
(`advance`) until it is cleared or a person has to act. A transition screens the shipment
against rules and lists, asks models through the spend control, and acts only through
`governance.execute`, under the boundary the organisation has published. From there the
evidence loop takes over: a reviewer finds the case on the Today screen and asks for
documents, the shipper uploads through a link, the papers are re-evaluated, a person
approves, and a person executes the approval. Execution claims the case, writes the
disposition row, publishes the decision to the broker, saves the publish row and confirms
on the case. The broker hands every accepted message to the receiver (push) and to the
*sent ledger* (a pull subscription the sender reads before it retries). Every request
passes authentication, and a sign-in the throttle. Handlers share nothing but the store;
every handler works on a private copy and, most of the time, writes it back with the
version it read.

### What makes each part correct

* Store: a versioned write never undoes somebody else's write.
* Intake: a file that carries a trick becomes a person's, and only a delivery that had
  found no case yet can take that back; a shipment has one verdict for every client that
  waits; every file within the listing of a sweep is taken in the end.
* Pipeline: a case reads as released or held only when that was done; a reviewer's
  decision stands; a race costs no attempts; no case the claim's query reaches is left
  behind.
* Screening: nobody talks a finding down; nothing is released unscreened; papers that
  contradict the origin escalate; no published list lacks a party that stays designated.
* Authority: what was done was permitted by a version still on record, is in the trail,
  and stops after a revocation.
* Evidence loop: nothing a shipper was told is received is lost; a retired link adds
  nothing; a closed request was answered by papers that can count; a standing approval
  was given on the evidence now on file, and a standing release is backed by it; a case
  that waits for evidence always comes back to a person.
* Execution: what is recorded as sent was accepted; with the ledger no decision is
  published twice; the trail has one publish row per decision and is complete or says
  so; no interruption strands a case; what was executed stays executed.
* Receiver: each decision is applied once, whatever is redelivered.
* Together: what the receiver applies as a release was backed by the evidence on file,
  and that evidence does not move while the decision is carried out.
* Models: a tenant is refused only when replies up to its ceiling were paid for its own
  cases, and no case records a reply that was not paid; a verdict counts as searched only
  after a search; only a judgement escalates.
* Doors: an audit row tells how its person came in; what a refusal offers works; no
  counter admits more than its limit.
* Screens: a walk that does not say it was cut short forgot nobody.

## 2. The modules

| Module | Models | Notes |
|---|---|---|
| `CaseDocument` | the stored case and `get_case` / `put_case` | VARIABLES `doc`, `snap` (each call's copy), `fresh` |
| `EvidenceLoop` | the desk side of `evidence.py` | a `Read`, then one action per operation on the copy |
| `Execution` | `execute_approval`, `publish_decision`, `_settle_from_ledger`, `reconcile_publish_audits`, broker and receiver | one action per step between two awaits |
| `DecisionLoop` | `EvidenceLoop` and `Execution` on one case | composition by interleaving |
| `DecisionDelivery` | what carrying out decisions promises, without handlers | abstract; refined by `Execution` |
| `CasePipeline` | `orchestrator.py` over `FirestoreStore`, from intake to a decision | one action per store call, tool call and gate |
| `DocumentIntake` | uploads, notifications and sweeps, Model Armor, the marker | one action per await of `ingest_document` |
| `AuditIntake` | POST and GET of compliance-audit beside workers and a reviewer | |
| `ScreeningRules`, `OriginEvidence` | `validate`, the sanctions lookup, `reconcile`, `check_origin_evidence` | operators, no state |
| `Screening` | one case through screening, models, routing and re-evaluation while rules and list change | over the two above |
| `SanctionsRefresh` | the refresh jobs and their parsers | |
| `DelegationRules`, `Delegation` | `validate_permissions`, `check`, drift; publish, revoke, `execute` | operators; one action per await |
| `Spend` | `budget.py` before every model call, and where a cost is recorded | |
| `AgentTools` | search cache, tool rounds, debate verdicts | model answers open |
| `LoginThrottle` | both stores' counters and the console that gives up | |
| `AccessRules`, `Access` | `authenticate_request`, roles, membership; requests under changing revisions | operators; state |
| `Worklist` | buckets, next actions, deadlines, paged walks | |
| `CaseDocumentProofs`, `ExecutionProofs`, `EvidenceLoopProofs`, `DecisionLoopProofs`, `CasePipelineProofs`, `DoorsProofs`, `ModelsProofs`, `CounterProofs` | theorems | section 5 |
| `MCExecution`, `MCEvidenceLoop`, `MCDecisionLoop`, `MCCasePipeline`, `MCDoors`, `MCModels`, `MCCounter`, `MCAudit`, `MCScreening` | instances, symmetry sets and views for TLC | section 3 |

### State and actions against the code

*The case of the desk and the execution.* `doc` holds what the loop reads and writes:
`state`, `version` (`evidence_version`), `resume` (`resume_state`), `requests`,
`documents`, the newest `evaluation`, `approvals`, `executions`, `auditPending`.
`_version` is not a number here: the store's comparison succeeds exactly when nobody has
written since the read, so a set `fresh` of calls whose copy is current says the same and
keeps the state space finite. Both backends give this contract (`MemoryStore.put_case`
under a lock, `FirestoreStore.put_case` in a transaction).

*A handler of the desk* reads the case (`Read`) and later either writes or leaves
(`Leave`: a refusal, a conflict or a killed process, which all end the call without a
write). All its guards and values come from its copy. This is what makes the long upload
interesting: `receive_evidence` screens, archives and reads a file with a model between
read and write, and the link it was called with may have been retired meanwhile.

*An execution* goes through phases, one per await of `execute_approval` and
`publish_decision`:

| Phase | What happens next | Code |
|---|---|---|
| `loaded` | refuse (`Deny`), `Claim`, `Resume` an expired claim, 409 | `evidence.py:1246-1321` |
| `tool` | disposition row | `tools.py:109-138` |
| `lookup` | a publish row under the key ends the send | `tools.py:256-279` |
| `ledger`, `relookup` | only after an earlier attempt: settle from the sent ledger, look again | `tools.py:280-309`, `349-399` |
| `publish`, `sending` | hand the message over; accepted, refused, timed out | `tools.py:468-542` |
| `save`, `append` | publish row under its derived id | `tools.py:38-106`, `443-465` |
| `confirm`, `confirming` | read again, write the outcome | `evidence.py:1370-1456` |
| `reconcile`, `clear` | write a missing row, clear the gap | `evidence.py:1165-1220` |

A cancelled request (`CancelledError`) is a crash as seen from outside: while sending it
is `Crash` with an abandoned message; during the shielded save of a record it is the save
followed by `Crash`.

*The environment* is the `Faults` constant: crashes, handlers slower than their lease,
late messages, failing audit reads and writes, an unreadable ledger, a pull that returns
only part of the ledger (it returns at most 100 messages, and none another puller holds).

*The receiver* (`Deliver`) creates the applied record under the key or counts a repeat;
its acknowledgement may be lost, so a message can come any number of times.

*The pipeline* is the part of a case's life before the evidence loop, and has its own
variables: `stored` (the document, with a real `_version`, because unversioned writes
restart it at 1), `audit`, and for each handler its place `pc`, its `copy` and the
decision pack it carries out.

| Place | What happens next | Code |
|---|---|---|
| `idle` | an event or upload looks for the case (`Receive`), a drain queries (`Find`), a reviewer reads (`ReviewRead`) | `orchestrator.py:251-281`, `store.py:1757-1768`, `orchestrator.py:1892-1934` |
| `opening`, `annotating`, `blocking` | the unversioned writes of intake | `orchestrator.py:371`, `592`, `608`, `463` |
| `found` | the transaction of the claim | `store.py:1770-1791` |
| `ready` | one transition is chosen: rules, screening, clear, hold, investigate, escalate | `orchestrator.py:892-1560` |
| `acting` | the next tool of the pack, or a refusal that ends it | `orchestrator.py:798-837`, `governance.py:843-895` |
| `recording`, `committing` | decision record, versioned write | `orchestrator.py:865-876`, `1561-1566` |
| `failing` | `_fail`: backoff or DEAD_LETTER | `orchestrator.py:2512-2574` |
| `again` | the chain reads the case again, or its budget is spent | `orchestrator.py:2666-2679` |
| `logging` | a reviewer's rows, after the write | `orchestrator.py:1989-2030` |

What agents, rules and thresholds say is open there: every transition the state allows may
be taken. The boundary may refuse any tool; it must refuse when a non-waivable trigger is
set. A push delivery may come any number of times. A tick is a drain that makes one step
and, unlike `drain()`, puts back a case that was decided between the query and the claim.
The query of a claim reads `limit(60)` documents, whatever state those are in, and filters
afterwards: `ahead` counts the other documents of the collection that come before this one
(`Crowd` adds one; nothing in the pipeline takes one out), and `Find` needs `InReach`,
that they are fewer than `QUERY_LIMIT`. The in-memory store is left out here: it hands out
the stored dictionaries themselves, so its handlers change one shared object and not
copies, which is a different system.

*The intake of files* (`DocumentIntake`): a handler takes an object, decodes it, screens
its text window by window with Model Armor (a window may fail, and a failed screen is not
a clear one), looks for a case under the booking it states or a made-up id (`FindCase`),
puts a fresh one where it found none (`OpenCase`), writes the flags over its copy
(`FlagCase`), and writes the marker last. Finding and each of the two writes are separate
steps, and neither write compares a version: an overlapping delivery that found no case
puts a fresh one over a case that was flagged meanwhile, and takes the flag away unless it
lives to write its own. A handler may die anywhere, and others may hold the same object.

*The audit post* (`AuditIntake`): look up the reference, find or open the case, attach the
reference with a versioned write, advance up to `TURNS` times, answer. Workers and a
reviewer change the case beside it: a worker's transition ends in any state `advance` can
leave it in, PENDING_HUMAN after a refused action included, or in `_fail`, which leaves the
state as it is or makes it DEAD_LETTER; a reviewer releases, blocks or asks for more.
Attempts and backoff are `CasePipeline`'s. `Impatient` says whether a client posts again while
its first post still runs.

*The screening* (`ScreeningRules`, `OriginEvidence`, `Screening`) is a function of the
shipment, the tenant's rules and the list in the process's cache: `validate` is the set of
findings, each with the floor it sets; the floor of the case is the greatest of these,
raised when several grave facts agree; `reconcile` is the score under which no model goes.
`Screening` takes one case through it while rules are edited, the list is republished,
ages out or cannot be read. Money, weights and scores are whole numbers.

*The refresh* (`SanctionsRefresh`): a job fetches its files one by one (OFAC's list of
further names may come back empty and is accepted so, an empty main list is refused),
parses them and replaces the published index whole; with no bucket configured it publishes
nothing. Jobs overlap and die, and publishers add designations between two fetches.

*Authority* (`Delegation`): `execute` reads the boundary in force, computes drift over the
recent cases, judges, then acts or records the refusal, and each of these is a step. The
trail is append-only; a receipt carries the version that permitted it.

*Spend* and *agents*: a call is `due`, then `open` or `refused` by the figure the process
has cached, then `answered` or `raised`; costs stay on the handler's copy until the
transition commits or fails. An upload is transcribed, reads the case, and then writes as
the intake does: a put of a case it did not find, and its own put of the copy, both
without a version, so that what transitions have recorded meanwhile can be taken back.
`paid` counts the replies that were received for each case. The tool rounds of
`AgentTools` are one action per model message and per tool call.

*Doors*: `LoginThrottle` splits Firestore's hit into choosing the window, the increment
and the read; `Access` evaluates `authenticate_request`, the whole function, on the
revision serving the request, and sessions are tokens minted under earlier revisions.

*Screens* (`Worklist`): a walk reads page by page through the cursor while cases settle,
leave and come back. A row is named by its instant, so a page is a set of instants.

### What is abstracted

Names, notes, reviewers, wording of findings and messages, lineage and event rows; file
content (an upload is usable or not, a file has patterns or not); token signatures (a
secret matches or not); spelling and fuzzy matching of names (constants stand for
normalised names); column layouts of the published lists; prompts. In the evidence loop an
evaluation says missing, provided or contradicted, may say anything the papers in hand
allow, and says the same again for the same papers; what it computes is `OriginEvidence`'s.
The finding codes of a request are left out, and with them the refusal of a request equal
to an open one (`evidence.py:394`): two open requests may ask for the same papers there.
In the case modules there is one tenant; tenants matter in `Delegation`, `Spend` and
`Access`. The delegated executor is left out (`EXECUTOR_URL` unset, as shipped).

## 3. The runs

| Run | Instance | Properties | Question |
|---|---|---|---|
| `exec_live` | two handlers, one approval, ledger on, crash/store/save/ledger faults, 2 messages, 3 executions, fair | TypeOK, OneSender, AtMostOneMessage, TrailComplete, NeverStranded, ExecutionSettles, ImplementsDelivery | inside their leases: one message per decision, a complete trail, an approval to claim again whenever nobody is at it, the execution settles and implements `DecisionDelivery` with its liveness |
| `exec_slow` | as above with slow handlers, late messages, failing saves, missed pulls, 2 executions | RowProvesPublish, KeepsDelivery | what survives a handler that outlives its lease |
| `evidence` | two handlers at the desk, two requests, two document types, two link numbers, two uploads | NoUploadLost, StandingApprovalIsCurrent, ComesBackToAPerson, RetiredLinkNeverCounts | interleavings of all desk operations |
| `decision` | a desk handler and an executor that may crash, two approvals, two document types | PublishedOnCurrentEvidence, AppliedReleaseIsBacked | desk and execution together |
| `pipeline` | two scenes: an event redelivered at will, a drain and a reviewer with two calls, two faults, two attempts; an upload and a tick | StateIsBacked, AnnouncedWasDone, AttemptsAreFailures, ReviewerDecisionStands | decisions stand, states are backed by tools, nothing refused is announced, races cost no attempts |
| `board` | one event, one drain, one fault, a query of one document, one document that may come before the case, fair | LeavesTheBoard | no case the query reaches stays on the board |
| `doors` | one organisation, two agents, one person, five drafts, three shipments; two counters, three attempts, both stores; three organisations, ten revisions, six routes | ActedUnderAuthority, OutcomesAreInTheTrail, HistoryIsKept, RevocationHolds, AdmittedWithinLimit, RowTellsHowTheyCameIn, OfferedChoicesWork | who may come in and who may act |
| `models` | two tenants with a case each, one of them not yet opened or just taken in, two handlers in two processes, a ceiling of two replies, one upload, review or direct call, one fault; two names, three cases | RecordedWasPaid, RefusedOnlyWhenSpent, SpendComesToRest, SearchedIsTrue, OnlyAJudgementMoves | what model calls cost and what answers may do |
| `counter` | two refresh jobs; three cases and pages of one; four files of which one lies behind the listing of a sweep, two handlers; two posts, a worker, a reviewer; one case under edited rules and republished lists | NobodyForgotten, FlagSticks, OneVerdict, FloorStands, ReleasedIsScreened, ContradictionEscalates, StaysInForce, StagedFilesAreTaken | what reaches a reviewer and on what ground |
| `find_flag`, `find_rules`, `find_twice` | small | one each | section 6 |

Why the bounds are enough. Two handlers are what it takes to race; a third adds no new
relation to the version that was read. Two messages show a duplicate; three executions
allow a claim, a failed retry and one more claim while a denial is also on the list.
Two requests make `resume_state` shared; two link numbers make one retired; two uploads
make an approval obsolete twice over. Two approvals are needed for the second VALID
approval, and two document types for a request half filled. Handlers, requests, approvals
and document types are interchangeable, so runs without liveness use symmetry. In the
pipeline a drain and a chain are the two kinds of worker that overlap; two faults and
`MAX_ATTEMPTS = 2` let a case fail, be retried and reach DEAD_LETTER; two calls of a
reviewer allow a request for information and a decision. Two versions of a boundary make
one superseded; two agents let one act while the other still holds it. Pages of one row,
walks of two and three cases put every boundary of the paging between two cases, and three
moves bring a case on to a screen, off it and back. Three papers are one of each kind. Four
files at `limit = 1` make the listing of a sweep, three names, shorter than the stage. A
query of one document and one other make a case that is in reach and one that is not. For
the safety properties the theorems of section 5 remove the bounds altogether.

`doors`, `models` and `counter` each put side by side modules that share no state: a
behaviour is about one of them, its `side`, and the others stay as they began, so that
nothing is lost and the state spaces add up and do not multiply.

Views. `evidence` hides what a copy that can no longer be written holds: it is never read
again. `pipeline` hides the number of the version where nothing is uploaded (it only rises
then, so it matters only whether a copy is current), the details of stale copies, and
audit rows no property names. `doors` hides rows and fields no guard and no property
reads; `counter` uses `MCScreening`'s view, which hides what an edit replaced.
`find_flag` needs the version's number and uses no view.

`CHECK_DEADLOCK FALSE` is set where the system may really stop: when the bounds on
messages, executions, moves or attempts are used up, or a case has nothing left to do.

What the properties say is in the comment above each of them. Some are stated in the
modules and hold on the same instances when they are added to the run's cfg, without being
part of a run: `OneActive`, `NeverWaived`, `ThrottleTypeOK`, `RefusedOnlyWhenFull`,
`AllowedMeansAdmitted`, `ActsInItsOwnRight`, `WritesAreGuarded` (`doors`);
`BilledIsSpent`, `NothingFoundIsTrue`, `ZeroDayIsLive`
(`models`); `OnlyWhatWasPrinted`, `DeadlinesAreShown`, `ScreeningTypeOK`,
`ProvidedIsProof`, `ReferenceStays`, `ReviewOnlyRaises` (`counter`);
`ExecutedIsFinal` (`exec_live`); `SentWasAccepted`, `OneRowPerKey`, `NoSendWithoutClaim`
(`exec_slow`); `LoopTypeOK`, `ReleaseIsBacked`, `DecidedMeansClosed` (`evidence`);
`ReceivedIsComplete`, `EvidenceFrozen` (`decision`). Several of these are theorems, too.

Some properties are promises of a part of the system only. `ReviewerDecisionStands` is one
of the versioned writers: it is checked in the scene with one delivery and no upload and
no tick, because a second first delivery, an upload of a known shipment or a tick on a
decided case can break it (`PROJECT.json`, hazards); section 5 proves it under just these
hypotheses. `OneVerdict` is one for clients that
wait (`Impatient = FALSE`); `find_twice` is about the others. `LeavesTheBoard` is one of
cases the query of a claim reaches, and `StagedFilesAreTaken` one of files within the
listing of a sweep. `FlagSticks` names the one way a mark is lost where no two files share
a booking. Section 6 has the unqualified forms, which fail.

## 4. Fairness

`FairSpec` of `Execution` assumes that a call which has started goes on to its end (the
event loop runs it, and every await in it ends with a result, an error or a timeout: 15 s
for the broker, 10 s for the pull), that the clock moves (`LeaseExpires`), and that the
broker pushes what it has accepted. Nobody has to start a call: `ExecutionSettles` has
"somebody keeps pressing Execute" and "handlers are killed finitely often" as its
antecedent, because nothing in the program retries an execution by itself. `Crash` is
never fair.

`FairSpec` of `CasePipeline` assumes that a running handler goes on, that the clock moves
(leases, backoffs), and that somebody keeps draining: `worker_loop` does in poll mode
(`orchestrator.py:2724`), an open board does in request-driven mode (`_drain_step`,
`app.py:384`). Without either a case whose handler died stays where it is. The number of
exceptions and killed handlers is finite. None of this helps a case that 60 other documents
come before, so `LeavesTheBoard` has `[]InReach` as its antecedent.

`SpendSpec` assumes that a piece of work that was begun proceeds (every model call has a
timeout) and that a worker takes up a case while there is one. `AgentsSpec` assumes that a
handler that has begun is run on. `StagedFilesAreTaken` assumes that a request that was
begun goes on and that somebody sweeps again and again: `sweep_bucket` is an operator's
call and no schedule of the service's, and a file whose notification was lost waits for
one. It is about the first `limit * 3` names, which every sweep lists again.

## 5. What is proved

Every invariant and every safety action property a run checks is also a theorem, for
every value of the constants. What stays with TLC is said at the end of this section.
Proof modules extend the modules they are about; no definition of a model is replaced.

| Module | Theorems |
|---|---|
| `CaseDocumentProofs` | none: the lemmas about reading and writing the case |
| `ExecutionProofs` | `TypeCorrect`, `RecordsAreTrue`, `OneAtATime`, `OutcomesStand`, `NobodyIsStranded`, `TrailIsComplete`, `NothingIsSentTwice`, `CarriesOutDecisions` |
| `EvidenceLoopProofs` | `UploadsAreKept`, `ApprovalsStandOnEvidence`, `RequestsComeToAnEnd`, `RetiredLinksAddNothing` |
| `DecisionLoopProofs` | `PublishedStandsOnEvidence`, `AppliedReleasesAreBacked`, `EvidenceStaysPut`, `ExecutorsLoseNoUpload`, `ApprovalsStandThroughout` |
| `CasePipelineProofs` | `PipelineTyped`, `StatesAreBacked`, `AnnouncementsAreTrue`, `AttemptsCountFailures`, `DecisionsStand`, `OneDeliveryOpensOnce`, `DecisionsStandForOneDelivery` |
| `DoorsProofs` | `AuthorityIsOne`, `VersionsAreKept`, `ActsAreExplained`, `OutcomesAreExplained`, `KillSwitchHolds`, `AttemptsAreLimited`, `RowsTellTheTruth`, `OffersCanBeTaken`, `NobodyActsBeyondTheirRole` |
| `ModelsProofs` | `BillsAreOwed`, `RefusalsAreEarned`, `BillsAreTrue`, `SilenceIsSearched`, `ClaimsAreCorrected`, `SearchesAreLive`, `DebatesOnlyRaise` |
| `CounterProofs` | `PatientClientsGetOneVerdict`, `FlagsStick`, `FindingsAreNotTalkedDown`, `NothingUnscreenedIsReleased`, `ContradictionsEscalate`, `NothingIsTakenBack`, `NobodyIsForgotten`, `DesignationsStayInForce` |

### The case and its lock

`CaseDocumentProofs` holds lemmas, not results: `DocInv` (types, and that a copy which may
still be written is the stored case) follows from how `Get`, `Put` and `Drop` are defined,
and these say so once, so that no other proof has to open the three definitions. What the
lock is good for is proved of the handlers that use it.

### Execution

The invariants are stacked, each with its own inductive step, so that what needs fewer
assumptions is proved with fewer:

1. `TypeInv`: types, the lock, and that a call under way has an approval. Any `Faults`.
   `TypeOK` alone is not inductive: an action that files a message, a row or an execution
   under `call[e].approval` needs to know that there is one.
2. `SoundInv`: what each call, each execution and each row says of the broker is true. A
   call may only know a message that is on the topic; messages in flight or on the topic
   belong to a claimed execution; a row's key is its approval and no two rows share one.
   Any `Faults`, so `RecordsAreTrue` holds of handlers that outlive their leases, too.
3. `LeaseInv`, assuming `"slow" \notin Faults`: at most one execution is claimed, the state
   is EXECUTING exactly then, and whoever sends or confirms works on it. From it follow
   `OneAtATime` and `OutcomesStand`; with `Retryable` (approvals carry the version on file,
   no request is open, and some approval is VALID where the state says so)
   `NobodyIsStranded`, which needs an approval to begin with (`Approvals # {}`).
4. `BooksInv`: a decision with no publish row is shown as pending on its execution, rows
   name their message, and a call about to clear the gap has the row. `TrailIsComplete`.
5. `OnceInv`, assuming also `Ledger` and that neither `"late"` nor `"miss"` is in `Faults`:
   a first attempt starts from an empty topic, a message on the topic has its row or is
   still in the ledger, one in flight is awaited by its sender, and a call about to publish
   has made sure that its decision is not on the topic. `NothingIsSentTwice`.

The hypotheses are those of the code's own reasoning: the claim's lease is longer than all
timeouts of a send together, and the ledger is the answer to a lost acknowledgement.
`exec_slow` and section 6 show what goes wrong without them. `CarriesOutDecisions` is the
safety part of the refinement of `DecisionDelivery`, for any `Faults`: every step maps to
an abstract step or to none; only the abstract step that takes a record back needs a
handler that outlived its lease, and `LeaseInv` shows that nothing else does it.

### The desk, and the desk with the execution

`DeskInv` says of the stored case what its operations rely on: approvals at the desk are
absent, valid or superseded, and a valid one is of this version; a valid release is backed;
an evaluation is not ahead of the evidence and "provided" means everything is in hand; a
filled slot has its paper and a closed request all its slots; a decided case has no open
request; a waiting case remembers a state a person acts on. With the lock, a handler's
write replaces exactly what it had read, so each operation is proved once as a function of
the case (`DeskStep` puts them together), however slow the upload that calls it was.

In the composition the executor writes the whole document back. `DecisionInv` keeps the
desk's invariant until a decision is claimed; from then on requests are closed and every
approval in force stands on the evidence on file (`CaseHolds`), and whatever is being sent,
is in flight, accepted, pushed or applied belongs to an approval in force (`Carried`). That
is what makes `PublishedOnCurrentEvidence` inductive: the evidence cannot move once
somebody sends (`EvidenceStaysPut`). Nothing is assumed of `Faults`. It is assumed that the
desk executes nothing (`DeskExecutesNothing`: a handler is one call of one kind).

### The pipeline

A write makes the state of a copy the state of the case, so `StateIsBacked` needs the
copies to be backed already, and a copy becomes AUTO_CLEARED or ESCALATED at the end of a
pack, so a pack on its way must have run the tool that backs its outcome or have it next.
`IInv` says both of every handler (`Fits`), and that a handler under way has a case and a
copy. `StepKeeps` is the one place where the other handlers are considered: an open case
stays open and audit rows stay, so whoever fitted before fits on. Unversioned writes and
ticks are covered: the first three theorems need no lock. `AttemptsCountFailures` adds
(`Counts`) that no copy counts more attempts than exceptions were raised, and that a
handler about to write a failure has one in hand.

`DecisionsStand` does need the lock. Its invariant `Standing` says of a handler inside a
transition that its copy is not ahead of the stored version, and if it is level with it,
then the copy has the stored state until the handler changes it, and once it has, the
stored case is not one a reviewer decided. It is a theorem of the versioned writers
(`VersionedWriters`: nothing is uploaded, drains do not tick, no handler is both worker and
reviewer) on behaviours in which the case is opened once (`OpenedOnce`), which one delivery
guarantees (`OneDeliveryOpensOnce`). The hypotheses are needed: an upload of a known
shipment and a second first delivery write without a version, and a tick puts a decided
case back through `advance()`, where an exception makes it DEAD_LETTER (`PROJECT.json`,
hazards).

### Doors

*Authority.* `AuthorityInv`: versions are numbered and know their number; at most one is in
force; a call that holds a boundary finds it on record with the same permissions, and one
that is acting was permitted by it; receipts and states of cases have their rows. The
trail is append-only and `Retired` keeps permissions, so nothing a call or a case rests on
goes away. `KillSwitchHolds` is an action property over the same invariant.

*Throttle.* `ThrottleInv` treats the stores apart. In memory a check is one step, and no
window of any length holds more admissions than the limit. On Firestore the increment and
the read are apart; the document counts no fewer attempts than have passed it, and the
read of the limit-th passer sees all those before it. The lemmas on `slot` are integer
division by hand: `slot(t)` is the only window that holds `t`.

*Access.* `AccessInv` is small (sessions are such as the console mints, and the last
answer is true); the work is in lemmas that follow `authenticate_request` through each of
its ways in and say what the context it returns knows.

### Models and agents

`SpendInv`: no case records more than was paid for it (`RecordedWasPaid`), no process keeps
a figure above what was paid for the tenant's cases (`FiguresArePaid`), and what a handler
will write is paid for: the cost on its copy and the answers it has got and not recorded
yet come to no more than the replies received for its case (`Covered`). That has to count
the answers in the handler's hands, for a reply is paid for before it is recorded, and two
handlers may be paid for on one case while only one of them writes. It is an upper bound and
stays one when an unversioned put takes a recorded cost back, which does happen (section 6).
A refusal needs a figure at the ceiling, so as many replies were paid: `RefusalsAreEarned`.
Costs are counted in replies, and a tenant's sum is the cardinality of a set of replies,
which the prover can reason about. `RefusalsAreEarned` says nothing of a store that cannot
be read: then nothing is refused.

`AgentsInv`: of every counterparty on a record its lookup is still to do or its status is
there, and the bill is what the search API was asked. `WorstStatusWins` is the lemma on
`search_status`: it reads "ok" only if every status does. What the models answer, and what
the cache holds, is not constrained at all.

### What reaches a person

*Posts.* `VerdictInv`: a copy is a version of the case, the current one if nobody has
written since, a decided copy means a decided case, one handler works on a shipment, and
verdicts that were told are the case's. Assumes `~Impatient`; `find_twice` is about
clients that do not wait.

*Files.* `FlagInv`: a marker, and a handler about to write it, name a case that belongs to
the file, has been flagged once, and is a person's if the file is suspicious, unless it is
`Awaited`: a handler that put it anew stands before its second write, or died there. A
made-up id is in one handler's hands until its case is flagged. Assumes that no two files
state one booking (`OneFilePerBooking`): with two, the last write of one handler puts its
stale copy over the mark of the other (section 6).

*Screening.* `ScreeningInv` and lemmas on the floor: a grave finding that no rule waives
bounds it from below (`FloorFacts`), two grave findings make it
80 at least, what the models add raises it (`FloorRises`), and the score acted on is never
under it (`ScoreAboveFloor`). `NothingIsTakenBack`, that a re-evaluation
raises a score and lowers none, follows from the same invariant.

*Screens.* `DeskInv` of `Worklist`: what was in range all along is still there, and what
lies at the cursor or above has been read. `PageFacts` and `NewestFacts` say what one page
contributes; they rest on rows having different instants (`DeskAssumption`,
`store.py:665-668`).

*Lists.* `RefreshInv`: a list a job holds is the whole list, at some time, or none, and
what a job is about to publish from both names whoever stays designated. Assumes that
rows have their columns, that "individual" is OFAC's word and not the UN's, and that an
index is not the absence of one (`ListsAreReadable`): a row without its name column names
nobody, whatever the job does.

### Assumptions on the constants

Each is declared beside the constants, evaluated by TLC on the instances, and as weak as
the proofs allow: bounds are natural numbers; sentinels (`NoCase`, `NoMessage`, `NoEval`,
`NoBoundary`, ...) are no values of their types; records have the fields the schemas
demand. Those that say something of the world: scores and floors of models are within
0..100 (`ScreeningInputs`, `schemas.py:325`, `384`), one client reference names one
shipment (`PostsAssumption`), a page has at least one row and instants differ
(`DeskAssumption`), limits and windows are positive (`ThrottleAssumption`), members of an
organisation are listed with one of the four roles (`AccessAssumption`), a tenant owns
each case and there are finitely many (`SpendConstants`), and a search dossier lists its
names (`ToolConstants`).

### Only model-checked

Liveness under fairness and ENABLED are beyond the prover: `ExecutionSettles`,
`SpendComesToRest`, `StagedFilesAreTaken`, `LeavesTheBoard`, and the liveness half of
`ImplementsDelivery`. Of the properties outside the runs, `OnlyWhatWasPrinted`,
`DeadlinesAreShown`, `ProvidedIsProof`, `ReferenceStays`, `RefusedOnlyWhenFull`,
`AllowedMeansAdmitted`, `NeverWaived` and `WritesAreGuarded` have no theorem yet.
`ReceivedIsComplete` and the lease theorems of `ExecutionProofs` are about their modules
alone and have not been carried over to `DecisionSpec`.

## 6. Where the code and its documents disagree

| Run | Document | Code |
|---|---|---|
| `find_flag` | every `put_case` on an existing case passes `expected_version`; triggers "always route to a human" | intake writes a document's case twice without a version, and the count restarts: a transition from between the two clears the case (`orchestrator.py:592`, `608`, `store.py:1431`) |
| `find_rules` | a re-evaluation picks up "what the verifier would say today (rules may have changed)" | it calls `validate` without the tenant's rules (`evidence.py:814`) |
| `find_twice` | a redelivery "returns the existing case instead of starting a second workflow" | two posts that both find no case both write it, without a version (`orchestrator.py:371`) |

Each run gives the shortest interleaving that shows it. Others were met while modelling;
each is a property of a module that TLC refutes with the settings given (without the run's
view or symmetry):

| Property | Text | What happens | Settings |
|---|---|---|---|
| `FlaggedMeetsAPerson` (`CasePipeline`) | "flagged for a person whatever Model Armor goes on to say" (`model_armor.py:209`) | nothing that decides reads `requires_human` | `find_flag.cfg` |
| `OutcomeHasARecord` (`CasePipeline`) | every outcome that becomes official carries a record (`orchestrator.py:865`) | the state is set first; when the record fails, `_fail` saves the state | `find_flag.cfg`, `MaxFaults = 1` |
| `ExecutedIsFinal` (`Execution`) | the state diagram has no arrow out of an executed state | a handler that outlived its lease overwrites RELEASED_BY_HUMAN with EXECUTION_FAILED (`evidence.py:1388`) | `exec_slow.cfg`, `Faults = {"slow"}`, `Ledger = FALSE` |
| `TimeoutIsUnknown` (`Execution`) | "A publish that times out is recorded as `unknown`, not `failed`" (`docs/ARCHITECTURE.md:610`) | when that record cannot be saved it is `send_failed` (`tools.py:459`) | `exec_slow.cfg`, `Faults = {"save"}`, `Ledger = FALSE` |
| `NoCaseIsStranded` (`CasePipeline`) | "a case whose holder died is re-offered rather than stranded" (`docs/ARCHITECTURE.md:794-795`) | the query of a claim reads 60 documents in any state before it asks which are claimable (`store.py:1762`), finished cases stay in the collection, and a case behind 60 others is offered to nobody | `board.cfg` |
| `FlagIsKept` (`DocumentIntake`) | "Document flagged for mandatory human review" (`orchestrator.py:603`) | of two deliveries of one file the second has found no case when the first flags it; it puts a fresh case over that and dies before its own flag (`orchestrator.py:278`, `371`, `592`) | `counter.cfg` |
| `EveryFileIsTaken` (`DocumentIntake`) | "Process documents already on the stage" (`orchestrator.py:1741`) | it lists `limit * 3` names, and files that were taken stay on the stage: what is listed behind them never comes up (`orchestrator.py:1757`) | `counter.cfg` |
| `CostIsKept` (`Spend`) | "The overshoot is therefore bounded by what a tenant can spend in one TTL window" (`budget.py:30`) | the sum asked is of what cases have recorded, and an intake's unversioned puts write an older cost back (`orchestrator.py:371`, `608`) | `models.cfg` |
| `AliasesStayInForce` (`SanctionsRefresh`) | "Raises rather than publishing half a list" (`refresh_sanctions.py:436`) | a list of further names that comes back empty is published with the rest (`refresh_sanctions.py:445-457`) | `counter.cfg` |
| `FlagSticks` (`DocumentIntake`) | a flagged file stays a person's | two files of one booking, one clean: its last write puts its copy over the other's mark (`orchestrator.py:578-628`) | `counter.cfg`, one such file and a clean one, two handlers, `MaxEvents = 2`, `MODEL_ARMOR = FALSE` |
| `ActionNamesItsVersion` (`Delegation`) | every executed action records the boundary version that permitted it (`governance.py:25-27`) | the version is added to the receipt after the row is stored; after a crash nothing names it (`governance.py:892-893`) | `doors.cfg` |
| `SourceExplainsRole` (`Access`) | only a viewer is "viewer by default" (`auth.py:1079-1083`) | somebody whom no role variable lists is told so, also with a higher role that came from a membership | `doors.cfg` |
| `RefusalReachesAPerson` (`Spend`) | "the orchestrator routes the case to a human rather than silently dropping it" (`nebius_client.py:108-111`) | where the exception reaches `advance`, a refusal counts as a failure, and enough of them make DEAD_LETTER (`orchestrator.py:2512-2574`) | `models.cfg` |
| `EveryCallIsAnswered` (`AgentTools`) | an assistant message with tool calls and no matching reply "is a malformed conversation" (`debate_agent.py:386-390`) | a verdict without arguments ends the round and leaves its call, and those after it, unanswered; the auditor is then asked again | `models.cfg` |
| `MarkedHasACase` (`DocumentIntake`) | "Write the marker only after intake, so a failed read can be retried" (`orchestrator.py:1838`) | the marker is written although the intake opened no case | `counter.cfg` |
| `DecidedIsOnTheScreen` (`Worklist`) | `awaiting_execution` is "decided, not yet carried out" (`worklist.py:52`) | `WORK_STATES` lacks EXECUTION_FAILED | `counter.cfg`, `MaxMoves = 5` |

## 7. What is left

1. The delegated executor as a variant of the send phase (`request_protected_action`,
   `internal_execute`): a timeout that hides a success, across two services.
2. The in-memory store under the pipeline, whose handlers share the stored dictionaries.
3. An abstract specification of the desk (what a request, a paper and an approval promise)
   and `EvidenceLoop` shown to implement it.
4. Proofs: the lease theorems and the refinement carried over to `DecisionSpec`, where the
   desk writes beside the executors; the properties listed as only model-checked above.

## 8. Not modelled, and why

* The delegated executor: `EXECUTOR_URL` is unset in the shipped deployment.
* Rendering of papers and dossiers, archives: output that decides nothing.
* Scripts other than the sanctions refresh, infrastructure, simulators, evaluation: they
  run beside the service or before it.
* Read-only routes, validation messages, metrics and the console's pages.
* The parts listed as "partly" in `PROJECT.json` say what they leave out.
