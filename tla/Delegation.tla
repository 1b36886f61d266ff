------------------------------ MODULE Delegation ------------------------------
(* Delegated authority (governance.py and the boundary records of store.py):  *)
(* people publish and revoke delegation boundaries, and the workflow acts     *)
(* only through governance.execute, which reads the active boundary, looks    *)
(* for drift in the recent cases, asks check() and then acts or records the   *)
(* refusal.  Every await of execute is a step: a boundary can be superseded   *)
(* or revoked between the read and the action, and a handler can die.         *)
EXTENDS DelegationRules, Sequences

CONSTANTS Owners,       \* organisations
          Agents,        \* concurrent calls of governance.execute
          People,        \* concurrent publish and revoke requests
          Drafts,        \* the permission objects people submit
          Shipments,     \* the cases that arrive
          proposal,      \* per shipment, the action the workflow proposes
          MaxVersion,    \* bound: versions published per tenant
          MaxCases,      \* bound: cases per tenant
          Window,        \* how many recent cases drift_check reads (60)
          NoBoundary

ASSUME DelegationAssumption ==
  /\ MaxVersion \in Nat /\ MaxCases \in Nat /\ Window \in Nat
  /\ proposal \in [Shipments -> PROTECTED_ACTIONS]
  /\ NoBoundary \notin [version : Nat, status : STRING, permissions : Drafts, supersedes : Nat]

VARIABLES boundaries,    \* per tenant, what was published, by version
          counter,       \* per tenant, the highest version ever allotted
          board,         \* per tenant, the cases in order of arrival
          trail,         \* per tenant, the rows of the append-only audit log
          call,          \* per agent, the execute call it is in
          request        \* per person, the boundary change still to be audited

authorityVars == <<boundaries, counter, board, trail, call, request>>

Statuses == {"ACTIVE", "SUPERSEDED", "REVOKED"}

\* What one publish stores.
Boundary == [version : Nat, status : Statuses, permissions : Drafts, supersedes : Nat]

\* A stored case with the receipts its actions left on it.
Receipt == [action : PROTECTED_ACTIONS, version : Nat]
CaseRec == [shipment : Shipments, state : {"OPEN", "AUTO_CLEARED", "HELD_FOR_REVIEW", "PENDING_HUMAN"},
            receipts : SUBSET Receipt]

\* A row of the trail: an action done or denied, or a change of the boundary.
Row == [kind : {"done", "denied"}, case : Nat, action : PROTECTED_ACTIONS, version : Nat]
         \cup [kind : {"publish", "revoke"}, version : Nat]

\* A call of execute: the case and the action, the boundary it read, the verdict.
IdleCall == [pc |-> "idle"]

ActiveVersions(t) == {v \in DOMAIN boundaries[t] : boundaries[t][v].status = "ACTIVE"}

Newest(S) == CHOOSE v \in S : \A w \in S : w <= v

\* Mutant: the newest record, whatever became of it.
newest_boundary(t) ==
  IF DOMAIN boundaries[t] = {} THEN NoBoundary ELSE boundaries[t][Newest(DOMAIN boundaries[t])]

\* active_boundary: the newest record with status ACTIVE.
active_boundary(t) ==
  IF ActiveVersions(t) = {} THEN NoBoundary ELSE boundaries[t][Newest(ActiveVersions(t))]

VersionOf(b) == IF b = NoBoundary THEN 0 ELSE b.version

AuthorityInit ==
  /\ boundaries = [t \in Owners |-> <<>>]
  /\ counter = [t \in Owners |-> 0]
  /\ board = [t \in Owners |-> <<>>]
  /\ trail = [t \in Owners |-> {}]
  /\ call = [a \in Agents |-> IdleCall]
  /\ request = [p \in People |-> IdleCall]

-----------------------------------------------------------------------------
(* People: publish and revoke, each one transaction and then its audit row.   *)

\* The version after the highest ever allotted, and after every record there is.
NextVersion(t) == Newest({counter[t]} \cup DOMAIN boundaries[t]) + 1

_next_boundary(t, draft) ==
  [version |-> NextVersion(t), status |-> "ACTIVE", permissions |-> draft,
   supersedes |-> VersionOf(active_boundary(t))]

\* Mutants: nothing is retired; a retired record is retired again.
Retired_never(t, v, status) == boundaries[t][v]
Retired_again(t, v, status) == [boundaries[t][v] EXCEPT !.status = status]

\* Every ACTIVE record is retired, not only the newest, and keeps its content.
Retired(t, v, status) == IF v \in ActiveVersions(t)
                         THEN [boundaries[t][v] EXCEPT !.status = status] ELSE boundaries[t][v]

\* A permission object that does not match the schema is refused before anything is
\* written, and a version that exists is refused rather than overwritten.
Publish(p, t, draft) ==
  /\ request[p] = IdleCall
  /\ counter[t] < MaxVersion
  /\ validate_permissions(draft)
  /\ NextVersion(t) \notin DOMAIN boundaries[t]
  /\ boundaries' = [boundaries EXCEPT ![t] =
       [v \in DOMAIN boundaries[t] \cup {NextVersion(t)} |->
          IF v \in DOMAIN boundaries[t] THEN Retired(t, v, "SUPERSEDED")
          ELSE _next_boundary(t, draft)]]
  /\ counter' = [counter EXCEPT ![t] = NextVersion(t)]
  /\ request' = [request EXCEPT ![p] =
                   [pc |-> "publish", tenant |-> t, version |-> NextVersion(t)]]
  /\ UNCHANGED <<board, trail, call>>

Revoke(p, t) ==
  /\ request[p] = IdleCall
  /\ ActiveVersions(t) # {}
  /\ boundaries' = [boundaries EXCEPT ![t] =
       [v \in DOMAIN boundaries[t] |-> Retired(t, v, "REVOKED")]]
  /\ request' = [request EXCEPT ![p] =
                   [pc |-> "revoke", tenant |-> t, version |-> VersionOf(active_boundary(t))]]
  /\ UNCHANGED <<counter, board, trail, call>>

AuditChange(p) ==
  /\ request[p] # IdleCall
  /\ trail' = [trail EXCEPT ![request[p].tenant] =
                 @ \cup {[kind |-> request[p].pc, version |-> request[p].version]}]
  /\ request' = [request EXCEPT ![p] = IdleCall]
  /\ UNCHANGED <<boundaries, counter, board, call>>

-----------------------------------------------------------------------------
(* The workflow: cases arrive, and execute is called for one of them.         *)

Arrive(t, s) ==
  /\ Len(board[t]) < MaxCases
  /\ board' = [board EXCEPT ![t] =
                 Append(@, [shipment |-> s, state |-> "OPEN", receipts |-> {}])]
  /\ UNCHANGED <<boundaries, counter, trail, call, request>>

Calling == {a \in Agents : call[a] # IdleCall}

\* The cases some handler works on: a claimed case has one (module CasePipeline).
InHand == {<<call[a].tenant, call[a].case>> : a \in Calling}

\* agent_readiness, first await: the active boundary.
Begin(a, t, i) ==
  /\ call[a] = IdleCall
  /\ i \in DOMAIN board[t] /\ board[t][i].state = "OPEN"
  /\ <<t, i>> \notin InHand
  /\ call' = [call EXCEPT ![a] =
                [pc |-> "judge", tenant |-> t, case |-> i, action |-> proposal[board[t][i].shipment],
                 boundary |-> active_boundary(t)]]
  /\ UNCHANGED <<boundaries, counter, board, trail, request>>

\* list_cases(60) without the markers: what drift_check looks at.
recent(t) == LET first == IF Len(board[t]) > Window THEN Len(board[t]) - Window + 1 ELSE 1
             IN  {i \in first .. Len(board[t]) : ~board[t][i].shipment.marker}

drift(t) == material(Cardinality(recent(t)),
                     Cardinality({i \in recent(t) : board[t][i].state = "AUTO_CLEARED"}),
                     Cardinality({i \in recent(t) : board[t][i].shipment.vetoed}),
                     Cardinality({i \in recent(t) : Injected(board[t][i].shipment)}))

\* Mutant: the boundary is read again for the check, but not for the receipt.
verdict_of_the_moment(c) ==
  /\ c.boundary # NoBoundary
  /\ active_boundary(c.tenant) # NoBoundary
  /\ ~drift(c.tenant)
  /\ check(c.action, board[c.tenant][c.case].shipment, active_boundary(c.tenant).permissions)

\* execute up to the verdict: no boundary, or material drift, is SUSPENDED; else check().
verdict(c) ==
  /\ c.boundary # NoBoundary
  /\ ~drift(c.tenant)
  /\ check(c.action, board[c.tenant][c.case].shipment, c.boundary.permissions)

Judge(a) ==
  /\ call[a].pc = "judge"
  /\ call' = [call EXCEPT ![a].pc = IF verdict(call[a]) THEN "act" ELSE "deny"]
  /\ UNCHANGED <<boundaries, counter, board, trail, request>>

\* Mutant: a denial leaves no row.
Deny_silently(a) ==
  /\ call[a].pc = "deny"
  /\ call' = [call EXCEPT ![a].pc = "denied"]
  /\ UNCHANGED <<boundaries, counter, board, trail, request>>

\* The denial is a row of the trail, and it names the version.
Deny(a) ==
  /\ call[a].pc = "deny"
  /\ trail' = [trail EXCEPT ![call[a].tenant] =
                 @ \cup {[kind |-> "denied", case |-> call[a].case, action |-> call[a].action,
                          version |-> VersionOf(call[a].boundary)]}]
  /\ call' = [call EXCEPT ![a].pc = "denied"]
  /\ UNCHANGED <<boundaries, counter, board, request>>

\* The tool saves its row; execute adds the version to the returned receipt afterwards,
\* so the row as it is stored names none.
Act(a) ==
  /\ call[a].pc = "act"
  /\ trail' = [trail EXCEPT ![call[a].tenant] =
                 @ \cup {[kind |-> "done", case |-> call[a].case, action |-> call[a].action,
                          version |-> 0]}]
  /\ call' = [call EXCEPT ![a].pc = "acted"]
  /\ UNCHANGED <<boundaries, counter, board, request>>

\* What a call that ended leaves on its case: the receipt and the state of what was done,
\* or the refusal that sends it to a person.
Saved(x, c) ==
  IF c.pc = "denied" THEN [x EXCEPT !.state = "PENDING_HUMAN"]
  ELSE [x EXCEPT !.receipts = @ \cup {[action |-> c.action, version |-> c.boundary.version]},
                 !.state = IF c.action = "release_shipment" THEN "AUTO_CLEARED"
                           ELSE "HELD_FOR_REVIEW"]

\* The caller keeps the receipt on the case and saves the case with its outcome.
SaveCase(a) ==
  /\ call[a].pc \in {"acted", "denied"}
  /\ LET c == call[a] IN board' = [board EXCEPT ![c.tenant][c.case] = Saved(@, c)]
  /\ call' = [call EXCEPT ![a] = IdleCall]
  /\ UNCHANGED <<boundaries, counter, trail, request>>

\* The process dies: what a handler had in memory is gone.
Die ==
  /\ \/ Calling # {}
     \/ \E p \in People : request[p] # IdleCall
  /\ call' = [a \in Agents |-> IdleCall]
  /\ request' = [p \in People |-> IdleCall]
  /\ UNCHANGED <<boundaries, counter, board, trail>>

AuthorityNext ==
  \/ \E p \in People, t \in Owners, d \in Drafts : Publish(p, t, d)
  \/ \E p \in People, t \in Owners : Revoke(p, t)
  \/ \E p \in People : AuditChange(p)
  \/ \E t \in Owners, s \in Shipments : Arrive(t, s)
  \/ \E a \in Agents, t \in Owners, i \in 1 .. MaxCases : Begin(a, t, i)
  \/ \E a \in Agents : Judge(a) \/ Deny(a) \/ Act(a) \/ SaveCase(a)
  \/ Die

AuthoritySpec == AuthorityInit /\ [][AuthorityNext]_authorityVars

-----------------------------------------------------------------------------
(* Properties.                                                                *)

\* At any time at most one boundary of a tenant is in force, whoever publishes and revokes
\* concurrently (store.publish_boundary, revoke_active_boundary).
OneActive == \A t \in Owners : \A v, w \in ActiveVersions(t) : v = w

\* A published version keeps its permissions for ever and is never handed out again; its
\* status changes once, from ACTIVE (the review findings A02 and T01 quoted in the store).
HistoryIsKept ==
  [][\A t \in Owners : \A v \in DOMAIN boundaries[t] :
       /\ v \in DOMAIN boundaries'[t]
       /\ boundaries'[t][v].permissions = boundaries[t][v].permissions
       /\ boundaries'[t][v].version = v
       /\ boundaries[t][v].status # "ACTIVE" => boundaries'[t][v] = boundaries[t][v]]_authorityVars

\* Every receipt a case keeps names a version of its own tenant whose permissions, read
\* today, still allow that action on that case: a past action can be reconstructed
\* (governance.execute and the store's version numbers).
ActedUnderAuthority ==
  \A t \in Owners : \A i \in DOMAIN board[t] : \A r \in board[t][i].receipts :
    /\ r.version \in DOMAIN boundaries[t]
    /\ check(r.action, board[t][i].shipment, boundaries[t][r.version].permissions)

\* What a saved case shows of its actions is also in the append-only trail: a release has
\* a done row, a case that came back to a person has a denied one (governance.execute).
OutcomesAreInTheTrail ==
  \A t \in Owners : \A i \in DOMAIN board[t] :
    /\ \A r \in board[t][i].receipts :
         \E row \in trail[t] : row.kind = "done" /\ row.case = i /\ row.action = r.action
    /\ board[t][i].state = "AUTO_CLEARED" =>
         \E r \in board[t][i].receipts : r.action = "release_shipment"
    /\ board[t][i].state = "PENDING_HUMAN" =>
         \E row \in trail[t] : row.kind = "denied" /\ row.case = i

\* No authority, and no call still holding some that it read before.
Suspended(t) ==
  /\ ActiveVersions(t) = {}
  /\ \A a \in Calling : \/ call[a].tenant # t
                        \/ call[a].pc \notin {"judge", "act"}
                        \/ call[a].boundary = NoBoundary

DoneRows(t) == {row \in trail[t] : row.kind = "done"}

\* The kill switch holds: once nothing is in force and the calls that were under way have
\* ended, no action is done for the tenant until somebody publishes again
\* (governance.revoke_boundary, agent_readiness).
RevocationHolds ==
  [][\A t \in Owners : Suspended(t) =>
       \/ counter'[t] > counter[t]
       \/ Suspended(t)' /\ DoneRows(t)' = DoneRows(t)]_authorityVars

\* No published boundary waives the triggers that always need a person: a case with an
\* injection or an attempt on a decision field has no receipt (governance._human_triggers).
NeverWaived ==
  \A t \in Owners : \A i \in DOMAIN board[t] :
    board[t][i].receipts # {} =>
      ~board[t][i].shipment.screened /\ ~board[t][i].shipment.forbidden

\* What the docstring of governance.py says: every executed action records the boundary
\* version that permitted it, in the trail, on its case, or still in its handler's hands.
ActionNamesItsVersion ==
  \A t \in Owners : \A row \in DoneRows(t) :
    \/ row.version # 0
    \/ \E r \in board[t][row.case].receipts : r.action = row.action
    \/ \E a \in Calling : /\ call[a].tenant = t
                         /\ call[a].case = row.case /\ call[a].pc = "acted"
=============================================================================
