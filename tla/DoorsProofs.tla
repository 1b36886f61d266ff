------------------------------ MODULE DoorsProofs ------------------------------
(* What the doors of the service rest on, for any number of organisations,     *)
(* people, requests and counters: delegated authority whatever is published,   *)
(* revoked or lost between the steps of a call; the login throttle on either   *)
(* store; and the identity of a request whatever revisions were started.       *)
EXTENDS Delegation, LoginThrottle, Access, SequenceTheorems, FiniteSetTheorems, TLAPS

-----------------------------------------------------------------------------
(* The inductive invariant.  A call works with the boundary it read; what that *)
(* boundary permits has to stay readable under its version.                    *)

CallRec == [pc : {"judge", "act", "deny", "acted", "denied"}, tenant : Owners, case : Nat,
            action : PROTECTED_ACTIONS, boundary : Boundary \cup {NoBoundary}]
RequestRec == [pc : {"publish", "revoke"}, tenant : Owners, version : Nat]

\* Versions are numbered from 1 up to the counter and know their number.
Numbered(B, n) == \A v \in DOMAIN B : v \in 1 .. n /\ B[v] \in Boundary /\ B[v].version = v

AuthorityTyped ==
  /\ boundaries = [t \in Owners |-> boundaries[t]]
  /\ counter \in [Owners -> Nat]
  /\ \A t \in Owners : Numbered(boundaries[t], counter[t])
  /\ board \in [Owners -> Seq(CaseRec)]
  /\ trail \in [Owners -> SUBSET Row]
  /\ call \in [Agents -> CallRec \cup {IdleCall}]
  /\ request \in [People -> RequestRec \cup {IdleCall}]

\* A boundary that was read is still there, with the same permissions.
Readable(b, B) == b.version \in DOMAIN B /\ B[b.version].permissions = b.permissions

CallFits(c, B, bd, rows) ==
  c # IdleCall =>
    /\ c.case \in DOMAIN bd[c.tenant]
    /\ c.boundary # NoBoundary => Readable(c.boundary, B[c.tenant])
    /\ c.pc \in {"act", "acted"} =>
         /\ c.boundary # NoBoundary
         /\ check(c.action, bd[c.tenant][c.case].shipment, c.boundary.permissions)
    /\ c.pc = "acted" =>
         \E row \in rows[c.tenant] : row.kind = "done" /\ row.case = c.case /\ row.action = c.action
    /\ c.pc = "denied" => \E row \in rows[c.tenant] : row.kind = "denied" /\ row.case = c.case

CallsFit == \A a \in Agents : CallFits(call[a], boundaries, board, trail)

\* What a case shows, of one of its organisation's boundaries and rows.
CaseFits(x, i, B, rows) ==
  /\ \A r \in x.receipts :
       /\ r.version \in DOMAIN B
       /\ check(r.action, x.shipment, B[r.version].permissions)
       /\ \E row \in rows : row.kind = "done" /\ row.case = i /\ row.action = r.action
  /\ x.state = "AUTO_CLEARED" => \E r \in x.receipts : r.action = "release_shipment"
  /\ x.state = "PENDING_HUMAN" => \E row \in rows : row.kind = "denied" /\ row.case = i

CasesFit == \A t \in Owners : \A i \in DOMAIN board[t] :
              CaseFits(board[t][i], i, boundaries[t], trail[t])

AuthorityInv == AuthorityTyped /\ OneActive /\ CallsFit /\ CasesFit

-----------------------------------------------------------------------------
(* What a step may do to what calls and cases rest on.                         *)

Kept(B, B2) == \A t \in Owners : \A v \in DOMAIN B[t] :
                 v \in DOMAIN B2[t] /\ B2[t][v].permissions = B[t][v].permissions
Longer(bd, bd2) == \A t \in Owners : \A i \in DOMAIN bd[t] :
                     i \in DOMAIN bd2[t] /\ bd2[t][i].shipment = bd[t][i].shipment
More(rows, rows2) == \A t \in Owners : rows[t] \subseteq rows2[t]

LEMMA CallFitsOn ==
  ASSUME NEW c \in CallRec \cup {IdleCall}, NEW B, NEW B2, NEW bd, NEW bd2, NEW rows, NEW rows2,
         CallFits(c, B, bd, rows), Kept(B, B2), Longer(bd, bd2), More(rows, rows2)
  PROVE  CallFits(c, B2, bd2, rows2)
<1> SUFFICES ASSUME c # IdleCall PROVE CallFits(c, B2, bd2, rows2) BY DEF CallFits
<1>1. c.tenant \in Owners BY DEF CallRec
<1>2. /\ c.case \in DOMAIN bd2[c.tenant]
      /\ bd2[c.tenant][c.case].shipment = bd[c.tenant][c.case].shipment
      BY <1>1 DEF CallFits, Longer
<1>3. c.boundary # NoBoundary => Readable(c.boundary, B2[c.tenant])
      BY <1>1 DEF CallFits, Kept, Readable
<1>4. rows[c.tenant] \subseteq rows2[c.tenant] BY <1>1 DEF More
<1> QED BY <1>2, <1>3, <1>4 DEF CallFits

LEMMA CaseFitsOn ==
  ASSUME NEW x, NEW i, NEW t \in Owners, NEW B, NEW B2, NEW rows, NEW rows2,
         CaseFits(x, i, B[t], rows[t]), Kept(B, B2), More(rows, rows2)
  PROVE  CaseFits(x, i, B2[t], rows2[t])
BY DEF CaseFits, Kept, More

\* What is left to show of a step that keeps the boundaries and the rows.
LEMMA StepKeeps ==
  ASSUME AuthorityInv, AuthorityTyped', OneActive',
         Kept(boundaries, boundaries'), Longer(board, board'), More(trail, trail'),
         \A a \in Agents : call'[a] = call[a] \/ CallFits(call'[a], boundaries', board', trail'),
         \A t \in Owners : \A i \in DOMAIN board'[t] :
           \/ i \in DOMAIN board[t] /\ board'[t][i] = board[t][i]
           \/ CaseFits(board'[t][i], i, boundaries'[t], trail'[t])
  PROVE  AuthorityInv'
<1>1. CallsFit'
  <2> SUFFICES ASSUME NEW a \in Agents, call'[a] = call[a]
               PROVE  CallFits(call'[a], boundaries', board', trail')
      BY DEF CallsFit
  <2>1. call[a] \in CallRec \cup {IdleCall} /\ CallFits(call[a], boundaries, board, trail)
        BY DEF AuthorityInv, AuthorityTyped, CallsFit
  <2> QED BY <2>1, CallFitsOn
<1>2. CasesFit'
  <2> SUFFICES ASSUME NEW t \in Owners, NEW i \in DOMAIN board'[t],
                      i \in DOMAIN board[t], board'[t][i] = board[t][i]
               PROVE  CaseFits(board'[t][i], i, boundaries'[t], trail'[t])
      BY DEF CasesFit
  <2>1. CaseFits(board[t][i], i, boundaries[t], trail[t]) BY DEF AuthorityInv, CasesFit
  <2> QED BY <2>1, CaseFitsOn
<1> QED BY <1>1, <1>2 DEF AuthorityInv

-----------------------------------------------------------------------------
(* People.                                                                     *)

\* The number of the next version is the one after the counter.
LEMMA NextIsNew ==
  ASSUME AuthorityInv, NEW t \in Owners
  PROVE  /\ NextVersion(t) = counter[t] + 1 /\ counter[t] \in Nat
         /\ NextVersion(t) \notin DOMAIN boundaries[t]
<1>1. counter[t] \in Nat /\ \A v \in DOMAIN boundaries[t] : v \in 1 .. counter[t]
      BY DEF AuthorityInv, AuthorityTyped, Numbered
<1>2. Newest({counter[t]} \cup DOMAIN boundaries[t]) = counter[t]
  <2> DEFINE S == {counter[t]} \cup DOMAIN boundaries[t]
  <2>1. counter[t] \in S /\ \A w \in S : w \in Nat /\ w <= counter[t] BY <1>1
  <2>2. \A v \in S : (\A w \in S : w <= v) => v = counter[t] BY <2>1
  <2> HIDE DEF S
  <2>3. Newest(S) = counter[t] BY <2>1, <2>2 DEF Newest
  <2> QED BY <2>3 DEF S
<1> QED BY <1>1, <1>2 DEF NextVersion

\* The boundary a call reads is one of the organisation's.
LEMMA ActiveIsReadable ==
  ASSUME AuthorityInv, NEW t \in Owners
  PROVE  /\ active_boundary(t) \in Boundary \cup {NoBoundary}
         /\ active_boundary(t) # NoBoundary => Readable(active_boundary(t), boundaries[t])
         /\ VersionOf(active_boundary(t)) \in Nat
<1>1. Numbered(boundaries[t], counter[t]) BY DEF AuthorityInv, AuthorityTyped
<1>2. CASE ActiveVersions(t) = {} BY <1>2 DEF active_boundary, VersionOf
<1>3. CASE ActiveVersions(t) # {}
  <2> PICK v \in ActiveVersions(t) : TRUE BY <1>3
  <2>1. ActiveVersions(t) = {v} BY DEF AuthorityInv, OneActive
  <2>2. v \in DOMAIN boundaries[t] /\ v \in Nat BY <1>1 DEF ActiveVersions, Numbered
  <2>3. Newest(ActiveVersions(t)) = v BY <2>1, <2>2 DEF Newest
  <2>4. active_boundary(t) = boundaries[t][v] BY <1>3, <2>3 DEF active_boundary
  <2> QED BY <1>1, <2>2, <2>4 DEF Numbered, Readable, VersionOf, Boundary
<1> QED BY <1>2, <1>3

\* A record that is retired keeps everything but its status.
LEMMA RetiredKeeps ==
  ASSUME AuthorityInv, NEW t \in Owners, NEW v \in DOMAIN boundaries[t],
         NEW status \in {"SUPERSEDED", "REVOKED"}
  PROVE  LET b == Retired(t, v, status) IN
         /\ b \in Boundary /\ b.version = v /\ b.status # "ACTIVE"
         /\ b.permissions = boundaries[t][v].permissions
         /\ boundaries[t][v].status # "ACTIVE" => b = boundaries[t][v]
<1>1. boundaries[t][v] \in Boundary /\ boundaries[t][v].version = v
      BY DEF AuthorityInv, AuthorityTyped, Numbered
<1>2. status \in Statuses BY DEF Statuses
<1> QED BY <1>1, <1>2 DEF Retired, ActiveVersions, Boundary

\* The body of HistoryIsKept: a step keeps every published version.
HistoryStep ==
  \A t \in Owners : \A v \in DOMAIN boundaries[t] :
    /\ v \in DOMAIN boundaries'[t]
    /\ boundaries'[t][v].permissions = boundaries[t][v].permissions
    /\ boundaries'[t][v].version = v
    /\ boundaries[t][v].status # "ACTIVE" => boundaries'[t][v] = boundaries[t][v]

\* One organisation's boundaries become `new` and its counter n.
LEMMA BoundariesMove ==
  ASSUME AuthorityInv, NEW t \in Owners, NEW new, NEW n \in Nat, NEW p \in People, NEW r \in RequestRec,
         boundaries' = [boundaries EXCEPT ![t] = new], counter' = [counter EXCEPT ![t] = n],
         request' = [request EXCEPT ![p] = r], UNCHANGED <<board, trail, call>>,
         Numbered(new, n),
         \A v, w \in DOMAIN new : new[v].status = "ACTIVE" /\ new[w].status = "ACTIVE" => v = w,
         \A v \in DOMAIN boundaries[t] :
           /\ v \in DOMAIN new /\ new[v].permissions = boundaries[t][v].permissions
           /\ boundaries[t][v].status # "ACTIVE" => new[v] = boundaries[t][v]
  PROVE  AuthorityInv' /\ HistoryStep
<1>1. boundaries'[t] = new /\ \A u \in Owners \ {t} : boundaries'[u] = boundaries[u]
      BY DEF AuthorityInv, AuthorityTyped
<1>2. AuthorityTyped'
  <2>1. boundaries' = [u \in Owners |-> boundaries'[u]] BY DEF AuthorityInv, AuthorityTyped
  <2>2. counter' \in [Owners -> Nat] BY DEF AuthorityInv, AuthorityTyped
  <2>3. ASSUME NEW u \in Owners PROVE Numbered(boundaries'[u], counter'[u])
    <3>1. CASE u = t BY <1>1, <3>1 DEF AuthorityInv, AuthorityTyped
    <3>2. CASE u # t
      <4>1. counter'[u] = counter[u] BY <3>2 DEF AuthorityInv, AuthorityTyped
      <4> QED BY <1>1, <3>2, <4>1 DEF AuthorityInv, AuthorityTyped
    <3> QED BY <3>1, <3>2
  <2>4. request' \in [People -> RequestRec \cup {IdleCall}] BY DEF AuthorityInv, AuthorityTyped
  <2> QED BY <2>1, <2>2, <2>3, <2>4 DEF AuthorityInv, AuthorityTyped
<1>3. OneActive'
  <2> SUFFICES ASSUME NEW u \in Owners, NEW v \in ActiveVersions(u)', NEW w \in ActiveVersions(u)'
               PROVE  v = w
      BY DEF OneActive
  <2>1. CASE u = t BY <1>1, <2>1 DEF ActiveVersions
  <2>2. CASE u # t BY <1>1, <2>2 DEF ActiveVersions, AuthorityInv, OneActive
  <2> QED BY <2>1, <2>2
<1>4. HistoryStep
  <2> SUFFICES ASSUME NEW u \in Owners, NEW v \in DOMAIN boundaries[u]
               PROVE  /\ v \in DOMAIN boundaries'[u]
                      /\ boundaries'[u][v].permissions = boundaries[u][v].permissions
                      /\ boundaries'[u][v].version = v
                      /\ boundaries[u][v].status # "ACTIVE" => boundaries'[u][v] = boundaries[u][v]
      BY DEF HistoryStep
  <2>1. Numbered(boundaries[u], counter[u]) BY DEF AuthorityInv, AuthorityTyped
  <2>2. CASE u = t BY <1>1, <2>2 DEF Numbered
  <2>3. CASE u # t BY <1>1, <2>1, <2>3 DEF Numbered
  <2> QED BY <2>2, <2>3
<1>5. Kept(boundaries, boundaries') BY <1>4 DEF HistoryStep, Kept
<1>6. Longer(board, board') /\ More(trail, trail') BY DEF Longer, More
<1> QED BY <1>2, <1>3, <1>4, <1>5, <1>6, StepKeeps

LEMMA PublishKeeps ==
  ASSUME AuthorityInv, NEW p \in People, NEW t \in Owners, NEW d \in Drafts, Publish(p, t, d)
  PROVE  AuthorityInv' /\ HistoryStep
<1> DEFINE n   == counter[t] + 1
           new == [v \in DOMAIN boundaries[t] \cup {n} |->
                     IF v \in DOMAIN boundaries[t] THEN Retired(t, v, "SUPERSEDED")
                     ELSE _next_boundary(t, d)]
           r   == [pc |-> "publish", tenant |-> t, version |-> n]
<1>1. NextVersion(t) = n /\ n \in Nat /\ n \notin DOMAIN boundaries[t] /\ counter[t] \in Nat BY NextIsNew
<1>2. /\ boundaries' = [boundaries EXCEPT ![t] = new] /\ counter' = [counter EXCEPT ![t] = n]
      /\ request' = [request EXCEPT ![p] = r] /\ UNCHANGED <<board, trail, call>>
      BY <1>1 DEF Publish
<1>3. /\ _next_boundary(t, d) \in Boundary /\ _next_boundary(t, d).version = n
      BY <1>1, ActiveIsReadable DEF _next_boundary, Boundary, Statuses
<1>4. \A v \in DOMAIN boundaries[t] : v \in 1 .. counter[t]
      BY DEF AuthorityInv, AuthorityTyped, Numbered
<1>5. \A v \in DOMAIN boundaries[t] : new[v] = Retired(t, v, "SUPERSEDED") OBVIOUS
<1>6. new[n] = _next_boundary(t, d) BY <1>1
<1>7. DOMAIN new = DOMAIN boundaries[t] \cup {n} OBVIOUS
<1>8. r \in RequestRec BY <1>1 DEF RequestRec
<1> HIDE DEF new, n, r
<1>9. Numbered(new, n) BY <1>1, <1>3, <1>4, <1>5, <1>6, <1>7, RetiredKeeps DEF Numbered, n
<1>10. \A v \in DOMAIN boundaries[t] :
         /\ new[v].status # "ACTIVE" /\ new[v].permissions = boundaries[t][v].permissions
         /\ boundaries[t][v].status # "ACTIVE" => new[v] = boundaries[t][v]
      BY <1>5, RetiredKeeps
<1>11. \A v, w \in DOMAIN new : new[v].status = "ACTIVE" /\ new[w].status = "ACTIVE" => v = w
      BY <1>7, <1>10
<1>12. \A v \in DOMAIN boundaries[t] :
         /\ v \in DOMAIN new /\ new[v].permissions = boundaries[t][v].permissions
         /\ boundaries[t][v].status # "ACTIVE" => new[v] = boundaries[t][v]
      BY <1>7, <1>10
<1> QED BY <1>1, <1>2, <1>8, <1>9, <1>11, <1>12, BoundariesMove

LEMMA RevokeKeeps ==
  ASSUME AuthorityInv, NEW p \in People, NEW t \in Owners, Revoke(p, t)
  PROVE  AuthorityInv' /\ HistoryStep
<1> DEFINE new == [v \in DOMAIN boundaries[t] |-> Retired(t, v, "REVOKED")]
           r   == [pc |-> "revoke", tenant |-> t, version |-> VersionOf(active_boundary(t))]
<1>1. /\ boundaries' = [boundaries EXCEPT ![t] = new]
      /\ request' = [request EXCEPT ![p] = r] /\ UNCHANGED <<counter, board, trail, call>>
      BY DEF Revoke
<1>2. counter[t] \in Nat /\ counter' = [counter EXCEPT ![t] = counter[t]]
      BY <1>1 DEF AuthorityInv, AuthorityTyped
<1>3. DOMAIN new = DOMAIN boundaries[t] /\ \A v \in DOMAIN new : new[v] = Retired(t, v, "REVOKED")
      OBVIOUS
<1>4. r \in RequestRec BY ActiveIsReadable DEF RequestRec
<1> HIDE DEF new, r
<1>5. Numbered(new, counter[t])
      BY <1>3, RetiredKeeps DEF AuthorityInv, AuthorityTyped, Numbered
<1>6. \A v \in DOMAIN boundaries[t] :
         /\ new[v].status # "ACTIVE" /\ new[v].permissions = boundaries[t][v].permissions
         /\ boundaries[t][v].status # "ACTIVE" => new[v] = boundaries[t][v]
      BY <1>3, RetiredKeeps
<1>7. \A v, w \in DOMAIN new : new[v].status = "ACTIVE" /\ new[w].status = "ACTIVE" => v = w
      BY <1>3, <1>6
<1>8. \A v \in DOMAIN boundaries[t] :
         /\ v \in DOMAIN new /\ new[v].permissions = boundaries[t][v].permissions
         /\ boundaries[t][v].status # "ACTIVE" => new[v] = boundaries[t][v]
      BY <1>3, <1>6
<1> QED BY <1>1, <1>2, <1>4, <1>5, <1>7, <1>8, BoundariesMove

\* A step that leaves the boundaries alone.
LEMMA QuietKeeps ==
  ASSUME AuthorityInv, UNCHANGED <<boundaries, counter>>,
         board' \in [Owners -> Seq(CaseRec)], trail' \in [Owners -> SUBSET Row],
         call' \in [Agents -> CallRec \cup {IdleCall}],
         request' \in [People -> RequestRec \cup {IdleCall}],
         Longer(board, board'), More(trail, trail'),
         \A a \in Agents : call'[a] = call[a] \/ CallFits(call'[a], boundaries, board', trail'),
         \A t \in Owners : \A i \in DOMAIN board'[t] :
           \/ i \in DOMAIN board[t] /\ board'[t][i] = board[t][i]
           \/ CaseFits(board'[t][i], i, boundaries[t], trail'[t])
  PROVE  AuthorityInv' /\ HistoryStep
<1>1. AuthorityTyped' BY DEF AuthorityInv, AuthorityTyped
<1>2. OneActive' BY DEF AuthorityInv, OneActive, ActiveVersions
<1>3. Kept(boundaries, boundaries') BY DEF Kept
<1>4. HistoryStep BY DEF HistoryStep, AuthorityInv, AuthorityTyped, Numbered
<1> QED BY <1>1, <1>2, <1>3, <1>4, StepKeeps

\* The audit row of a boundary change.
LEMMA AuditChangeKeeps ==
  ASSUME AuthorityInv, NEW p \in People, AuditChange(p) PROVE AuthorityInv' /\ HistoryStep
<1>1. request[p] \in RequestRec BY DEF AuditChange, AuthorityInv, AuthorityTyped
<1> DEFINE row == [kind |-> request[p].pc, version |-> request[p].version]
<1>2. row \in Row BY <1>1 DEF RequestRec, Row
<1>3. /\ trail' = [trail EXCEPT ![request[p].tenant] = @ \cup {row}]
      /\ request' = [request EXCEPT ![p] = IdleCall] /\ UNCHANGED <<boundaries, counter, board, call>>
      BY DEF AuditChange
<1> HIDE DEF row
<1>4. trail' \in [Owners -> SUBSET Row] /\ More(trail, trail')
      BY <1>2, <1>3 DEF AuthorityInv, AuthorityTyped, More
<1>5. request' \in [People -> RequestRec \cup {IdleCall}] BY <1>3 DEF AuthorityInv, AuthorityTyped
<1>6. Longer(board, board') BY <1>3 DEF Longer
<1>7. board' \in [Owners -> Seq(CaseRec)] /\ call' \in [Agents -> CallRec \cup {IdleCall}]
      BY <1>3 DEF AuthorityInv, AuthorityTyped
<1> QED BY <1>3, <1>4, <1>5, <1>6, <1>7, QuietKeeps

-----------------------------------------------------------------------------
(* The workflow.                                                               *)

LEMMA ArriveKeeps ==
  ASSUME AuthorityInv, NEW t \in Owners, NEW s \in Shipments, Arrive(t, s)
  PROVE  AuthorityInv' /\ HistoryStep
<1> DEFINE x == [shipment |-> s, state |-> "OPEN", receipts |-> {}]
<1>1. x \in CaseRec /\ \A i, B, rows : CaseFits(x, i, B, rows) BY DEF CaseRec, CaseFits
<1>2. board' = [board EXCEPT ![t] = Append(board[t], x)]
      /\ UNCHANGED <<boundaries, counter, trail, call, request>>
      BY DEF Arrive
<1> HIDE DEF x
<1>3. board[t] \in Seq(CaseRec) BY DEF AuthorityInv, AuthorityTyped
<1>4. /\ Append(board[t], x) \in Seq(CaseRec)
      /\ DOMAIN Append(board[t], x) = DOMAIN board[t] \cup {Len(board[t]) + 1}
      /\ \A i \in DOMAIN board[t] : Append(board[t], x)[i] = board[t][i]
      /\ Append(board[t], x)[Len(board[t]) + 1] = x
      BY <1>1, <1>3
<1>5. board' \in [Owners -> Seq(CaseRec)] BY <1>2, <1>4 DEF AuthorityInv, AuthorityTyped
<1>6. board'[t] = Append(board[t], x) /\ \A u \in Owners \ {t} : board'[u] = board[u]
      BY <1>2 DEF AuthorityInv, AuthorityTyped
<1>7. Longer(board, board') BY <1>4, <1>6 DEF Longer
<1>8. More(trail, trail') BY <1>2 DEF More
<1>9. ASSUME NEW u \in Owners, NEW i \in DOMAIN board'[u]
      PROVE  \/ i \in DOMAIN board[u] /\ board'[u][i] = board[u][i]
             \/ CaseFits(board'[u][i], i, boundaries[u], trail'[u])
  <2>1. CASE u = t BY <1>1, <1>4, <1>6, <2>1
  <2>2. CASE u # t BY <1>6, <2>2
  <2> QED BY <2>1, <2>2
<1>10. /\ trail' \in [Owners -> SUBSET Row] /\ call' \in [Agents -> CallRec \cup {IdleCall}]
       /\ request' \in [People -> RequestRec \cup {IdleCall}]
       BY <1>2 DEF AuthorityInv, AuthorityTyped
<1> QED BY <1>2, <1>5, <1>7, <1>8, <1>9, <1>10, QuietKeeps

\* A call moves on as `c`; rows may be added, the cases stay.
LEMMA CallMoves ==
  ASSUME AuthorityInv, NEW a \in Agents, NEW c \in CallRec \cup {IdleCall},
         call' = [call EXCEPT ![a] = c], UNCHANGED <<boundaries, counter, board, request>>,
         trail' \in [Owners -> SUBSET Row], More(trail, trail'),
         CallFits(c, boundaries, board, trail')
  PROVE  AuthorityInv' /\ HistoryStep
<1>1. call' \in [Agents -> CallRec \cup {IdleCall}] BY DEF AuthorityInv, AuthorityTyped
<1>2. \A b \in Agents : call'[b] = call[b] \/ CallFits(call'[b], boundaries, board', trail')
      BY DEF AuthorityInv, AuthorityTyped
<1>3. Longer(board, board') BY DEF Longer
<1>4. board' \in [Owners -> Seq(CaseRec)] /\ request' \in [People -> RequestRec \cup {IdleCall}]
      BY DEF AuthorityInv, AuthorityTyped
<1> QED BY <1>1, <1>2, <1>3, <1>4, QuietKeeps

LEMMA CallFacts ==
  ASSUME AuthorityInv, NEW a \in Agents
  PROVE  /\ call[a] \in CallRec \cup {IdleCall} /\ CallFits(call[a], boundaries, board, trail)
         /\ trail \in [Owners -> SUBSET Row]
         /\ call[a].pc # "idle" => call[a] \in CallRec /\ call[a] # IdleCall
BY DEF AuthorityInv, AuthorityTyped, CallsFit, IdleCall, CallRec

LEMMA BeginKeeps ==
  ASSUME AuthorityInv, NEW a \in Agents, NEW t \in Owners, NEW i \in 1 .. MaxCases, Begin(a, t, i)
  PROVE  AuthorityInv' /\ HistoryStep
<1> DEFINE c == [pc |-> "judge", tenant |-> t, case |-> i,
                 action |-> proposal[board[t][i].shipment], boundary |-> active_boundary(t)]
<1>1. board[t] \in Seq(CaseRec) /\ i \in DOMAIN board[t] BY DEF Begin, AuthorityInv, AuthorityTyped
<1>2. board[t][i].shipment \in Shipments /\ i \in Nat
  <2>1. board[t][i] \in CaseRec BY <1>1
  <2> QED BY <2>1, DelegationAssumption DEF CaseRec
<1>3. proposal[board[t][i].shipment] \in PROTECTED_ACTIONS BY <1>2, DelegationAssumption
<1>4. c \in CallRec BY <1>2, <1>3, ActiveIsReadable DEF CallRec
<1>5. CallFits(c, boundaries, board, trail) BY <1>1, ActiveIsReadable DEF CallFits
<1>6. call' = [call EXCEPT ![a] = c] /\ UNCHANGED <<boundaries, counter, board, trail, request>>
      BY DEF Begin
<1> HIDE DEF c
<1>7. More(trail, trail') /\ trail' \in [Owners -> SUBSET Row] BY <1>6, CallFacts DEF More
<1> QED BY <1>4, <1>5, <1>6, <1>7, CallMoves

LEMMA JudgeKeeps == ASSUME AuthorityInv, NEW a \in Agents, Judge(a) PROVE AuthorityInv' /\ HistoryStep
<1> DEFINE c == [call[a] EXCEPT !.pc = IF verdict(call[a]) THEN "act" ELSE "deny"]
<1>1. call[a].pc = "judge" /\ call[a] \in CallRec /\ call[a] # IdleCall BY CallFacts DEF Judge
<1>2. /\ c \in CallRec /\ c.tenant = call[a].tenant /\ c.case = call[a].case
      /\ c.action = call[a].action /\ c.boundary = call[a].boundary
      /\ c.pc = IF verdict(call[a]) THEN "act" ELSE "deny"
      BY <1>1 DEF CallRec
<1>3. call' = [call EXCEPT ![a] = c] /\ UNCHANGED <<boundaries, counter, board, trail, request>>
      BY <1>1, CallFacts DEF Judge
<1> HIDE DEF c
<1>4. CallFits(c, boundaries, board, trail)
  <2>1. CallFits(call[a], boundaries, board, trail) BY CallFacts
  <2>2. c.pc = "act" => /\ c.boundary # NoBoundary
                        /\ check(c.action, board[c.tenant][c.case].shipment, c.boundary.permissions)
        BY <1>2 DEF verdict
  <2>3. c.pc \notin {"acted", "denied"} BY <1>2
  <2> QED BY <1>1, <1>2, <2>1, <2>2, <2>3 DEF CallFits
<1>5. More(trail, trail') /\ trail' \in [Owners -> SUBSET Row] BY <1>3, CallFacts DEF More
<1> QED BY <1>2, <1>3, <1>4, <1>5, CallMoves

LEMMA DenyKeeps == ASSUME AuthorityInv, NEW a \in Agents, Deny(a) PROVE AuthorityInv' /\ HistoryStep
<1> DEFINE c   == [call[a] EXCEPT !.pc = "denied"]
           row == [kind |-> "denied", case |-> call[a].case, action |-> call[a].action,
                   version |-> VersionOf(call[a].boundary)]
<1>1. call[a].pc = "deny" /\ call[a] \in CallRec /\ call[a] # IdleCall BY CallFacts DEF Deny
<1>2. /\ c \in CallRec /\ c.tenant = call[a].tenant /\ c.case = call[a].case
      /\ c.boundary = call[a].boundary /\ c.pc = "denied"
      BY <1>1 DEF CallRec
<1>3. row \in Row /\ row.kind = "denied" /\ row.case = c.case
  <2>1. VersionOf(call[a].boundary) \in Nat BY <1>1 DEF CallRec, VersionOf, Boundary
  <2> QED BY <1>1, <1>2, <2>1 DEF Row, CallRec
<1>4. /\ call' = [call EXCEPT ![a] = c] /\ UNCHANGED <<boundaries, counter, board, request>>
      /\ trail' = [trail EXCEPT ![c.tenant] = @ \cup {row}]
      BY <1>1, <1>2, CallFacts DEF Deny
<1>5. CallFits(call[a], boundaries, board, trail) /\ c.tenant \in Owners
      BY <1>1, <1>2, CallFacts DEF CallRec
<1> HIDE DEF c, row
<1>6. More(trail, trail') /\ trail' \in [Owners -> SUBSET Row] /\ row \in trail'[c.tenant]
      BY <1>3, <1>4, <1>5, CallFacts DEF More
<1>7. CallFits(c, boundaries, board, trail') BY <1>1, <1>2, <1>3, <1>5, <1>6 DEF CallFits
<1> QED BY <1>2, <1>4, <1>6, <1>7, CallMoves

LEMMA ActKeeps == ASSUME AuthorityInv, NEW a \in Agents, Act(a) PROVE AuthorityInv' /\ HistoryStep
<1> DEFINE c   == [call[a] EXCEPT !.pc = "acted"]
           row == [kind |-> "done", case |-> call[a].case, action |-> call[a].action, version |-> 0]
<1>1. call[a].pc = "act" /\ call[a] \in CallRec /\ call[a] # IdleCall BY CallFacts DEF Act
<1>2. /\ c \in CallRec /\ c.tenant = call[a].tenant /\ c.case = call[a].case
      /\ c.action = call[a].action /\ c.boundary = call[a].boundary /\ c.pc = "acted"
      BY <1>1 DEF CallRec
<1>3. row \in Row /\ row.kind = "done" /\ row.case = c.case /\ row.action = c.action
      BY <1>1, <1>2 DEF Row, CallRec
<1>4. /\ call' = [call EXCEPT ![a] = c] /\ UNCHANGED <<boundaries, counter, board, request>>
      /\ trail' = [trail EXCEPT ![c.tenant] = @ \cup {row}]
      BY <1>1, <1>2, CallFacts DEF Act
<1>5. CallFits(call[a], boundaries, board, trail) /\ c.tenant \in Owners
      BY <1>1, <1>2, CallFacts DEF CallRec
<1> HIDE DEF c, row
<1>6. More(trail, trail') /\ trail' \in [Owners -> SUBSET Row] /\ row \in trail'[c.tenant]
      BY <1>3, <1>4, <1>5, CallFacts DEF More
<1>7. CallFits(c, boundaries, board, trail') BY <1>1, <1>2, <1>3, <1>5, <1>6 DEF CallFits
<1> QED BY <1>2, <1>4, <1>6, <1>7, CallMoves

\* The case a call saves: back with a person, or with the receipt of what was done.
LEMMA SavedFits ==
  ASSUME NEW c \in CallRec, NEW B, NEW bd, NEW rows, CallFits(c, B, bd, rows),
         c # IdleCall, c.pc \in {"acted", "denied"},
         NEW x \in CaseRec, x = bd[c.tenant][c.case], CaseFits(x, c.case, B[c.tenant], rows[c.tenant])
  PROVE  /\ Saved(x, c) \in CaseRec /\ Saved(x, c).shipment = x.shipment
         /\ CaseFits(Saved(x, c), c.case, B[c.tenant], rows[c.tenant])
<1>1. CASE c.pc = "denied"
  <2> DEFINE y == [x EXCEPT !.state = "PENDING_HUMAN"]
  <2>1. y \in CaseRec /\ y.shipment = x.shipment /\ y.receipts = x.receipts /\ y.state = "PENDING_HUMAN"
        BY DEF CaseRec
  <2>2. Saved(x, c) = y BY <1>1 DEF Saved
  <2> HIDE DEF y
  <2>3. CaseFits(y, c.case, B[c.tenant], rows[c.tenant]) BY <1>1, <2>1 DEF CaseFits, CallFits
  <2> QED BY <2>1, <2>2, <2>3
<1>2. CASE c.pc = "acted"
  <2> DEFINE r == [action |-> c.action, version |-> c.boundary.version]
             s == IF c.action = "release_shipment" THEN "AUTO_CLEARED" ELSE "HELD_FOR_REVIEW"
             y == [x EXCEPT !.receipts = @ \cup {r}, !.state = s]
  <2>1. c.boundary \in Boundary /\ Readable(c.boundary, B[c.tenant])
        BY <1>2 DEF CallRec, CallFits
  <2>2. r \in Receipt /\ r.action = c.action /\ r.version = c.boundary.version
        BY <2>1 DEF CallRec, Receipt, Boundary
  <2>3. s \in {"AUTO_CLEARED", "HELD_FOR_REVIEW"} OBVIOUS
  <2>4. /\ y \in CaseRec /\ y.shipment = x.shipment /\ y.receipts = x.receipts \cup {r} /\ y.state = s
        BY <2>2, <2>3 DEF CaseRec
  <2>5. Saved(x, c) = y BY <1>2 DEF Saved
  <2>6. s = "AUTO_CLEARED" => c.action = "release_shipment" OBVIOUS
  <2> HIDE DEF r, s, y
  <2>7. /\ r.version \in DOMAIN B[c.tenant]
        /\ check(r.action, x.shipment, B[c.tenant][r.version].permissions)
        /\ \E row \in rows[c.tenant] : row.kind = "done" /\ row.case = c.case /\ row.action = r.action
        BY <1>2, <2>1, <2>2 DEF CallFits, Readable
  <2>8. CaseFits(y, c.case, B[c.tenant], rows[c.tenant])
        BY <2>2, <2>3, <2>4, <2>6, <2>7 DEF CaseFits
  <2> QED BY <2>4, <2>5, <2>8
<1> QED BY <1>1, <1>2

LEMMA SaveCaseKeeps ==
  ASSUME AuthorityInv, NEW a \in Agents, SaveCase(a) PROVE AuthorityInv' /\ HistoryStep
<1> DEFINE c == call[a]
           x == board[c.tenant][c.case]
<1>1. c.pc \in {"acted", "denied"} /\ c \in CallRec /\ c # IdleCall BY CallFacts DEF SaveCase
<1>2. c.tenant \in Owners /\ board[c.tenant] \in Seq(CaseRec) /\ CallFits(c, boundaries, board, trail)
      BY <1>1, CallFacts DEF CallRec, AuthorityInv, AuthorityTyped
<1>3. c.case \in DOMAIN board[c.tenant] BY <1>1, <1>2 DEF CallFits
<1>4. x \in CaseRec /\ CaseFits(x, c.case, boundaries[c.tenant], trail[c.tenant])
      BY <1>2, <1>3 DEF AuthorityInv, CasesFit
<1>5. /\ Saved(x, c) \in CaseRec /\ Saved(x, c).shipment = x.shipment
      /\ CaseFits(Saved(x, c), c.case, boundaries[c.tenant], trail[c.tenant])
      BY <1>1, <1>2, <1>4, SavedFits
<1>6. board' = [board EXCEPT ![c.tenant] = [board[c.tenant] EXCEPT ![c.case] = Saved(x, c)]]
      BY DEF SaveCase, Saved
<1>7. call' = [call EXCEPT ![a] = IdleCall] /\ UNCHANGED <<boundaries, counter, trail, request>>
      BY DEF SaveCase
<1> DEFINE y == Saved(x, c)
<1> HIDE DEF c, x, y
<1>8. /\ board'[c.tenant] = [board[c.tenant] EXCEPT ![c.case] = y]
      /\ \A u \in Owners \ {c.tenant} : board'[u] = board[u]
      BY <1>2, <1>6 DEF AuthorityInv, AuthorityTyped, y
<1>9. /\ [board[c.tenant] EXCEPT ![c.case] = y] \in Seq(CaseRec)
      /\ DOMAIN [board[c.tenant] EXCEPT ![c.case] = y] = DOMAIN board[c.tenant]
  <2>1. y \in CaseRec /\ c.case \in 1 .. Len(board[c.tenant]) BY <1>2, <1>3, <1>5 DEF y
  <2> QED BY <1>2, <2>1, ExceptSeq
<1>10. board' \in [Owners -> Seq(CaseRec)]
      BY <1>6, <1>9 DEF AuthorityInv, AuthorityTyped, y
<1>11. y.shipment = board[c.tenant][c.case].shipment BY <1>5 DEF x, y
<1>12. Longer(board, board')
  <2> SUFFICES ASSUME NEW u \in Owners, NEW i \in DOMAIN board[u]
               PROVE  i \in DOMAIN board'[u] /\ board'[u][i].shipment = board[u][i].shipment
      BY DEF Longer
  <2>1. CASE u = c.tenant BY <1>2, <1>8, <1>9, <1>11, <2>1
  <2>2. CASE u # c.tenant BY <1>8, <2>2
  <2> QED BY <2>1, <2>2
<1>13. ASSUME NEW u \in Owners, NEW i \in DOMAIN board'[u]
       PROVE  \/ i \in DOMAIN board[u] /\ board'[u][i] = board[u][i]
              \/ CaseFits(board'[u][i], i, boundaries[u], trail'[u])
  <2>1. CASE u = c.tenant /\ i = c.case BY <1>2, <1>3, <1>5, <1>7, <1>8, <2>1 DEF y
  <2>2. CASE u = c.tenant /\ i # c.case BY <1>2, <1>8, <1>9, <2>2
  <2>3. CASE u # c.tenant BY <1>8, <2>3
  <2> QED BY <2>1, <2>2, <2>3
<1>14. /\ trail' \in [Owners -> SUBSET Row] /\ call' \in [Agents -> CallRec \cup {IdleCall}]
       /\ request' \in [People -> RequestRec \cup {IdleCall}] /\ More(trail, trail')
       BY <1>7 DEF AuthorityInv, AuthorityTyped, More
<1>15. \A b \in Agents : call'[b] = call[b] \/ CallFits(call'[b], boundaries, board', trail')
       BY <1>7 DEF AuthorityInv, AuthorityTyped, CallFits
<1> QED BY <1>7, <1>10, <1>12, <1>13, <1>14, <1>15, QuietKeeps

LEMMA DieKeeps == ASSUME AuthorityInv, Die PROVE AuthorityInv' /\ HistoryStep
<1>1. /\ call' \in [Agents -> CallRec \cup {IdleCall}] /\ request' \in [People -> RequestRec \cup {IdleCall}]
      /\ \A b \in Agents : call'[b] = IdleCall
      /\ UNCHANGED <<boundaries, counter, board, trail>>
      BY DEF Die
<1>2. Longer(board, board') /\ More(trail, trail') BY <1>1 DEF Longer, More
<1>3. board' \in [Owners -> Seq(CaseRec)] /\ trail' \in [Owners -> SUBSET Row]
      BY <1>1 DEF AuthorityInv, AuthorityTyped
<1>4. \A b \in Agents : CallFits(call'[b], boundaries, board', trail') BY <1>1 DEF CallFits
<1>5. \A u \in Owners : \A i \in DOMAIN board'[u] : i \in DOMAIN board[u] /\ board'[u][i] = board[u][i]
      BY <1>1
<1> QED BY <1>1, <1>2, <1>3, <1>4, <1>5, QuietKeeps

-----------------------------------------------------------------------------
(* The theorems.                                                               *)

LEMMA InitFits == AuthorityInit => AuthorityInv
<1> SUFFICES ASSUME AuthorityInit PROVE AuthorityInv OBVIOUS
<1>1. <<>> \in Seq(CaseRec) /\ DOMAIN <<>> = {} OBVIOUS
<1>2. AuthorityTyped BY <1>1 DEF AuthorityInit, AuthorityTyped, Numbered
<1>3. OneActive BY DEF AuthorityInit, OneActive, ActiveVersions
<1>4. CallsFit BY DEF AuthorityInit, CallsFit, CallFits
<1>5. CasesFit BY <1>1 DEF AuthorityInit, CasesFit
<1> QED BY <1>2, <1>3, <1>4, <1>5 DEF AuthorityInv

\* The inductive step: whoever publishes, revokes, acts or dies, what was permitted
\* stays readable and what was done stays explained (store.py:447, governance.py:854).
THEOREM AuthorityStep ==
  ASSUME AuthorityInv, [AuthorityNext]_authorityVars PROVE AuthorityInv' /\ HistoryStep
<1>1. CASE UNCHANGED authorityVars
  <2>1. /\ UNCHANGED <<boundaries, counter>>
        /\ board' \in [Owners -> Seq(CaseRec)] /\ trail' \in [Owners -> SUBSET Row]
        /\ call' \in [Agents -> CallRec \cup {IdleCall}]
        /\ request' \in [People -> RequestRec \cup {IdleCall}]
        BY <1>1 DEF authorityVars, AuthorityInv, AuthorityTyped
  <2>2. board' = board /\ trail' = trail /\ call' = call BY <1>1 DEF authorityVars
  <2>3. Longer(board, board') /\ More(trail, trail') BY <2>2 DEF Longer, More
  <2> QED BY <2>1, <2>2, <2>3, QuietKeeps
<1>2. ASSUME NEW a \in Agents, Judge(a) \/ Deny(a) \/ Act(a) \/ SaveCase(a)
      PROVE  AuthorityInv' /\ HistoryStep
      BY <1>2, JudgeKeeps, DenyKeeps, ActKeeps, SaveCaseKeeps
<1> QED BY <1>1, <1>2, PublishKeeps, RevokeKeeps, AuditChangeKeeps, ArriveKeeps, BeginKeeps, DieKeeps
        DEF AuthorityNext

LEMMA AlwaysFits == AuthoritySpec => []AuthorityInv
<1>1. AuthorityInv /\ [AuthorityNext]_authorityVars => AuthorityInv' BY AuthorityStep
<1> QED BY InitFits, <1>1, PTL DEF AuthoritySpec

\* At most one boundary of an organisation is in force, whoever publishes and revokes.
THEOREM AuthorityIsOne == AuthoritySpec => []OneActive
<1>1. AuthorityInv => OneActive BY DEF AuthorityInv
<1> QED BY <1>1, AlwaysFits, PTL

\* A published version is never changed and never handed out again, for any number of
\* people and versions (store.publish_boundary).
THEOREM VersionsAreKept == AuthoritySpec => HistoryIsKept
<1>1. AuthorityInv /\ [AuthorityNext]_authorityVars => [HistoryStep]_authorityVars BY AuthorityStep
<1>2. HistoryIsKept <=> [][HistoryStep]_authorityVars BY PTL DEF HistoryIsKept, HistoryStep
<1> QED BY <1>1, <1>2, AlwaysFits, PTL DEF AuthoritySpec

\* Every receipt names a version of its own organisation that allows that action on that
\* case, read at any later time (governance.execute).
THEOREM ActsAreExplained == AuthoritySpec => []ActedUnderAuthority
<1>1. AuthorityInv => ActedUnderAuthority BY DEF AuthorityInv, CasesFit, CaseFits, ActedUnderAuthority
<1> QED BY <1>1, AlwaysFits, PTL

\* The kill switch, step by step: a call that starts without authority ends denied, and
\* only a new version ends the suspension.
LEMMA SuspensionHolds ==
  ASSUME AuthorityInv, AuthorityNext, NEW t \in Owners, Suspended(t)
  PROVE  counter'[t] > counter[t] \/ (Suspended(t)' /\ DoneRows(t)' = DoneRows(t))
<1> DEFINE Quiet == boundaries'[t] = boundaries[t]
           NoneHeld(c) == \/ c.tenant # t \/ c.pc \notin {"judge", "act"} \/ c.boundary = NoBoundary
<1>1. \A a \in Agents : call[a] # IdleCall => NoneHeld(call[a]) BY DEF Suspended, Calling
<1>2. ASSUME ActiveVersions(t)' = {}, DoneRows(t)' = DoneRows(t),
             \A a \in Agents : call'[a] = call[a] \/ call'[a] = IdleCall \/ NoneHeld(call'[a])
      PROVE  Suspended(t)' /\ DoneRows(t)' = DoneRows(t)
      BY <1>1, <1>2 DEF Suspended, Calling
<1>3. Quiet => ActiveVersions(t)' = {} BY DEF Suspended, ActiveVersions
<1>4. ASSUME NEW p \in People, NEW u \in Owners, NEW d \in Drafts, Publish(p, u, d)
      PROVE  counter'[t] > counter[t] \/ (Suspended(t)' /\ DoneRows(t)' = DoneRows(t))
  <2>1. CASE u = t
    <3>1. counter'[t] = NextVersion(t) BY <1>4, <2>1 DEF Publish, AuthorityInv, AuthorityTyped
    <3> QED BY <3>1, NextIsNew
  <2>2. CASE u # t
    <3>1. Quiet /\ UNCHANGED <<trail, call>>
          BY <1>4, <2>2 DEF Publish, AuthorityInv, AuthorityTyped
    <3>2. DoneRows(t)' = DoneRows(t) BY <3>1 DEF DoneRows
    <3> QED BY <1>2, <1>3, <3>1, <3>2
  <2> QED BY <2>1, <2>2
<1>5. ASSUME NEW p \in People, NEW u \in Owners, Revoke(p, u)
      PROVE  Suspended(t)' /\ DoneRows(t)' = DoneRows(t)
  <2>1. u # t BY <1>5 DEF Revoke, Suspended
  <2>2. Quiet /\ UNCHANGED <<trail, call>> BY <1>5, <2>1 DEF Revoke, AuthorityInv, AuthorityTyped
  <2>3. DoneRows(t)' = DoneRows(t) BY <2>2 DEF DoneRows
  <2> QED BY <1>2, <1>3, <2>2, <2>3
<1>6. ASSUME NEW p \in People, AuditChange(p) PROVE Suspended(t)' /\ DoneRows(t)' = DoneRows(t)
  <2>1. request[p] \in RequestRec BY <1>6 DEF AuditChange, AuthorityInv, AuthorityTyped
  <2> DEFINE row == [kind |-> request[p].pc, version |-> request[p].version]
  <2>2. row.kind # "done" BY <2>1 DEF RequestRec
  <2>3. /\ trail' = [trail EXCEPT ![request[p].tenant] = @ \cup {row}] /\ UNCHANGED <<boundaries, call>>
        BY <1>6 DEF AuditChange
  <2> HIDE DEF row
  <2>4. trail'[t] \subseteq trail[t] \cup {row} /\ trail[t] \subseteq trail'[t]
        BY <2>3 DEF AuthorityInv, AuthorityTyped
  <2>5. DoneRows(t)' = DoneRows(t) BY <2>2, <2>4 DEF DoneRows
  <2> QED BY <1>2, <1>3, <2>3, <2>5
<1>7. ASSUME NEW u \in Owners, NEW s \in Shipments, Arrive(u, s)
      PROVE  Suspended(t)' /\ DoneRows(t)' = DoneRows(t)
  <2>1. UNCHANGED <<boundaries, trail, call>> BY <1>7 DEF Arrive
  <2>2. DoneRows(t)' = DoneRows(t) BY <2>1 DEF DoneRows
  <2> QED BY <1>2, <1>3, <2>1, <2>2
<1>8. ASSUME NEW a \in Agents, NEW u \in Owners, NEW i \in 1 .. MaxCases, Begin(a, u, i)
      PROVE  Suspended(t)' /\ DoneRows(t)' = DoneRows(t)
  <2> DEFINE c == [pc |-> "judge", tenant |-> u, case |-> i,
                   action |-> proposal[board[u][i].shipment], boundary |-> active_boundary(u)]
  <2>1. call' = [call EXCEPT ![a] = c] /\ UNCHANGED <<boundaries, trail>> BY <1>8 DEF Begin
  <2>2. c.tenant = u /\ c.boundary = active_boundary(u) OBVIOUS
  <2>3. active_boundary(t) = NoBoundary BY DEF Suspended, active_boundary
  <2>4. NoneHeld(c) BY <2>2, <2>3
  <2> HIDE DEF c
  <2>5. \A b \in Agents : call'[b] = call[b] \/ NoneHeld(call'[b])
        BY <2>1, <2>4 DEF AuthorityInv, AuthorityTyped
  <2>6. DoneRows(t)' = DoneRows(t) BY <2>1 DEF DoneRows
  <2> HIDE DEF NoneHeld
  <2> QED BY <1>2, <1>3, <2>1, <2>5, <2>6
<1>9. ASSUME NEW a \in Agents, Judge(a) PROVE Suspended(t)' /\ DoneRows(t)' = DoneRows(t)
  <2>1. call[a].pc = "judge" /\ call[a] \in CallRec /\ call[a] # IdleCall BY <1>9, CallFacts DEF Judge
  <2> DEFINE c == [call[a] EXCEPT !.pc = IF verdict(call[a]) THEN "act" ELSE "deny"]
  <2>2. c.tenant = call[a].tenant /\ c.boundary = call[a].boundary BY <2>1 DEF CallRec
  <2>3. call' = [call EXCEPT ![a] = c] /\ UNCHANGED <<boundaries, trail>>
        BY <1>9, <2>1, CallFacts DEF Judge
  <2>4. NoneHeld(c) BY <1>1, <2>1, <2>2
  <2> HIDE DEF c
  <2>5. \A b \in Agents : call'[b] = call[b] \/ NoneHeld(call'[b])
        BY <2>3, <2>4 DEF AuthorityInv, AuthorityTyped
  <2>6. DoneRows(t)' = DoneRows(t) BY <2>3 DEF DoneRows
  <2> HIDE DEF NoneHeld
  <2> QED BY <1>2, <1>3, <2>3, <2>5, <2>6
<1>10. ASSUME NEW a \in Agents, NEW place \in {"denied", "acted"}, call[a] \in CallRec,
              call' = [call EXCEPT ![a].pc = place], UNCHANGED boundaries, DoneRows(t)' = DoneRows(t)
       PROVE  Suspended(t)' /\ DoneRows(t)' = DoneRows(t)
  <2>1. call'[a].pc = place /\ \A b \in Agents \ {a} : call'[b] = call[b]
        BY <1>10 DEF AuthorityInv, AuthorityTyped, CallRec
  <2>2. \A b \in Agents : call'[b] = call[b] \/ NoneHeld(call'[b]) BY <2>1
  <2> HIDE DEF NoneHeld
  <2> QED BY <1>2, <1>3, <1>10, <2>2
<1>11. ASSUME NEW a \in Agents, Deny(a) PROVE Suspended(t)' /\ DoneRows(t)' = DoneRows(t)
  <2>1. call[a] \in CallRec BY <1>11, CallFacts DEF Deny
  <2> DEFINE row == [kind |-> "denied", case |-> call[a].case, action |-> call[a].action,
                     version |-> VersionOf(call[a].boundary)]
  <2>2. /\ trail' = [trail EXCEPT ![call[a].tenant] = @ \cup {row}] /\ row.kind # "done"
        /\ call' = [call EXCEPT ![a].pc = "denied"] /\ UNCHANGED boundaries
        BY <1>11 DEF Deny
  <2> HIDE DEF row
  <2>3. trail'[t] \subseteq trail[t] \cup {row} /\ trail[t] \subseteq trail'[t]
        BY <2>2 DEF AuthorityInv, AuthorityTyped
  <2>4. DoneRows(t)' = DoneRows(t) BY <2>2, <2>3 DEF DoneRows
  <2> QED BY <1>10, <2>1, <2>2, <2>4
<1>12. ASSUME NEW a \in Agents, Act(a) PROVE Suspended(t)' /\ DoneRows(t)' = DoneRows(t)
  <2>1. call[a] \in CallRec /\ call[a].pc = "act" /\ call[a] # IdleCall BY <1>12, CallFacts DEF Act
  <2>2. call[a].boundary # NoBoundary BY <2>1, CallFacts DEF CallFits
  <2>3. call[a].tenant # t BY <1>1, <2>1, <2>2
  <2>4. /\ trail'[t] = trail[t] /\ UNCHANGED boundaries /\ call' = [call EXCEPT ![a].pc = "acted"]
        BY <1>12, <2>3 DEF Act, AuthorityInv, AuthorityTyped
  <2>5. DoneRows(t)' = DoneRows(t) BY <2>4 DEF DoneRows
  <2> QED BY <1>10, <2>1, <2>4, <2>5
<1>13. ASSUME NEW a \in Agents, SaveCase(a) \/ Die PROVE Suspended(t)' /\ DoneRows(t)' = DoneRows(t)
  <2>1. /\ \A b \in Agents : call'[b] = call[b] \/ call'[b] = IdleCall
        /\ UNCHANGED <<boundaries, trail>>
        BY <1>13 DEF SaveCase, Die, AuthorityInv, AuthorityTyped
  <2>2. DoneRows(t)' = DoneRows(t) BY <2>1 DEF DoneRows
  <2> HIDE DEF NoneHeld
  <2> QED BY <1>2, <1>3, <2>1, <2>2
<1>14. ASSUME Die PROVE Suspended(t)' /\ DoneRows(t)' = DoneRows(t)
  <2>1. (\A b \in Agents : call'[b] = IdleCall) /\ UNCHANGED <<boundaries, trail>> BY <1>14 DEF Die
  <2>2. DoneRows(t)' = DoneRows(t) BY <2>1 DEF DoneRows
  <2> HIDE DEF NoneHeld
  <2> QED BY <1>2, <1>3, <2>1, <2>2
<1> HIDE DEF NoneHeld, Quiet
<1> QED BY <1>4, <1>5, <1>6, <1>7, <1>8, <1>9, <1>11, <1>12, <1>13, <1>14 DEF AuthorityNext

\* The kill switch holds: once nothing is in force and no call under way holds a boundary
\* it read before, nothing is done for the organisation until somebody publishes again,
\* for any number of calls, people and organisations (governance.revoke_boundary).
THEOREM KillSwitchHolds == AuthoritySpec => RevocationHolds
<1>1. ASSUME AuthorityInv, [AuthorityNext]_authorityVars
      PROVE  [\A t \in Owners : Suspended(t) =>
                \/ counter'[t] > counter[t]
                \/ Suspended(t)' /\ DoneRows(t)' = DoneRows(t)]_authorityVars
      BY <1>1, SuspensionHolds
<1> QED BY <1>1, AlwaysFits, PTL DEF AuthoritySpec, RevocationHolds

\* What a saved case shows is in the append-only trail, done or denied.
THEOREM OutcomesAreExplained == AuthoritySpec => []OutcomesAreInTheTrail
<1>1. AuthorityInv => OutcomesAreInTheTrail BY DEF AuthorityInv, CasesFit, CaseFits, OutcomesAreInTheTrail
<1> QED BY <1>1, AlwaysFits, PTL

-----------------------------------------------------------------------------
(* The login throttle.  In memory the counters of a request are checked and    *)
(* counted in one step; on Firestore each has its own document per window, and *)
(* whoever was let in had counted before reading.                              *)

LEMMA SlotBounds ==
  ASSUME NEW t \in Nat
  PROVE  /\ slot(t) \in 0 .. t
         /\ slot(t) * Span <= t /\ t < slot(t) * Span + Span
BY SMTT(30), ThrottleAssumption DEF slot

LEMMA SameSlot ==
  ASSUME NEW t \in Nat, NEW u \in Nat,
         slot(t) * Span <= u, u <= slot(t) * Span + Span - 1
  PROVE  slot(u) = slot(t)
<1> DEFINE q == slot(t)
           p == slot(u)
<1>1. q \in Nat /\ p \in Nat /\ p * Span <= u /\ u < p * Span + Span /\ Span \in Nat \ {0}
  BY SlotBounds, ThrottleAssumption
<1> HIDE DEF q, p
<1>2. ASSUME p < q PROVE FALSE
  <2>1. q - p - 1 \in Nat BY <1>1, <1>2
  <2>2. (q - p - 1) * Span >= 0 BY <1>1, <2>1
  <2>3. (q - p - 1) * Span = q * Span - p * Span - Span BY <1>1
  <2>4. q * Span \in Int /\ p * Span \in Int BY <1>1
  <2> QED BY <1>1, <2>2, <2>3, <2>4 DEF q
<1>3. ASSUME q < p PROVE FALSE
  <2>1. p - q - 1 \in Nat BY <1>1, <1>3
  <2>2. (p - q - 1) * Span >= 0 BY <1>1, <2>1
  <2>3. (p - q - 1) * Span = p * Span - q * Span - Span BY <1>1
  <2>4. q * Span \in Int /\ p * Span \in Int BY <1>1
  <2> QED BY <1>1, <2>2, <2>3, <2>4 DEF q
<1> QED BY <1>1, <1>2, <1>3 DEF p, q

-----------------------------------------------------------------------------
Passed(k) == {a \in Attempts : hit[a][k].stage \in {"counted", "admitted", "refused"}}
LetIn(k) == {a \in Attempts : hit[a][k].stage = "admitted"}

\* What one window of Firestore counted, and what of it was let through.
Tally(k, w) == {a \in Passed(k) : slot(hit[a][k].at) = w}
Through(k, w) == {a \in LetIn(k) : slot(hit[a][k].at) = w}

\* In memory a check is one step, and no window of any length holds too many.
MemorySound ==
  /\ \A a \in Attempts, k \in Buckets : hit[a][k].stage \notin {"dated", "counted"}
  /\ \A k \in Buckets, t \in Nat : Cardinality(AdmittedIn(k, t - Span + 1, t)) <= Limit[k]

\* On Firestore the document counts no fewer than have passed it.
FirestoreSound ==
  \A k \in Buckets, w \in Slots : /\ Cardinality(Tally(k, w)) <= count[k][w]
                                  /\ Cardinality(Through(k, w)) <= Limit[k]

ThrottleInv ==
  /\ ThrottleTypeOK
  /\ \A a \in Attempts, k \in Buckets : hit[a][k].at <= instant
  /\ \A k \in Buckets : IsFiniteSet(Passed(k))
  /\ backend = "memory" => MemorySound
  /\ backend = "firestore" => FirestoreSound

LEMMA Marked ==
  ASSUME ThrottleTypeOK, NEW a \in Attempts, NEW k \in Buckets, NEW h \in Hits, Mark(a, k, h)
  PROVE  /\ hit' \in [Attempts -> [Buckets -> Hits]]
         /\ hit'[a][k] = h
         /\ \A b \in Attempts, j \in Buckets : b # a \/ j # k => hit'[b][j] = hit[b][j]
BY DEF ThrottleTypeOK, Mark

\* A mark leaves the sets of the other counters alone and of this one touches
\* only its own attempt.
LEMMA SetsMarked ==
  ASSUME ThrottleInv, NEW a \in Attempts, NEW k \in Buckets, NEW h \in Hits, Mark(a, k, h)
  PROVE  /\ \A j \in Buckets : j # k =>
              /\ Passed(j)' = Passed(j) /\ LetIn(j)' = LetIn(j)
              /\ \A w : Tally(j, w)' = Tally(j, w) /\ Through(j, w)' = Through(j, w)
              /\ \A x, y : AdmittedIn(j, x, y)' = AdmittedIn(j, x, y)
         /\ Passed(k)' \subseteq Passed(k) \cup {a}
         /\ \A j \in Buckets : IsFiniteSet(Passed(j)')
<1>1. /\ hit'[a][k] = h
      /\ \A b \in Attempts, j \in Buckets : b # a \/ j # k => hit'[b][j] = hit[b][j]
  BY Marked DEF ThrottleInv
<1>2. \A j \in Buckets : j # k =>
        /\ Passed(j)' = Passed(j) /\ LetIn(j)' = LetIn(j)
        /\ \A w : Tally(j, w)' = Tally(j, w) /\ Through(j, w)' = Through(j, w)
        /\ \A x, y : AdmittedIn(j, x, y)' = AdmittedIn(j, x, y)
  BY <1>1 DEF Passed, LetIn, Tally, Through, AdmittedIn
<1>3. Passed(k)' \subseteq Passed(k) \cup {a} BY <1>1 DEF Passed
<1>4. \A j \in Buckets : IsFiniteSet(Passed(j)')
  <2>1. IsFiniteSet(Passed(k) \cup {a}) BY FS_AddElement DEF ThrottleInv
  <2>2. IsFiniteSet(Passed(k)') BY <1>3, <2>1, FS_Subset
  <2> QED BY <1>2, <2>2 DEF ThrottleInv
<1> QED BY <1>2, <1>3, <1>4

LEMMA Smaller ==
  ASSUME ThrottleInv, NEW k \in Buckets, NEW S, NEW T, S \subseteq T, T \subseteq Passed(k)
  PROVE  IsFiniteSet(T) /\ Cardinality(S) <= Cardinality(T)
         /\ Cardinality(S) \in Nat /\ Cardinality(T) \in Nat
<1>1. IsFiniteSet(T) /\ IsFiniteSet(S) BY FS_Subset DEF ThrottleInv
<1> QED BY <1>1, FS_Subset, FS_CardinalityType

LEMMA OneMore ==
  ASSUME NEW T, IsFiniteSet(T), NEW x, NEW S, S \subseteq T \cup {x}
  PROVE  Cardinality(S) <= Cardinality(T) + 1 /\ Cardinality(S) \in Nat /\ Cardinality(T) \in Nat
<1>1. IsFiniteSet(T \cup {x}) /\ Cardinality(T \cup {x}) <= Cardinality(T) + 1 /\ Cardinality(T) \in Nat
  BY FS_AddElement, FS_CardinalityType
<1>2. IsFiniteSet(S) /\ Cardinality(S) <= Cardinality(T \cup {x}) BY <1>1, FS_Subset
<1> QED BY <1>1, <1>2, FS_CardinalityType

LEMMA MemoryHolds ==
  ASSUME ThrottleInv, ThrottleTypeOK', NEW a \in Attempts, NEW k \in Buckets, HitMemory(a, k)
  PROVE  ThrottleInv'
<1> DEFINE limited == Cardinality(stamps(k, instant)) >= Limit[k]
           h == [stage |-> IF limited THEN "refused" ELSE "admitted", at |-> instant, rank |-> 0]
<1>a. /\ instant \in Nat /\ instant \in 0 .. MaxClock /\ Span \in Nat \ {0} /\ Limit[k] \in Nat
      /\ \A b \in Attempts, j \in Buckets : hit[b][j].at \in Nat /\ hit[b][j].at <= instant
  BY ThrottleAssumption DEF ThrottleInv, ThrottleTypeOK, Hits
<1>1. /\ Mark(a, k, h) /\ h \in Hits /\ backend = "memory" /\ hit[a][k].stage = "none"
      /\ UNCHANGED <<backend, instant, count>>
  BY <1>a DEF HitMemory, NextCheck, Hits, Stages
<1> HIDE DEF h
<1>2. /\ hit'[a][k] = h
      /\ \A b \in Attempts, j \in Buckets : b # a \/ j # k => hit'[b][j] = hit[b][j]
  BY <1>1, Marked DEF ThrottleInv
<1>3. \A b \in Attempts, j \in Buckets : hit'[b][j].at <= instant' BY <1>a, <1>1, <1>2 DEF h
<1>4. \A b \in Attempts, j \in Buckets : hit'[b][j].stage \notin {"dated", "counted"}
  BY <1>1, <1>2 DEF h, ThrottleInv, MemorySound
<1>5. ASSUME NEW j \in Buckets, NEW t \in Nat
      PROVE  Cardinality(AdmittedIn(j, t - Span + 1, t)') <= Limit[j]
  <2>1. CASE j # k \/ AdmittedIn(j, t - Span + 1, t)' = AdmittedIn(j, t - Span + 1, t)
    <3>1. AdmittedIn(j, t - Span + 1, t)' = AdmittedIn(j, t - Span + 1, t)
      BY <1>1, <2>1, SetsMarked
    <3>2. Cardinality(AdmittedIn(j, t - Span + 1, t)) <= Limit[j] BY <1>1 DEF ThrottleInv, MemorySound
    <3> QED BY <3>1, <3>2
  <2>2. CASE j = k /\ AdmittedIn(j, t - Span + 1, t)' # AdmittedIn(j, t - Span + 1, t)
    <3>1. a \in AdmittedIn(k, t - Span + 1, t)'
      BY <1>1, <1>2, <2>2 DEF AdmittedIn
    <3>2. h.stage = "admitted" /\ instant \in t - Span + 1 .. t
      BY <1>2, <3>1 DEF AdmittedIn, h
    <3>3. ~limited BY <3>2 DEF h
    <3>4. AdmittedIn(k, t - Span + 1, t)' \subseteq stamps(k, instant) \cup {a}
      BY <1>2, <1>a, <3>2 DEF AdmittedIn, stamps
    <3>5. stamps(k, instant) \subseteq Passed(k) BY DEF stamps, Passed
    <3>6. IsFiniteSet(stamps(k, instant)) BY <3>5, Smaller
    <3>7. Cardinality(AdmittedIn(k, t - Span + 1, t)') <= Cardinality(stamps(k, instant)) + 1
          /\ Cardinality(AdmittedIn(k, t - Span + 1, t)') \in Nat
          /\ Cardinality(stamps(k, instant)) \in Nat
      BY <3>4, <3>6, OneMore
    <3>8. Cardinality(AdmittedIn(k, t - Span + 1, t)') <= Limit[k] BY <1>a, <3>3, <3>7
    <3> QED BY <2>2, <3>8
  <2> QED BY <2>1, <2>2
<1>6. \A j \in Buckets : IsFiniteSet(Passed(j)') BY <1>1, SetsMarked
<1>7. MemorySound' BY <1>4, <1>5 DEF MemorySound
<1> QED BY <1>1, <1>3, <1>6, <1>7 DEF ThrottleInv

\* On Firestore the window is chosen, counted, read back.
LEMMA FirestoreHolds ==
  ASSUME ThrottleInv, ThrottleTypeOK', NEW a \in Attempts, NEW k \in Buckets,
         ChooseWindow(a, k) \/ Increment(a, k) \/ ReadBack(a, k)
  PROVE  ThrottleInv'
<1>a. /\ instant \in Nat /\ instant \in 0 .. MaxClock /\ Span \in Nat \ {0}
      /\ \A j \in Buckets : Limit[j] \in Nat
      /\ \A b \in Attempts, j \in Buckets : /\ hit[b][j].at \in Nat /\ hit[b][j].at <= instant
                                            /\ hit[b][j] \in Hits
      /\ count \in [Buckets -> [Slots -> Nat]]
  BY ThrottleAssumption DEF ThrottleInv, ThrottleTypeOK, Hits
<1> DEFINE w == slot(hit[a][k].at)
<1>b. w \in Slots
  <2>1. w \in 0 .. hit[a][k].at BY <1>a, SlotBounds
  <2> QED BY <1>a, <2>1, ThrottleAssumption DEF Slots
<1>c. \/ hit[a][k].stage # "dated" /\ hit[a][k].stage # "counted"
      \/ backend = "firestore"
  BY ThrottleAssumption DEF ThrottleInv, MemorySound, ThrottleTypeOK
<1>1. CASE ChooseWindow(a, k)
  <2> DEFINE h == [stage |-> "dated", at |-> instant, rank |-> 0]
  <2>1. /\ Mark(a, k, h) /\ h \in Hits /\ hit[a][k].stage = "none" /\ backend = "firestore"
        /\ UNCHANGED <<backend, instant, count>>
    BY <1>1, <1>a DEF ChooseWindow, NextCheck, Hits, Stages
  <2> HIDE DEF h
  <2>2. /\ hit'[a][k] = h
        /\ \A b \in Attempts, j \in Buckets : b # a \/ j # k => hit'[b][j] = hit[b][j]
    BY <2>1, Marked DEF ThrottleInv
  <2>3. /\ \A j \in Buckets : Passed(j)' = Passed(j) /\ LetIn(j)' = LetIn(j)
        /\ \A j \in Buckets, v \in Slots : Tally(j, v)' = Tally(j, v) /\ Through(j, v)' = Through(j, v)
    BY <2>1, <2>2 DEF Passed, LetIn, Tally, Through, h
  <2>4. \A b \in Attempts, j \in Buckets : hit'[b][j].at <= instant' BY <1>a, <2>1, <2>2 DEF h
  <2>5. \A j \in Buckets : IsFiniteSet(Passed(j)') BY <2>1, SetsMarked
  <2>6. FirestoreSound' BY <2>1, <2>3 DEF ThrottleInv, FirestoreSound
  <2> QED BY <2>1, <2>4, <2>5, <2>6 DEF ThrottleInv
<1>2. CASE Increment(a, k)
  <2> DEFINE h == [hit[a][k] EXCEPT !.stage = "counted", !.rank = count[k][w] + 1]
  <2>1. /\ Mark(a, k, h) /\ hit[a][k].stage = "dated" /\ backend = "firestore"
        /\ count' = [count EXCEPT ![k][w] = @ + 1] /\ UNCHANGED <<backend, instant>>
    BY <1>2, <1>c DEF Increment
  <2>0. count[k][w] + 1 \in Nat BY <1>a, <1>b
  <2>2. h \in Hits /\ h.stage = "counted" /\ h.at = hit[a][k].at
    <3> HIDE DEF w
    <3> QED BY <1>a, <2>0 DEF Hits, Stages
  <2> HIDE DEF h
  <2>3. /\ hit'[a][k] = h
        /\ \A b \in Attempts, j \in Buckets : b # a \/ j # k => hit'[b][j] = hit[b][j]
    BY <2>1, <2>2, Marked DEF ThrottleInv
  <2>4. \A b \in Attempts, j \in Buckets : hit'[b][j].at <= instant' BY <1>a, <2>1, <2>2, <2>3
  <2>5. \A j \in Buckets : IsFiniteSet(Passed(j)') BY <2>1, <2>2, SetsMarked
  <2>6. ASSUME NEW j \in Buckets, NEW v \in Slots
        PROVE  /\ Cardinality(Tally(j, v)') <= count'[j][v]
               /\ Cardinality(Through(j, v)') <= Limit[j]
    <3>1. Through(j, v)' = Through(j, v) BY <2>1, <2>2, <2>3 DEF Through, LetIn
    <3>2. Cardinality(Tally(j, v)) <= count[j][v] /\ Cardinality(Through(j, v)) <= Limit[j]
      BY <2>1 DEF ThrottleInv, FirestoreSound
    <3>3. CASE j = k /\ v = w
      <4>1. Tally(j, v)' \subseteq Tally(j, v) \cup {a}
        BY <2>1, <2>2, <2>3, <3>3 DEF Tally, Passed
      <4>2. Tally(j, v) \subseteq Passed(j) BY DEF Tally
      <4>3. IsFiniteSet(Tally(j, v)) BY <4>2, Smaller
      <4>4. Cardinality(Tally(j, v)') <= Cardinality(Tally(j, v)) + 1
            /\ Cardinality(Tally(j, v)') \in Nat /\ Cardinality(Tally(j, v)) \in Nat
        BY <4>1, <4>3, OneMore
      <4>5. count'[j][v] = count[j][v] + 1 /\ count[j][v] \in Nat BY <1>a, <1>b, <2>1, <3>3
      <4> QED BY <3>1, <3>2, <4>4, <4>5
    <3>4. CASE ~(j = k /\ v = w)
      <4>1. Tally(j, v)' = Tally(j, v) BY <2>1, <2>2, <2>3, <3>4 DEF Tally, Passed
      <4>2. count'[j][v] = count[j][v] BY <1>a, <1>b, <2>1, <3>4
      <4> QED BY <3>1, <3>2, <4>1, <4>2
    <3> QED BY <3>3, <3>4
  <2>7. FirestoreSound' BY <2>6 DEF FirestoreSound
  <2> QED BY <2>1, <2>4, <2>5, <2>7 DEF ThrottleInv
<1>3. CASE ReadBack(a, k)
  <2> DEFINE over == overLimit(k, count[k][w])
             h == [hit[a][k] EXCEPT !.stage = IF over THEN "refused" ELSE "admitted"]
  <2>1. /\ Mark(a, k, h) /\ hit[a][k].stage = "counted" /\ backend = "firestore"
        /\ UNCHANGED <<backend, instant, count>>
    BY <1>3, <1>c DEF ReadBack
  <2>2. /\ h \in Hits /\ h.at = hit[a][k].at
        /\ h.stage = (IF over THEN "refused" ELSE "admitted")
    BY <1>a, <1>b DEF Hits, Stages
  <2> HIDE DEF h, over
  <2>3. /\ hit'[a][k] = h
        /\ \A b \in Attempts, j \in Buckets : b # a \/ j # k => hit'[b][j] = hit[b][j]
    BY <2>1, <2>2, Marked DEF ThrottleInv
  <2>4. \A b \in Attempts, j \in Buckets : hit'[b][j].at <= instant' BY <1>a, <2>1, <2>2, <2>3
  <2>5. \A j \in Buckets : IsFiniteSet(Passed(j)') BY <2>1, <2>2, SetsMarked
  <2>6. ASSUME NEW j \in Buckets, NEW v \in Slots
        PROVE  /\ Cardinality(Tally(j, v)') <= count'[j][v]
               /\ Cardinality(Through(j, v)') <= Limit[j]
    <3>1. Tally(j, v)' = Tally(j, v) BY <2>1, <2>2, <2>3 DEF Tally, Passed
    <3>2. Cardinality(Tally(j, v)) <= count[j][v] /\ Cardinality(Through(j, v)) <= Limit[j]
      BY <2>1 DEF ThrottleInv, FirestoreSound
    <3>3. CASE j = k /\ v = w /\ ~over
      <4>1. Through(j, v)' \subseteq Tally(j, v)
        BY <2>1, <2>2, <2>3, <3>3 DEF Through, LetIn, Tally, Passed
      <4>2. Tally(j, v) \subseteq Passed(j) BY DEF Tally
      <4>3. Cardinality(Through(j, v)') <= Cardinality(Tally(j, v))
            /\ Cardinality(Through(j, v)') \in Nat /\ Cardinality(Tally(j, v)) \in Nat
        BY <4>1, <4>2, Smaller
      <4>4. count[j][v] <= Limit[j] /\ count[j][v] \in Nat
        BY <1>a, <1>b, <3>3 DEF over, overLimit
      <4>5. count' = count /\ Limit[j] \in Nat BY <1>a, <2>1
      <4> QED BY <3>1, <3>2, <4>3, <4>4, <4>5
    <3>4. CASE ~(j = k /\ v = w /\ ~over)
      <4>1. Through(j, v)' = Through(j, v) BY <2>1, <2>2, <2>3, <3>4 DEF Through, LetIn
      <4> QED BY <2>1, <3>1, <3>2, <4>1
    <3> QED BY <3>3, <3>4
  <2>7. FirestoreSound' BY <2>6 DEF FirestoreSound
  <2> QED BY <2>1, <2>4, <2>5, <2>7 DEF ThrottleInv
<1> QED BY <1>1, <1>2, <1>3

\* The console asks, is answered or gives up; the clock moves.
LEMMA ThrottleElse ==
  ASSUME ThrottleInv, ThrottleTypeOK', UNCHANGED <<backend, count, hit>>, instant' >= instant
  PROVE  ThrottleInv'
<1>1. instant \in Nat /\ instant' \in Nat /\ \A a \in Attempts, k \in Buckets : hit[a][k].at \in Nat
  BY ThrottleAssumption DEF ThrottleInv, ThrottleTypeOK, Hits
<1>2. \A a \in Attempts, k \in Buckets : hit'[a][k].at <= instant' BY <1>1 DEF ThrottleInv
<1>3. MemorySound => MemorySound' BY DEF MemorySound, AdmittedIn
<1>4. FirestoreSound => FirestoreSound'
  BY DEF FirestoreSound, Tally, Through, Passed, LetIn
<1>5. \A k \in Buckets : Passed(k)' = Passed(k) BY DEF Passed
<1> QED BY <1>2, <1>3, <1>4, <1>5 DEF ThrottleInv

LEMMA ThrottleTyped == ThrottleTypeOK /\ [ThrottleNext]_throttleVars => ThrottleTypeOK'
<1> SUFFICES ASSUME ThrottleTypeOK, [ThrottleNext]_throttleVars PROVE ThrottleTypeOK' OBVIOUS
<1> USE DEF ThrottleTypeOK
<1>a. \A a \in Attempts, k \in Buckets : hit[a][k] \in Hits /\ instant \in 0 .. MaxClock
  OBVIOUS
<1>1. CASE UNCHANGED throttleVars BY <1>1 DEF throttleVars
<1>2. CASE ClockTick BY <1>2, ThrottleAssumption DEF ClockTick
<1>3. ASSUME NEW a \in Attempts, NEW keys \in Tries, Ask(a, keys) PROVE ThrottleTypeOK'
  BY <1>3, ThrottleAssumption DEF Ask
<1>4. ASSUME NEW a \in Attempts, Answer(a) \/ GiveUp(a) PROVE ThrottleTypeOK'
  BY <1>4 DEF Answer, GiveUp
<1>5. ASSUME NEW a \in Attempts, NEW k \in Buckets, HitMemory(a, k) PROVE ThrottleTypeOK'
  <2>1. PICK h \in Hits : Mark(a, k, h)
    BY <1>5, <1>a DEF HitMemory, Hits, Stages
  <2> QED BY <1>5, <2>1, Marked DEF HitMemory
<1>6. ASSUME NEW a \in Attempts, NEW k \in Buckets, ChooseWindow(a, k) PROVE ThrottleTypeOK'
  <2>1. PICK h \in Hits : Mark(a, k, h)
    BY <1>6, <1>a DEF ChooseWindow, Hits, Stages
  <2> QED BY <1>6, <2>1, Marked DEF ChooseWindow
<1>7. ASSUME NEW a \in Attempts, NEW k \in Buckets, Increment(a, k) PROVE ThrottleTypeOK'
  <2> DEFINE w == slot(hit[a][k].at)
  <2>0. w \in Slots
    <3>1. hit[a][k].at \in 0 .. MaxClock BY <1>a DEF Hits
    <3>2. w \in 0 .. hit[a][k].at BY <3>1, SlotBounds
    <3> QED BY <3>1, <3>2, ThrottleAssumption DEF Slots
  <2>1. PICK h \in Hits : Mark(a, k, h)
    <3> DEFINE n == count[k][w] + 1
               g == [hit[a][k] EXCEPT !.stage = "counted", !.rank = n]
    <3>1. n \in Nat BY <2>0
    <3>2. Mark(a, k, g) BY <1>7 DEF Increment
    <3>3. g \in Hits
      <4> HIDE DEF n
      <4> QED BY <1>a, <3>1 DEF Hits, Stages
    <3> QED BY <3>2, <3>3
  <2>2. count' \in [Buckets -> [Slots -> Nat]] BY <1>7, <2>0 DEF Increment
  <2> QED BY <1>7, <2>1, <2>2, Marked DEF Increment
<1>8. ASSUME NEW a \in Attempts, NEW k \in Buckets, ReadBack(a, k) PROVE ThrottleTypeOK'
  <2>1. PICK h \in Hits : Mark(a, k, h)
    BY <1>8, <1>a DEF ReadBack, Hits, Stages
  <2> QED BY <1>8, <2>1, Marked DEF ReadBack
<1> QED BY <1>1, <1>2, <1>3, <1>4, <1>5, <1>6, <1>7, <1>8 DEF ThrottleNext

LEMMA ThrottleStarts == ThrottleInit => ThrottleInv
<1> SUFFICES ASSUME ThrottleInit PROVE ThrottleInv OBVIOUS
<1> USE ThrottleAssumption DEF ThrottleInit
<1>1. ThrottleTypeOK BY DEF ThrottleTypeOK, NoHit, Hits, Stages
<1>2. \A a \in Attempts, k \in Buckets : hit[a][k] = NoHit OBVIOUS
<1>3. \A k \in Buckets : Passed(k) = {} BY <1>2 DEF Passed, NoHit
<1>4. \A k \in Buckets : /\ \A x, y : AdmittedIn(k, x, y) = {}
                         /\ \A w : Tally(k, w) = {} /\ Through(k, w) = {}
  BY <1>2, <1>3 DEF AdmittedIn, NoHit, Tally, Through, LetIn
<1>5. IsFiniteSet({}) /\ Cardinality({}) = 0 BY FS_EmptySet
<1>8. \A k \in Buckets : Limit[k] \in Nat OBVIOUS
<1>6. MemorySound
  <2>1. \A a \in Attempts, k \in Buckets : hit[a][k].stage = "none" BY <1>2 DEF NoHit
  <2>2. \A k \in Buckets, t \in Nat : Cardinality(AdmittedIn(k, t - Span + 1, t)) = 0
    BY <1>4, <1>5
  <2> QED BY <1>8, <2>1, <2>2 DEF MemorySound
<1>7. FirestoreSound
  <2>1. \A k \in Buckets, w \in Slots : /\ Cardinality(Tally(k, w)) = 0
                                         /\ Cardinality(Through(k, w)) = 0
    BY <1>4, <1>5
  <2>2. \A k \in Buckets, w \in Slots : count[k][w] = 0 OBVIOUS
  <2> QED BY <1>8, <2>1, <2>2 DEF FirestoreSound
<1>9. \A a \in Attempts, k \in Buckets : hit[a][k].at <= instant BY <1>2 DEF NoHit
<1>10. \A k \in Buckets : IsFiniteSet(Passed(k)) BY <1>3, <1>5
<1> QED BY <1>1, <1>6, <1>7, <1>9, <1>10 DEF ThrottleInv

LEMMA ThrottleStep == ThrottleInv /\ [ThrottleNext]_throttleVars => ThrottleInv'
<1> SUFFICES ASSUME ThrottleInv, [ThrottleNext]_throttleVars PROVE ThrottleInv' OBVIOUS
<1>1. ThrottleTypeOK' BY ThrottleTyped DEF ThrottleInv
<1>2. instant \in Nat BY ThrottleAssumption DEF ThrottleInv, ThrottleTypeOK
<1>3. CASE UNCHANGED throttleVars BY <1>1, <1>2, <1>3, ThrottleElse DEF throttleVars
<1>4. CASE ClockTick BY <1>1, <1>2, <1>4, ThrottleElse DEF ClockTick
<1>5. ASSUME NEW a \in Attempts, (\E keys \in Tries : Ask(a, keys)) \/ Answer(a) \/ GiveUp(a)
      PROVE  ThrottleInv'
  BY <1>1, <1>2, <1>5, ThrottleElse DEF Ask, Answer, GiveUp
<1> QED BY <1>1, <1>3, <1>4, <1>5, MemoryHolds, FirestoreHolds DEF ThrottleNext

\* A counter never lets more attempts through than its limit: in any span of a window's
\* length in memory, in any fixed window on Firestore, whatever other instances do
\* between an increment and its read.
THEOREM AttemptsAreLimited == ThrottleSpec => []AdmittedWithinLimit
<1>1. ThrottleSpec => []ThrottleInv BY ThrottleStarts, ThrottleStep, PTL DEF ThrottleSpec
<1>2. ASSUME ThrottleInv PROVE AdmittedWithinLimit
  <2>1. ASSUME NEW k \in Buckets, NEW t \in 0 .. MaxClock, backend = "memory"
        PROVE  Cardinality(AdmittedIn(k, t - Span + 1, t)) <= Limit[k]
    BY <1>2, <2>1, ThrottleAssumption DEF ThrottleInv, MemorySound
  <2>2. ASSUME NEW k \in Buckets, NEW t \in 0 .. MaxClock, backend = "firestore"
        PROVE  Cardinality(AdmittedIn(k, slot(t) * Span, slot(t) * Span + Span - 1)) <= Limit[k]
    <3> DEFINE A == AdmittedIn(k, slot(t) * Span, slot(t) * Span + Span - 1)
    <3>0. t \in Nat /\ t <= MaxClock /\ MaxClock \in Nat BY ThrottleAssumption
    <3>1. t \in Nat /\ slot(t) \in Slots /\ slot(t) \in Nat /\ Limit[k] \in Nat /\ Span \in Nat
      <4>1. slot(t) \in 0 .. t BY <3>0, SlotBounds
      <4> QED BY <3>0, <4>1, ThrottleAssumption DEF Slots
    <3>2. slot(t) * Span \in Int BY <3>1
    <3>3. ASSUME NEW a \in A PROVE a \in Through(k, slot(t))
      <4>1. hit[a][k].at \in Nat /\ a \in Attempts
        BY <1>2 DEF AdmittedIn, ThrottleInv, ThrottleTypeOK, Hits
      <4>2. slot(t) * Span <= hit[a][k].at /\ hit[a][k].at <= slot(t) * Span + Span - 1
        BY <3>1, <3>2, <4>1 DEF AdmittedIn
      <4>3. slot(hit[a][k].at) = slot(t) BY <3>1, <4>1, <4>2, SameSlot
      <4> QED BY <4>1, <4>3 DEF AdmittedIn, Through, LetIn
    <3>4. Through(k, slot(t)) \subseteq Passed(k) BY DEF Through, LetIn, Passed
    <3>5. /\ Cardinality(A) <= Cardinality(Through(k, slot(t)))
          /\ Cardinality(A) \in Nat /\ Cardinality(Through(k, slot(t))) \in Nat
      BY <1>2, <3>3, <3>4, Smaller
    <3>6. Cardinality(Through(k, slot(t))) <= Limit[k]
      BY <1>2, <2>2, <3>1 DEF ThrottleInv, FirestoreSound
    <3> QED BY <3>1, <3>5, <3>6
  <2> QED BY <2>1, <2>2 DEF AdmittedWithinLimit
<1> QED BY <1>1, <1>2, PTL

-----------------------------------------------------------------------------
(* Identity.                                                                   *)

-----------------------------------------------------------------------------
(* Roles.                                                                    *)

LEMMA Ranks ==
  /\ ROLE_RANK["viewer"] = 0 /\ ROLE_RANK["reviewer"] = 1
  /\ ROLE_RANK["operator"] = 2 /\ ROLE_RANK["governance_admin"] = 3
<1>1. /\ IsFiniteSet({"viewer"}) /\ Cardinality({"viewer"}) = 1 BY FS_Singleton
<1>2. /\ IsFiniteSet({"viewer"} \cup {"reviewer"})
      /\ Cardinality({"viewer"} \cup {"reviewer"}) = 2
  BY <1>1, FS_AddElement
<1>3. /\ IsFiniteSet({"viewer", "reviewer"} \cup {"operator"})
      /\ Cardinality({"viewer", "reviewer"} \cup {"operator"}) = 3
  <2>1. {"viewer"} \cup {"reviewer"} = {"viewer", "reviewer"} OBVIOUS
  <2> QED BY <1>2, <2>1, FS_AddElement
<1>4. Cardinality({"viewer", "reviewer", "operator"} \cup {"governance_admin"}) = 4
  <2>1. {"viewer", "reviewer"} \cup {"operator"} = {"viewer", "reviewer", "operator"} OBVIOUS
  <2> QED BY <1>3, <2>1, FS_AddElement
<1>5. /\ {"viewer"} \cup {"reviewer"} = {"viewer", "reviewer"}
      /\ {"viewer", "reviewer"} \cup {"operator"} = {"viewer", "reviewer", "operator"}
      /\ {"viewer", "reviewer", "operator"} \cup {"governance_admin"} = Roles
  BY DEF Roles
<1>6. /\ ROLE_HIERARCHY["viewer"] = {"viewer"}
      /\ ROLE_HIERARCHY["reviewer"] = {"viewer", "reviewer"}
      /\ ROLE_HIERARCHY["operator"] = {"viewer", "reviewer", "operator"}
      /\ ROLE_HIERARCHY["governance_admin"] = Roles
  BY DEF ROLE_HIERARCHY, Roles
<1>7. \A r \in Roles : ROLE_RANK[r] = Cardinality(ROLE_HIERARCHY[r]) - 1 BY DEF ROLE_RANK
<1>8. {"viewer", "reviewer", "operator", "governance_admin"} = Roles BY DEF Roles
<1> QED BY <1>1, <1>2, <1>3, <1>4, <1>5, <1>6, <1>7, <1>8

\* The key's own grant is the highest role, so the ceiling takes nothing away.
LEMMA NarrowKeeps ==
  ASSUME NEW person \in SUBSET Roles, person # {}
  PROVE  narrow_roles(person, API_KEY_GRANT) = person
<1>1. \A r \in Roles : ROLE_RANK[r] <= ROLE_RANK["governance_admin"] BY Ranks DEF Roles
<1>2. \A r \in Roles : ROLE_RANK[r] \in Nat BY Ranks DEF Roles
<1>3. {r \in person : ROLE_RANK[r] <= ROLE_RANK["governance_admin"]} = person BY <1>1
<1>4. ~ \E r \in person : ROLE_RANK[r] > ROLE_RANK["governance_admin"]
  BY <1>1, <1>2 DEF Roles
<1> QED BY <1>3, <1>4 DEF narrow_roles, API_KEY_GRANT

LEMMA ViewerIsLeast == \A r \in Roles : "viewer" \in ROLE_HIERARCHY[r]
BY DEF Roles, ROLE_HIERARCHY

-----------------------------------------------------------------------------
(* Who a request is.                                                         *)

LEMMA Resolution ==
  ASSUME NEW e, NEW p, NEW h
  PROVE  LET g == resolve(e, p, h)
             mine == DOMAIN memberships(e, p) IN
         /\ g.ok \in BOOLEAN
         /\ g.ok => /\ g.tenant \in mine
                    /\ g.roles = {"viewer", memberships(e, p)[g.tenant]}
         /\ ~g.ok => g.choices \in {{}, mine}
         /\ h \in mine \ {NoOne, Unreadable} => (g.ok /\ g.tenant = h)
BY DEF resolve, Refusal, Granted

\* Two contexts of one caller: organisation and roles aside, the same.
Like(c, b) ==
  /\ c.ok = b.ok /\ c.email = b.email /\ c.key = b.key
  /\ c.session = b.session /\ c.method = b.method /\ c.iap = b.iap

Patchable(b) == \A t, r : LET x == [b EXCEPT !.tenant = t, !.roles = r]
                          IN  Like(x, b) /\ x.tenant = t /\ x.roles = r

\* The caller b as the registry or the role lists have it, p being looked up.
Way(c, e, p, h, b) ==
  IF e.multi
  THEN LET g == resolve(e, p, h) IN
       /\ ~g.ok => c = g
       /\ g.ok => /\ Like(c, b) /\ c.tenant = g.tenant
                  /\ c.roles = IF b.key THEN narrow_roles(g.roles, API_KEY_GRANT) ELSE g.roles
  ELSE c = b

LEMMA Membership ==
  ASSUME NEW e, NEW p, NEW h, NEW b, Patchable(b), NEW c,
         c = IF e.multi THEN member_context(e, p, h, b) ELSE b
  PROVE  Way(c, e, p, h, b)
<1> DEFINE g == resolve(e, p, h)
           roles == IF b.key THEN narrow_roles(g.roles, API_KEY_GRANT) ELSE g.roles
<1>1. member_context(e, p, h, b) = IF ~g.ok THEN g
                                   ELSE [b EXCEPT !.tenant = g.tenant, !.roles = roles]
  BY DEF member_context
<1> HIDE DEF g, roles
<1>2. Like([b EXCEPT !.tenant = g.tenant, !.roles = roles], b)
      /\ [b EXCEPT !.tenant = g.tenant, !.roles = roles].tenant = g.tenant
      /\ [b EXCEPT !.tenant = g.tenant, !.roles = roles].roles = roles
  BY DEF Patchable
<1>3. e.multi /\ ~g.ok => c = g BY <1>1
<1>4. e.multi /\ g.ok => Like(c, b) /\ c.tenant = g.tenant /\ c.roles = roles BY <1>1, <1>2
<1>5. ~e.multi => c = b OBVIOUS
<1> QED BY <1>3, <1>4, <1>5 DEF Way, g, roles

\* The callers the four ways in start from.
AsService == Context(SERVICE, narrow_roles({API_KEY_GRANT}, API_KEY_GRANT),
                   SINGLE_TENANT_ID, TRUE, FALSE, "none", FALSE)
AsPerson(e, token) == Context(token.email,
                            narrow_roles(get_user_roles(e, token.email), API_KEY_GRANT),
                            SINGLE_TENANT_ID, TRUE, TRUE, method_of(token), FALSE)
AsMember(e, who) == Context(who.email, get_user_roles(e, who.email),
                          SINGLE_TENANT_ID, FALSE, FALSE, "none", TRUE)
AsNobody(e) == Context(DEV, {e.anonymous}, SINGLE_TENANT_ID, FALSE, FALSE, "none", FALSE)

LEMMA Callers ==
  ASSUME NEW e, NEW x
  PROVE  /\ Patchable(AsService) /\ Patchable(AsPerson(e, x)) /\ Patchable(AsMember(e, x))
         /\ Patchable(AsNobody(e))
         /\ AsService.ok /\ AsPerson(e, x).ok /\ AsMember(e, x).ok /\ AsNobody(e).ok
<1>1. Patchable(AsService) /\ AsService.ok BY DEF AsService, Context, Patchable, Like
<1>2. Patchable(AsPerson(e, x)) /\ AsPerson(e, x).ok BY DEF AsPerson, Context, Patchable, Like
<1>3. Patchable(AsMember(e, x)) /\ AsMember(e, x).ok BY DEF AsMember, Context, Patchable, Like
<1>4. Patchable(AsNobody(e)) /\ AsNobody(e).ok BY DEF AsNobody, Context, Patchable, Like
<1> QED BY <1>1, <1>2, <1>3, <1>4

Turned(c) == ~c.ok /\ c.choices = {}

LEMMA TurnedAway == \A s, r : Turned(Refusal(s, r, {}))
BY DEF Turned, Refusal

\* By which door a request comes in; its header plays no part in that.
entrance(e, req, n) ==
  IF req.key # NoOne
  THEN IF req.key # e.key THEN "none"
       ELSE IF req.session = NoOne THEN "service"
       ELSE IF session_verifies(e, req.session, n) THEN "person" ELSE "none"
  ELSE IF e.iap
  THEN IF req.iap \in {NoOne, Unreadable} \/ req.iap.email = NoOne
          \/ (e.multi /\ req.iap.sub = NoOne) THEN "none" ELSE "member"
  ELSE IF e.multi \/ e.anonymous = NoOne THEN "none" ELSE "nobody"

LEMMA Authentication ==
  ASSUME NEW e, NEW req, NEW n
  PROVE  LET c == authenticate_request(e, req, n)
             by == entrance(e, req, n)
         IN  /\ by \in {"none", "service", "person", "member", "nobody"}
             /\ by = "none" => Turned(c)
             /\ by = "service" => Way(c, e, SERVICE, req.header, AsService)
             /\ by = "person" => /\ session_verifies(e, req.session, n)
                                 /\ Way(c, e, req.session.email, req.header, AsPerson(e, req.session))
             /\ by = "member" => /\ req.iap \notin {NoOne, Unreadable}
                                 /\ Way(c, e, req.iap.sub, req.header, AsMember(e, req.iap))
             /\ by = "nobody" => ~e.multi /\ e.anonymous # NoOne /\ c = AsNobody(e)
<1> DEFINE c == authenticate_request(e, req, n)
           by == entrance(e, req, n)
<1>1. CASE req.key # NoOne /\ req.key = e.key /\ req.session = NoOne
  <2>1. /\ c = IF e.multi THEN member_context(e, SERVICE, req.header, AsService) ELSE AsService
        /\ by = "service"
    BY <1>1 DEF authenticate_request, api_key_context, AsService, entrance
  <2> HIDE DEF c, by
  <2>2. Way(c, e, SERVICE, req.header, AsService) BY <2>1, Callers, Membership
  <2> QED BY <2>1, <2>2 DEF c, by
<1>2. CASE req.key # NoOne /\ req.key = e.key /\ req.session # NoOne
  <2>1. /\ ~session_verifies(e, req.session, n) =>
             c = Refusal(401, "invalid_session", {}) /\ by = "none"
        /\ session_verifies(e, req.session, n) =>
             /\ c = IF e.multi
                    THEN member_context(e, req.session.email, req.header, AsPerson(e, req.session))
                    ELSE AsPerson(e, req.session)
             /\ by = "person"
    BY <1>2 DEF authenticate_request, api_key_context, AsPerson, entrance
  <2> HIDE DEF c, by
  <2>2. session_verifies(e, req.session, n) =>
          Way(c, e, req.session.email, req.header, AsPerson(e, req.session))
    BY <2>1, Callers, Membership
  <2> QED BY <2>1, <2>2, TurnedAway DEF c, by
<1>3. CASE req.key # NoOne /\ req.key # e.key
  <2>1. c = Refusal(401, "invalid_key", {}) /\ by = "none"
    BY <1>3 DEF authenticate_request, entrance
  <2> QED BY <2>1, TurnedAway
<1>4. CASE req.key = NoOne /\ e.iap
  <2>1. \/ c = Refusal(401, "iap", {}) /\ by = "none"
        \/ /\ req.iap \notin {NoOne, Unreadable} /\ by = "member"
           /\ c = IF e.multi THEN member_context(e, req.iap.sub, req.header, AsMember(e, req.iap))
                  ELSE AsMember(e, req.iap)
    BY <1>4 DEF authenticate_request, iap_context, AsMember, entrance
  <2> HIDE DEF c, by
  <2>2. \/ c = Refusal(401, "iap", {}) /\ by = "none"
        \/ /\ req.iap \notin {NoOne, Unreadable} /\ by = "member"
           /\ Way(c, e, req.iap.sub, req.header, AsMember(e, req.iap))
    BY <2>1, Callers, Membership
  <2> QED BY <2>2, TurnedAway DEF c, by
<1>5. CASE req.key = NoOne /\ ~e.iap
  <2>1. \/ c = Refusal(401, "anonymous", {}) /\ by = "none"
        \/ by = "nobody" /\ ~e.multi /\ e.anonymous # NoOne /\ c = AsNobody(e)
    BY <1>5 DEF authenticate_request, anonymous_context, AsNobody, entrance
  <2> QED BY <2>1, TurnedAway
<1> QED BY <1>1, <1>2, <1>3, <1>4, <1>5

\* What the guards of a route let through, and what they turn away.
LEMMA Guards ==
  ASSUME NEW e, NEW req, NEW n
  PROVE  LET c == admit(e, req, n)
             a == authenticate_request(e, req, n)
         IN  /\ (c.ok /\ c.tenant # NoOne) => (c = a /\ has_role(c.roles, req.route.role))
             /\ (c.ok \/ c.choices = {} \/ c = a)
<1> DEFINE c == admit(e, req, n)
           a == authenticate_request(e, req, n)
<1>1. CASE req.route.platform
  <2>1. c = require_platform_key(e, req) BY <1>1 DEF admit
  <2>2. \/ c = Context(SERVICE, {API_KEY_GRANT}, NoOne, TRUE, FALSE, "none", FALSE)
        \/ \E s, r : c = Refusal(s, r, {})
    BY <2>1 DEF require_platform_key
  <2>3. Context(SERVICE, {API_KEY_GRANT}, NoOne, TRUE, FALSE, "none", FALSE).tenant = NoOne
        /\ Context(SERVICE, {API_KEY_GRANT}, NoOne, TRUE, FALSE, "none", FALSE).ok
    BY DEF Context
  <2> QED BY <2>2, <2>3, TurnedAway DEF Turned
<1>2. CASE ~req.route.platform
  <2>1. c = IF ~a.ok THEN a
            ELSE IF ~require_role(a, req.route) THEN Refusal(403, "role", {})
            ELSE IF ~require_password_session(a, req.route) THEN Refusal(403, "password", {})
            ELSE IF req.route.machine THEN internal_execute(a, req.claimed)
            ELSE a
    BY <1>2 DEF admit
  <2>2. internal_execute(a, req.claimed) = a \/ \E s, r : internal_execute(a, req.claimed) = Refusal(s, r, {})
    BY DEF internal_execute
  <2> HIDE DEF a, c
  <2>3. \/ c = a /\ (a.ok => has_role(a.roles, req.route.role))
        \/ \E s, r : c = Refusal(s, r, {})
    BY <2>1, <2>2 DEF require_role
  <2> QED BY <2>3, TurnedAway DEF Turned, a, c
<1> QED BY <1>1, <1>2

-----------------------------------------------------------------------------
(* The invariant: the sessions are the console's, and the last answer tells  *)
(* the truth about the request it was given to.                              *)

TokensAreMinted ==
  \A t \in tokens :
      /\ t.amr \in {"password", "one_click", "absent"}
      /\ t.at \in Nat
      /\ t.exp \in {t.at + TTL_SECONDS, t.at + ONE_CLICK_TTL_SECONDS, Skew}
      /\ t.email \in Accounts \cup {e.guest : e \in Envs}

AccessBase == now \in 0 .. MaxTime /\ env \in Envs /\ TokensAreMinted

AccessInv ==
  AccessBase /\ RowTellsHowTheyCameIn /\ OfferedChoicesWork /\ ActsInItsOwnRight

\* Whoever acts was admitted, with the role, into the organisation of the case.
LEMMA Acting ==
  ASSUME AccessBase, NEW req \in Requests, Handle(req), acted'
  PROVE  LET c == authenticate_request(env, req, now) IN
         /\ c.ok /\ has_role(c.roles, req.route.role)
         /\ c.tenant \in Tenants /\ owner[answer'.case] = c.tenant
         /\ answer'.route = req.route /\ answer'.actor = c.email
         /\ answer'.principal = Principal(req, c)
         /\ answer'.session = c.session /\ answer'.actor_auth = actor_auth(c)
<1> DEFINE c == authenticate_request(env, req, now)
           a == admit(env, req, now)
<1>1. \E case \in Cases : a.ok /\ get_case(case, a.tenant) /\ answer' = Effect(req, a, case)
  <2> HIDE DEF a
  <2>1. \/ /\ a.ok
           /\ \E case \in Cases :
                 answer' = IF get_case(case, a.tenant) THEN Effect(req, a, case)
                           ELSE [kind |-> "not found"]
        \/ answer' = [kind |-> "unauthorised"]
        \/ answer' = [kind |-> "refused", request |-> req, choices |-> a.choices]
    BY DEF Handle, a
  <2>2. answer'.kind = "done" BY DEF acted
  <2>3. /\ [kind |-> "not found"].kind # "done" /\ [kind |-> "unauthorised"].kind # "done"
        /\ [kind |-> "refused", request |-> req, choices |-> a.choices].kind # "done"
    OBVIOUS
  <2> QED BY <2>1, <2>2, <2>3
<1>x. PICK case \in Cases : a.ok /\ get_case(case, a.tenant) /\ answer' = Effect(req, a, case)
  BY <1>1
<1>2. a.tenant \in Tenants /\ owner[case] = a.tenant /\ a.tenant # NoOne
  BY <1>x, AccessAssumption DEF get_case
<1>3. a = c /\ has_role(c.roles, req.route.role) BY <1>x, <1>2, Guards
<1>4. /\ answer'.route = req.route /\ answer'.case = case /\ answer'.actor = a.email
      /\ answer'.principal = Principal(req, a)
      /\ answer'.session = a.session /\ answer'.actor_auth = actor_auth(a)
  BY <1>x DEF Effect
<1> QED BY <1>x, <1>2, <1>3, <1>4

\* The callers' fields.
LEMMA ServiceFields ==
  /\ AsService.email = SERVICE /\ AsService.key = TRUE /\ AsService.session = FALSE
  /\ AsService.iap = FALSE
  /\ AsService.roles = narrow_roles({API_KEY_GRANT}, API_KEY_GRANT)
BY DEF AsService, Context

LEMMA PersonFields ==
  ASSUME NEW e, NEW x
  PROVE  /\ AsPerson(e, x).email = x.email /\ AsPerson(e, x).key = TRUE
         /\ AsPerson(e, x).session = TRUE /\ AsPerson(e, x).iap = FALSE
         /\ AsPerson(e, x).method = method_of(x)
         /\ AsPerson(e, x).roles = narrow_roles(get_user_roles(e, x.email), API_KEY_GRANT)
BY DEF AsPerson, Context

LEMMA MemberFields ==
  ASSUME NEW e, NEW x
  PROVE  /\ AsMember(e, x).email = x.email /\ AsMember(e, x).key = FALSE
         /\ AsMember(e, x).session = FALSE /\ AsMember(e, x).iap = TRUE
         /\ AsMember(e, x).roles = get_user_roles(e, x.email)
BY DEF AsMember, Context

LEMMA NobodyFields ==
  ASSUME NEW e
  PROVE  /\ AsNobody(e).email = DEV /\ AsNobody(e).key = FALSE
         /\ AsNobody(e).session = FALSE /\ AsNobody(e).iap = FALSE
         /\ AsNobody(e).roles = {e.anonymous}
BY DEF AsNobody, Context

LEMMA HandleTellsHow ==
  ASSUME AccessBase, NEW req \in Requests, Handle(req)
  PROVE  RowTellsHowTheyCameIn'
<1> DEFINE c == authenticate_request(env, req, now)
           by == entrance(env, req, now)
           t == req.session
<1>u. env' = env /\ now' = now /\ tokens' = tokens BY DEF Handle
<1> SUFFICES ASSUME acted', answer'.session
             PROVE  \E s \in tokens :
                      /\ s.email = answer'.actor
                      /\ s.amr = answer'.actor_auth \/ (s.amr = "absent" /\ answer'.actor_auth = "unknown")
                      /\ s.secret = env.secret
                      /\ now < s.at + TTL_SECONDS
                      /\ s.amr = "one_click" =>
                            /\ env.door = "open"
                            /\ answer'.actor = env.guest
                            /\ env.until = NoOne \/ now < env.until
  BY <1>u DEF RowTellsHowTheyCameIn
<1>1. c.ok /\ c.session /\ answer'.actor = c.email /\ answer'.actor_auth = actor_auth(c)
  BY Acting
<1>2. by = "person"
  <2>1. by # "none" BY <1>1, Authentication DEF Turned
  <2>2. by # "service"
    <3>1. SUFFICES ASSUME by = "service" PROVE FALSE OBVIOUS
    <3>2. Way(c, env, SERVICE, req.header, AsService) BY <3>1, Authentication
    <3>3. c.session = AsService.session BY <1>1, <3>2, Resolution DEF Way, Like
    <3> QED BY <1>1, <3>3, ServiceFields
  <2>3. by # "member"
    <3>1. SUFFICES ASSUME by = "member" PROVE FALSE OBVIOUS
    <3>2. Way(c, env, req.iap.sub, req.header, AsMember(env, req.iap)) BY <3>1, Authentication
    <3>3. c.session = AsMember(env, req.iap).session BY <1>1, <3>2, Resolution DEF Way, Like
    <3> QED BY <1>1, <3>3, MemberFields
  <2>4. by # "nobody"
    <3>1. SUFFICES ASSUME by = "nobody" PROVE FALSE OBVIOUS
    <3>2. c = AsNobody(env) BY <3>1, Authentication
    <3>3. AsNobody(env).session = FALSE BY NobodyFields
    <3> HIDE DEF c
    <3> QED BY <1>1, <3>2, <3>3
  <2> QED BY <2>1, <2>2, <2>3, <2>4, Authentication
<1>3. /\ session_verifies(env, t, now)
      /\ Way(c, env, t.email, req.header, AsPerson(env, t))
  BY <1>2, Authentication
<1>4. c.email = t.email /\ c.session = TRUE /\ c.method = method_of(t)
  <2>1. Like(c, AsPerson(env, t)) \/ c = AsPerson(env, t) BY <1>1, <1>3 DEF Way
  <2>2. /\ AsPerson(env, t).email = t.email /\ AsPerson(env, t).session = TRUE
        /\ AsPerson(env, t).method = method_of(t)
    BY DEF AsPerson, Context
  <2> HIDE DEF c
  <2> QED BY <2>1, <2>2 DEF Like
<1> HIDE DEF c
<1>5. answer'.actor = t.email /\ answer'.actor_auth = method_of(t)
  BY <1>1, <1>4 DEF actor_auth
<1>6. t \in tokens BY <1>3 DEF session_verifies, Requests
<1>7. now < t.at + TTL_SECONDS
  <2>1. t.exp > now /\ t.exp <= now + MAX_SESSION_LIFETIME BY <1>3 DEF session_verifies
  <2>2. t.exp \in {t.at + TTL_SECONDS, t.at + ONE_CLICK_TTL_SECONDS, Skew} /\ t.at \in Nat
    BY <1>6 DEF AccessBase, TokensAreMinted
  <2>3. t.exp # Skew BY <2>1, AccessAssumption, AccessRulesAssumption DEF AccessBase
  <2>4. ONE_CLICK_TTL_SECONDS <= TTL_SECONDS /\ ONE_CLICK_TTL_SECONDS \in Nat
        /\ TTL_SECONDS \in Nat /\ now \in Nat
    BY AccessAssumption DEF AccessBase
  <2> QED BY <2>1, <2>2, <2>3, <2>4
<1>8. t.amr = method_of(t) \/ (t.amr = "absent" /\ method_of(t) = "unknown")
  BY <1>6 DEF AccessBase, TokensAreMinted, method_of
<1>9. t.amr = "one_click" => one_click_sessions_allowed(env, t.email, now)
  BY <1>3 DEF session_verifies, method_of
<1> QED BY <1>3, <1>5, <1>6, <1>7, <1>8, <1>9 DEF session_verifies, one_click_sessions_allowed

\* A member acts with the role the registry gives them there.
LEMMA MembersRight ==
  ASSUME NEW e \in Envs, e.multi, NEW p, NEW h, NEW b, NEW c, Way(c, e, p, h, b),
         c.ok, NEW r, has_role(c.roles, r)
  PROVE  /\ p \in DOMAIN e.members /\ c.tenant \in DOMAIN e.members[p]
         /\ has_role({e.members[p][c.tenant]}, r)
<1> DEFINE g == resolve(e, p, h)
           m == memberships(e, p)
<1>1. /\ g.ok /\ Like(c, b) /\ c.tenant = g.tenant
      /\ c.roles = IF b.key THEN narrow_roles(g.roles, API_KEY_GRANT) ELSE g.roles
  BY DEF Way
<1>2. g.tenant \in DOMAIN m /\ g.roles = {"viewer", m[g.tenant]} BY <1>1, Resolution
<1> HIDE DEF g
<1>3. p \in DOMAIN e.members /\ m = e.members[p]
  <2>1. DOMAIN [t \in {} |-> "viewer"] = {} OBVIOUS
  <2> QED BY <1>2, <2>1 DEF memberships
<1>4. m[g.tenant] \in Roles BY <1>2, <1>3, AccessAssumption
<1> HIDE DEF m
<1>5. c.roles = {"viewer", m[g.tenant]}
  <2>1. {"viewer", m[g.tenant]} \in SUBSET Roles /\ {"viewer", m[g.tenant]} # {}
    BY <1>4 DEF Roles
  <2>2. narrow_roles({"viewer", m[g.tenant]}, API_KEY_GRANT) = {"viewer", m[g.tenant]}
    BY <2>1, NarrowKeeps
  <2> QED BY <1>1, <1>2, <2>2
<1>6. has_role({m[g.tenant]}, r)
  <2>1. r \in ROLE_HIERARCHY["viewer"] \/ r \in ROLE_HIERARCHY[m[g.tenant]]
    BY <1>5 DEF has_role
  <2>2. ROLE_HIERARCHY["viewer"] = {"viewer"} BY DEF ROLE_HIERARCHY, Roles
  <2>3. "viewer" \in ROLE_HIERARCHY[m[g.tenant]] BY <1>4, ViewerIsLeast
  <2> QED BY <2>1, <2>2, <2>3 DEF has_role
<1> QED BY <1>1, <1>2, <1>3, <1>6

\* Without organisations, a person acts with the roles the lists give them.
ByTheLists(e, principal) ==
  IF principal = SERVICE THEN {API_KEY_GRANT}
  ELSE IF principal = DEV THEN {e.anonymous} \ {NoOne}
  ELSE {"viewer"} \cup {r \in Roles : r # "viewer" /\ principal \in e.listed[r]}

LEMMA ListsRight ==
  ASSUME NEW e, NEW email, email # DEV, NEW r, has_role(get_user_roles(e, email), r)
  PROVE  has_role(ByTheLists(e, email), r)
<1>1. get_user_roles(e, email) =
        {"viewer"} \cup {q \in Roles : q # "viewer" /\ email \in e.listed[q]}
  BY DEF get_user_roles
<1>2. CASE email = SERVICE
  <2>1. r \in Roles
    <3>1. PICK q \in Roles : r \in ROLE_HIERARCHY[q] BY <1>1 DEF has_role, Roles
    <3> QED BY <3>1 DEF ROLE_HIERARCHY, Roles
  <2>2. ROLE_HIERARCHY["governance_admin"] = Roles BY DEF ROLE_HIERARCHY, Roles
  <2> QED BY <1>2, <2>1, <2>2 DEF has_role, ByTheLists, API_KEY_GRANT
<1>3. CASE email # SERVICE
  BY <1>1, <1>3 DEF ByTheLists
<1> QED BY <1>2, <1>3

LEMMA AllNarrow ==
  ASSUME NEW e, NEW email
  PROVE  /\ narrow_roles(get_user_roles(e, email), API_KEY_GRANT) = get_user_roles(e, email)
         /\ narrow_roles({API_KEY_GRANT}, API_KEY_GRANT) = {API_KEY_GRANT}
<1>1. get_user_roles(e, email) \in SUBSET Roles /\ get_user_roles(e, email) # {}
  BY DEF get_user_roles, Roles
<1>2. {API_KEY_GRANT} \in SUBSET Roles /\ {API_KEY_GRANT} # {} BY DEF API_KEY_GRANT, Roles
<1> QED BY <1>1, <1>2, NarrowKeeps

LEMMA HandleActsInRight ==
  ASSUME AccessBase, NEW req \in Requests, Handle(req)
  PROVE  ActsInItsOwnRight'
<1> DEFINE c == authenticate_request(env, req, now)
           by == entrance(env, req, now)
           r == req.route.role
           p == Principal(req, c)
<1>u. env' = env /\ now' = now /\ tokens' = tokens BY DEF Handle
<1>a. SUFFICES ASSUME acted'
               PROVE  has_role(IF env.multi
                               THEN IF /\ answer'.principal \in DOMAIN env.members
                                       /\ owner[answer'.case] \in DOMAIN env.members[answer'.principal]
                                    THEN {env.members[answer'.principal][owner[answer'.case]]} ELSE {}
                               ELSE ByTheLists(env, answer'.principal), answer'.route.role)
  BY <1>u DEF ActsInItsOwnRight, Assigned, ByTheLists
<1>1. /\ c.ok /\ has_role(c.roles, r)
      /\ owner[answer'.case] = c.tenant /\ answer'.route = req.route /\ answer'.principal = p
  BY <1>a, Acting
<1>2. SUFFICES IF env.multi
               THEN /\ p \in DOMAIN env.members /\ c.tenant \in DOMAIN env.members[p]
                    /\ has_role({env.members[p][c.tenant]}, r)
               ELSE has_role(ByTheLists(env, p), r)
  <2> HIDE DEF c, p
  <2> QED BY <1>1
<1>3. env \in Envs BY DEF AccessBase
<1>4. CASE by = "service"
  <2>1. Way(c, env, SERVICE, req.header, AsService) BY <1>4, Authentication
  <2>2. c.iap = FALSE /\ c.email = SERVICE
    <3>1. Like(c, AsService) BY <1>1, <2>1 DEF Way, Like
    <3>2. AsService.iap = FALSE /\ AsService.email = SERVICE BY ServiceFields
    <3> HIDE DEF c
    <3> QED BY <3>1, <3>2 DEF Like
  <2>3. p = SERVICE BY <2>2 DEF Principal
  <2> HIDE DEF c, p
  <2>4. CASE env.multi BY <1>1, <1>3, <2>1, <2>3, <2>4, MembersRight
  <2>5. CASE ~env.multi
    <3>1. c.roles = {API_KEY_GRANT} BY <2>1, <2>5, ServiceFields, AllNarrow DEF Way
    <3> QED BY <1>1, <2>3, <2>5, <3>1 DEF ByTheLists
  <2> QED BY <2>4, <2>5
<1>5. CASE by = "person"
  <2> DEFINE t == req.session
  <2>1. Way(c, env, t.email, req.header, AsPerson(env, t)) /\ session_verifies(env, t, now)
    BY <1>5, Authentication
  <2>2. c.iap = FALSE /\ c.email = t.email
    <3>1. Like(c, AsPerson(env, t)) BY <1>1, <2>1 DEF Way, Like
    <3>2. AsPerson(env, t).iap = FALSE /\ AsPerson(env, t).email = t.email
      BY DEF AsPerson, Context
    <3> HIDE DEF c
    <3> QED BY <3>1, <3>2 DEF Like
  <2>3. p = t.email BY <2>2 DEF Principal
  <2>4. t.email # DEV
    <3>1. t \in tokens BY <2>1 DEF session_verifies, Requests
    <3>2. t.email \in Accounts \cup {e.guest : e \in Envs}
      BY <3>1 DEF AccessBase, TokensAreMinted
    <3> QED BY <3>2, AccessAssumption
  <2> HIDE DEF c, p
  <2>5. CASE env.multi BY <1>1, <1>3, <2>1, <2>3, <2>5, MembersRight
  <2>6. CASE ~env.multi
    <3>1. AsPerson(env, t).roles = get_user_roles(env, t.email)
      BY AllNarrow DEF AsPerson, Context
    <3>2. c.roles = get_user_roles(env, t.email) BY <2>1, <2>6, <3>1 DEF Way
    <3> QED BY <1>1, <2>3, <2>4, <2>6, <3>2, ListsRight
  <2> QED BY <2>5, <2>6
<1>6. CASE by = "member"
  <2> DEFINE w == req.iap
  <2>1. Way(c, env, w.sub, req.header, AsMember(env, w)) /\ w \notin {NoOne, Unreadable}
    BY <1>6, Authentication
  <2>2. c.iap = TRUE /\ c.email = w.email
    <3>1. Like(c, AsMember(env, w)) BY <1>1, <2>1 DEF Way, Like
    <3>2. AsMember(env, w).iap = TRUE /\ AsMember(env, w).email = w.email
      BY DEF AsMember, Context
    <3> HIDE DEF c
    <3> QED BY <3>1, <3>2 DEF Like
  <2>3. p = IF env.multi THEN w.sub ELSE w.email BY <2>2 DEF Principal
  <2>4. w.email # DEV
    <3>1. w \in Identities BY <2>1 DEF Requests
    <3> QED BY <3>1, AccessAssumption
  <2> HIDE DEF c, p
  <2>5. CASE env.multi BY <1>1, <1>3, <2>1, <2>3, <2>5, MembersRight
  <2>6. CASE ~env.multi
    <3>1. AsMember(env, w).roles = get_user_roles(env, w.email) BY DEF AsMember, Context
    <3>2. c.roles = get_user_roles(env, w.email) BY <2>1, <2>6, <3>1 DEF Way
    <3> QED BY <1>1, <2>3, <2>4, <2>6, <3>2, ListsRight
  <2> QED BY <2>5, <2>6
<1>7. CASE by = "nobody"
  <2>1. ~env.multi /\ env.anonymous # NoOne /\ c = AsNobody(env) BY <1>7, Authentication
  <2>2. AsNobody(env).roles = {env.anonymous} /\ AsNobody(env).email = DEV
        /\ AsNobody(env).iap = FALSE
    BY DEF AsNobody, Context
  <2>3. p = DEV BY <2>1, <2>2 DEF Principal
  <2>4. DEV # SERVICE BY AccessAssumption
  <2> HIDE DEF c, p
  <2>5. ByTheLists(env, DEV) = {env.anonymous} BY <2>1, <2>4 DEF ByTheLists
  <2> QED BY <1>1, <2>1, <2>2, <2>3, <2>5
<1>8. by # "none" BY <1>1, Authentication DEF Turned
<1> QED BY <1>4, <1>5, <1>6, <1>7, <1>8, Authentication

\* A refused member who picks one of the organisations offered is let in there.
LEMMA PickingWorks ==
  ASSUME NEW e \in Envs, NEW p, NEW h, NEW b, b.ok, NEW c, Way(c, e, p, h, b),
         ~c.ok, NEW t \in c.choices, NEW c2, Way(c2, e, p, t, b)
  PROVE  /\ e.multi /\ c.choices = DOMAIN memberships(e, p)
         /\ c2.ok /\ c2.tenant = t /\ Like(c2, b)
<1> DEFINE g == resolve(e, p, h)
           g2 == resolve(e, p, t)
           mine == DOMAIN memberships(e, p)
<1>1. e.multi BY DEF Way
<1>2. ~g.ok /\ c = g BY <1>1 DEF Way, Like
<1>3. c.choices = mine BY <1>2, Resolution
<1>4. t \in Tenants
  <2>1. DOMAIN [x \in {} |-> "viewer"] = {} OBVIOUS
  <2>2. p \in DOMAIN e.members /\ memberships(e, p) = e.members[p]
    BY <1>3, <2>1 DEF memberships
  <2> QED BY <1>3, <2>2, AccessAssumption
<1>5. t \notin {NoOne, Unreadable} BY <1>4, AccessAssumption
<1>6. g2.ok /\ g2.tenant = t BY <1>3, <1>5, Resolution
<1>7. Like(c2, b) /\ c2.tenant = t BY <1>1, <1>6 DEF Way
<1> QED BY <1>1, <1>3, <1>7 DEF Like

LEMMA HandleOffersWhatWorks ==
  ASSUME AccessBase, NEW req \in Requests, Handle(req)
  PROVE  OfferedChoicesWork'
<1> DEFINE c == authenticate_request(env, req, now)
           a == admit(env, req, now)
           by == entrance(env, req, now)
           again(t) == [req EXCEPT !.header = t]
           c2(t) == authenticate_request(env, again(t), now)
<1>u. env' = env /\ now' = now /\ tokens' = tokens BY DEF Handle
<1>0. env \in Envs BY DEF AccessBase
<1>a. SUFFICES ASSUME answer'.kind = "refused", NEW t \in answer'.choices
               PROVE  LET again2 == [answer'.request EXCEPT !.header = t]
                          ctx == authenticate_request(env, again2, now)
                      IN  /\ ctx.ok
                          /\ ctx.tenant = t
                          /\ describe_identity(env, ctx, IF ctx.iap THEN again2.iap.sub ELSE NoOne)
                                .memberships = answer'.choices
  BY <1>u DEF OfferedChoicesWork
<1>1. /\ ~a.ok /\ a.choices # {}
      /\ answer'.request = req /\ answer'.choices = a.choices
  <2> HIDE DEF a
  <2>1. \/ \E case \in Cases :
              answer' = IF get_case(case, a.tenant) THEN Effect(req, a, case)
                        ELSE [kind |-> "not found"]
        \/ answer' = [kind |-> "unauthorised"]
        \/ /\ ~a.ok /\ a.choices # {}
           /\ answer' = [kind |-> "refused", request |-> req, choices |-> a.choices]
    BY DEF Handle, a
  <2>2. /\ \A case : Effect(req, a, case).kind # "refused"
        /\ [kind |-> "not found"].kind # "refused"
        /\ [kind |-> "unauthorised"].kind # "refused"
    BY DEF Effect
  <2>3. \/ answer'.kind # "refused"
        \/ /\ ~a.ok /\ a.choices # {}
           /\ answer' = [kind |-> "refused", request |-> req, choices |-> a.choices]
    BY <2>1, <2>2
  <2> QED BY <1>a, <2>3
<1>2. a = c BY <1>1, Guards
<1>3. /\ again(t).key = req.key /\ again(t).session = req.session
      /\ again(t).iap = req.iap /\ again(t).header = t
  BY DEF Requests
<1>4. entrance(env, again(t), now) = by BY <1>3 DEF entrance
<1>5. ~c.ok /\ t \in c.choices /\ answer'.choices = c.choices BY <1>a, <1>1, <1>2
<1>6. SUFFICES /\ c2(t).ok /\ c2(t).tenant = t
               /\ own_memberships(env, c2(t), IF c2(t).iap THEN req.iap.sub ELSE NoOne) = c.choices
  <2> HIDE DEF c, a
  <2> QED BY <1>1, <1>2, <1>3 DEF describe_identity
<1>7. by # "none" BY <1>5, Authentication DEF Turned
<1>8. by # "nobody"
  <2>1. SUFFICES ASSUME by = "nobody" PROVE FALSE OBVIOUS
  <2>2. c = AsNobody(env) BY <2>1, Authentication
  <2>3. AsNobody(env).ok BY DEF AsNobody, Context
  <2> HIDE DEF c
  <2> QED BY <1>5, <2>2, <2>3
<1>9. CASE by = "service"
  <2>1. Way(c, env, SERVICE, req.header, AsService) BY <1>9, Authentication
  <2>2. Way(c2(t), env, SERVICE, t, AsService) BY <1>3, <1>4, <1>9, Authentication
  <2>3. /\ AsService.ok /\ AsService.session = FALSE
        /\ AsService.iap = FALSE /\ AsService.key = TRUE
    BY DEF AsService, Context
  <2> HIDE DEF c, c2
  <2>4. /\ env.multi /\ c.choices = DOMAIN memberships(env, SERVICE)
        /\ c2(t).ok /\ c2(t).tenant = t /\ Like(c2(t), AsService)
    BY <1>0, <1>5, <2>1, <2>2, <2>3, PickingWorks
  <2>5. c2(t).session = FALSE /\ c2(t).iap = FALSE /\ c2(t).key = TRUE BY <2>3, <2>4 DEF Like
  <2> QED BY <2>4, <2>5 DEF own_memberships
<1>10. CASE by = "person"
  <2> DEFINE s == req.session
  <2>1. Way(c, env, s.email, req.header, AsPerson(env, s)) BY <1>10, Authentication
  <2>2. Way(c2(t), env, s.email, t, AsPerson(env, s)) BY <1>3, <1>4, <1>10, Authentication
  <2>3. /\ AsPerson(env, s).ok /\ AsPerson(env, s).session = TRUE
        /\ AsPerson(env, s).email = s.email
    BY DEF AsPerson, Context
  <2> HIDE DEF c, c2
  <2>4. /\ env.multi /\ c.choices = DOMAIN memberships(env, s.email)
        /\ c2(t).ok /\ c2(t).tenant = t /\ Like(c2(t), AsPerson(env, s))
    BY <1>0, <1>5, <2>1, <2>2, <2>3, PickingWorks
  <2>5. c2(t).session = TRUE /\ c2(t).email = s.email BY <2>3, <2>4 DEF Like
  <2> QED BY <2>4, <2>5 DEF own_memberships
<1>11. CASE by = "member"
  <2> DEFINE w == req.iap
  <2>1. Way(c, env, w.sub, req.header, AsMember(env, w)) BY <1>11, Authentication
  <2>2. Way(c2(t), env, w.sub, t, AsMember(env, w)) BY <1>3, <1>4, <1>11, Authentication
  <2>3. /\ AsMember(env, w).ok /\ AsMember(env, w).session = FALSE
        /\ AsMember(env, w).iap = TRUE
    BY DEF AsMember, Context
  <2> HIDE DEF c, c2
  <2>4. /\ env.multi /\ c.choices = DOMAIN memberships(env, w.sub)
        /\ c2(t).ok /\ c2(t).tenant = t /\ Like(c2(t), AsMember(env, w))
    BY <1>0, <1>5, <2>1, <2>2, <2>3, PickingWorks
  <2>5. c2(t).session = FALSE /\ c2(t).iap = TRUE BY <2>3, <2>4 DEF Like
  <2> QED BY <2>4, <2>5 DEF own_memberships
<1> QED BY <1>7, <1>8, <1>9, <1>10, <1>11, Authentication

-----------------------------------------------------------------------------
(* Together.                                                                 *)

LEMMA AccessInit_Inv == AccessInit => AccessInv
<1> SUFFICES ASSUME AccessInit PROVE AccessInv OBVIOUS
<1>1. AccessBase BY AccessAssumption DEF AccessInit, AccessBase, TokensAreMinted
<1>2. answer.kind = "none" BY DEF AccessInit, Silent
<1> QED BY <1>1, <1>2 DEF AccessInv, RowTellsHowTheyCameIn, OfferedChoicesWork,
                          ActsInItsOwnRight, acted

\* Before a request the answer says nothing, and only a request writes it.
LEMMA SilenceIsTrue ==
  answer = Silent => RowTellsHowTheyCameIn /\ OfferedChoicesWork /\ ActsInItsOwnRight
<1>1. answer = Silent => answer.kind = "none" BY DEF Silent
<1> QED BY <1>1 DEF RowTellsHowTheyCameIn, OfferedChoicesWork, ActsInItsOwnRight, acted

LEMMA MintKeepsBase ==
  ASSUME AccessBase, NEW email \in Accounts \cup {e.guest : e \in Envs},
         NEW amr \in {"password", "one_click", "absent"},
         NEW expiry \in {now + TTL_SECONDS, now + ONE_CLICK_TTL_SECONDS, Skew},
         Mint(email, amr, expiry)
  PROVE  AccessBase' /\ answer' = Silent
<1> DEFINE s == [email |-> email, exp |-> expiry, amr |-> amr, secret |-> env.secret, at |-> now]
<1>1. /\ tokens' = tokens \cup {s} /\ env' = env /\ now' = now /\ answer' = Silent
  BY DEF Mint
<1>2. s.amr = amr /\ s.at = now /\ s.exp = expiry /\ s.email = email OBVIOUS
<1>3. now \in Nat BY AccessAssumption DEF AccessBase
<1> HIDE DEF s
<1>4. TokensAreMinted'
  <2> SUFFICES ASSUME NEW t \in tokens'
               PROVE  /\ t.amr \in {"password", "one_click", "absent"}
                      /\ t.at \in Nat
                      /\ t.exp \in {t.at + TTL_SECONDS, t.at + ONE_CLICK_TTL_SECONDS, Skew}
                      /\ t.email \in Accounts \cup {e.guest : e \in Envs}
    BY DEF TokensAreMinted
  <2>1. CASE t \in tokens BY <2>1 DEF AccessBase, TokensAreMinted
  <2>2. CASE t = s BY <1>2, <1>3, <2>2
  <2> QED BY <1>1, <2>1, <2>2
<1> QED BY <1>1, <1>4 DEF AccessBase

LEMMA AccessNext_Inv == AccessInv /\ [AccessNext]_accessVars => AccessInv'
<1> SUFFICES ASSUME AccessInv, [AccessNext]_accessVars PROVE AccessInv' OBVIOUS
<1>0. AccessBase BY DEF AccessInv
<1>q. ASSUME AccessBase', answer' = Silent PROVE AccessInv'
  <2>1. answer'.kind = "none" BY <1>q DEF Silent
  <2> QED BY <1>q, <2>1 DEF AccessInv, RowTellsHowTheyCameIn, OfferedChoicesWork,
                            ActsInItsOwnRight, acted
<1>1. ASSUME NEW a \in Accounts, SignIn(a) PROVE AccessInv'
  BY <1>0, <1>1, <1>q, MintKeepsBase DEF SignIn
<1>2. ASSUME OneClick PROVE AccessInv'
  <2>1. env.guest \in Accounts \cup {e.guest : e \in Envs} BY <1>0 DEF AccessBase
  <2> QED BY <1>0, <1>2, <1>q, <2>1, MintKeepsBase DEF OneClick
<1>3. ASSUME NEW a \in Accounts, SignInWithoutClaim(a) PROVE AccessInv'
  BY <1>0, <1>3, <1>q, MintKeepsBase DEF SignInWithoutClaim
<1>4. ASSUME NEW a \in Accounts, SignInInMilliseconds(a) PROVE AccessInv'
  BY <1>0, <1>4, <1>q, MintKeepsBase DEF SignInInMilliseconds
<1>5. ASSUME NEW e \in Envs, Deploy(e) PROVE AccessInv'
  <2>1. AccessBase' BY <1>0, <1>5 DEF AccessBase, TokensAreMinted, Deploy
  <2> QED BY <1>5, <1>q, <2>1 DEF Deploy
<1>6. ASSUME Tick PROVE AccessInv'
  <2>1. AccessBase' BY <1>0, <1>6, AccessAssumption DEF AccessBase, TokensAreMinted, Tick
  <2> QED BY <1>6, <1>q, <2>1 DEF Tick
<1>7. ASSUME NEW req \in Requests, Handle(req) PROVE AccessInv'
  <2>1. AccessBase' BY <1>0, <1>7 DEF AccessBase, TokensAreMinted, Handle
  <2> QED BY <1>0, <1>7, <2>1, HandleTellsHow, HandleOffersWhatWorks, HandleActsInRight
          DEF AccessInv
<1>8. ASSUME Answered PROVE AccessInv'
  <2>1. AccessBase' BY <1>0, <1>8 DEF AccessBase, TokensAreMinted, Answered
  <2> QED BY <1>8, <1>q, <2>1 DEF Answered
<1>9. CASE UNCHANGED accessVars
  BY <1>9 DEF accessVars, AccessInv, AccessBase, TokensAreMinted, RowTellsHowTheyCameIn,
              OfferedChoicesWork, ActsInItsOwnRight, acted, Assigned
<1> QED BY <1>1, <1>2, <1>3, <1>4, <1>5, <1>6, <1>7, <1>8, <1>9 DEF AccessNext

\* Every answer the service gives is true of the request, the sessions and the lists.
THEOREM AccessSound == AccessSpec => []AccessInv
BY AccessInit_Inv, AccessNext_Inv, PTL DEF AccessSpec

\* A row of the audit trail that names a person's sign-in tells the truth about
\* the session that was used, whatever revisions were started since it was minted.
THEOREM RowsTellTheTruth == AccessSpec => []RowTellsHowTheyCameIn
BY AccessSound, PTL DEF AccessInv

\* Every organisation a refusal offers works in the header of the same request.
THEOREM OffersCanBeTaken == AccessSpec => []OfferedChoicesWork
BY AccessSound, PTL DEF AccessInv

\* Whoever acts on a case holds the role of the route in the organisation that owns it.
THEOREM NobodyActsBeyondTheirRole == AccessSpec => []ActsInItsOwnRight
BY AccessSound, PTL DEF AccessInv
===============================================================================
