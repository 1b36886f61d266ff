------------------------------- MODULE MCDoors -------------------------------
(* Who may come in and who may act: the agent's delegated authority            *)
(* (Delegation), the throttle of the console's logins (LoginThrottle) and the  *)
(* identity of a request (Access), each in a small instance.  They share no    *)
(* state, so a behaviour is about one of them, its side, and the others stay   *)
(* as they began: nothing is lost by it, and one run of TLC checks all three.  *)
EXTENDS Delegation, LoginThrottle, Access, TLC

VARIABLE side

-----------------------------------------------------------------------------
(* Authority: permission objects and cases that differ where the gate looks.  *)

Grant == [stated |-> TRUE, permitted |-> "true", risk |-> 39, value |-> 1, zero |-> "absent",
          hs |-> {"8471"}, destinations |-> {"iran"}]

\* The template of proposed_boundary, a broader grant, and three that must be refused:
\* a text where the boolean is due, a ceiling left out, and a trigger nobody detects.
Proposed == [tidy |-> TRUE, allowed |-> {"hold_shipment"}, require |-> {"score_disputed"},
             draft |-> "true", file |-> "false", release |-> Grant]
Broad    == [Proposed EXCEPT !.require = {}, !.release.zero = "false", !.release.hs = {}]
Mistyped == [Proposed EXCEPT !.release.permitted = "other"]
NoLimit  == [Proposed EXCEPT !.release.value = Absent]
Unknown  == [Proposed EXCEPT !.require = {"score_dispute"}]

AllDrafts == {Proposed, Broad, Mistyped, NoLimit, Unknown}

Plain == [marker |-> FALSE, screened |-> FALSE, armor |-> FALSE, forbidden |-> FALSE,
          disputed |-> FALSE, blocked |-> FALSE, unsupported |-> FALSE, vetoed |-> FALSE,
          risk |-> 10, findings |-> 0, clear |-> "true", value |-> 1, hs |-> "none",
          stated_destination |-> TRUE, destinations |-> {}]
DualUse == [Plain EXCEPT !.hs = "8471", !.findings = 1]
Tampered == [Plain EXCEPT !.forbidden = TRUE]

Proposal == [s \in {Plain, DualUse, Tampered} |->
               IF s = Tampered THEN "hold_shipment" ELSE "release_shipment"]

AllShipments == {Plain, DualUse, Tampered}

\* No guard reads a row of the trail: of the rows only what a property names matters, and
\* of a boundary neither whom it superseded nor how it ended.
RowSeen(row) == IF row.kind \in {"publish", "revoke"} THEN <<"change">>
                ELSE <<row.kind, row.case, row.action>>

AuthoritySeen == <<[t \in Owners |-> [v \in DOMAIN boundaries[t] |->
             <<boundaries[t][v].permissions, v \in ActiveVersions(t)>>]],
          counter, board,
          [t \in Owners |-> {RowSeen(row) : row \in trail[t]} \ {<<"change">>}],
          [a \in Agents |-> IF call[a] = IdleCall THEN <<>> ELSE
             <<call[a].pc, call[a].tenant, call[a].case, call[a].action, VersionOf(call[a].boundary)>>],
          [p \in People |-> request[p].pc]>>

-----------------------------------------------------------------------------
(* The throttle: an attempt is counted against an account and a source.       *)
CONSTANTS account, source, l1, l2, l3

MCKeys == {account, source}
MCAttempts == {l1, l2, l3}
MCLimit == (account :> 1) @@ (source :> 2)
MCOrder == (account :> 1) @@ (source :> 2)
MCRequests == {MCKeys}

-----------------------------------------------------------------------------
(* Access: tenants, people, keys and configurations.                          *)

CONSTANTS acme, beta, home, ann, guest, annSub, k1, k2, s1, s2, c1, c2, c3

Nobody == [r \in Roles |-> {}]
Lists == [Nobody EXCEPT !["governance_admin"] = {ann}, !["reviewer"] = {guest}]

Single ==
    [multi |-> FALSE, iap |-> FALSE, firestore |-> TRUE, key |-> k1, secret |-> s1,
     anonymous |-> "viewer", door |-> "open", guest |-> guest, until |-> 2,
     listed |-> Lists, members |-> [p \in {} |-> "none"]]

Registry ==
    (ann :> (acme :> "governance_admin" @@ home :> "viewer"))
        @@ (guest :> (beta :> "operator"))
        @@ (annSub :> (acme :> "reviewer" @@ beta :> "operator"))
        @@ (SERVICE :> (acme :> "operator" @@ beta :> "viewer"))

MCEnvs ==
    {Single,
     [Single EXCEPT !.door = "closed"],
     [Single EXCEPT !.secret = s2, !.key = k2],
     [Single EXCEPT !.listed = Nobody, !.secret = NoOne],
     [Single EXCEPT !.firestore = FALSE, !.anonymous = "governance_admin", !.key = NoOne],
     [Single EXCEPT !.anonymous = "operator"],
     [Single EXCEPT !.iap = TRUE, !.anonymous = "governance_admin"],
     [Single EXCEPT !.multi = TRUE],
     [Single EXCEPT !.multi = TRUE, !.members = Registry],
     [Single EXCEPT !.multi = TRUE, !.iap = TRUE, !.members = Registry, !.secret = NoOne]}

Route(name, role, password, machine, platform, writes) ==
    [name |-> name, role |-> role, password |-> password, machine |-> machine,
     platform |-> platform, writes |-> writes]

MCRoutes ==
    {Route("read", "viewer", FALSE, FALSE, FALSE, FALSE),
     Route("decide", "reviewer", FALSE, FALSE, FALSE, TRUE),
     Route("approve", "reviewer", TRUE, FALSE, FALSE, TRUE),
     Route("publish", "governance_admin", TRUE, FALSE, FALSE, TRUE),
     Route("execute", "operator", FALSE, TRUE, FALSE, TRUE),
     Route("throttle", "governance_admin", FALSE, FALSE, TRUE, FALSE)}

MCIdentities == {[email |-> ann, sub |-> annSub], [email |-> NoOne, sub |-> annSub],
                 [email |-> ann, sub |-> NoOne]}
MCOwner == (c1 :> acme) @@ (c2 :> beta) @@ (c3 :> home)

-----------------------------------------------------------------------------
(* The three side by side.                                                    *)

DoorsInit ==
  /\ side \in {"authority", "throttle", "access"}
  /\ AuthorityInit /\ ThrottleInit /\ AccessInit
  /\ side # "throttle" => backend = "memory"
  /\ side # "access" => env = Single

DoorsNext ==
  \/ side = "authority" /\ AuthorityNext /\ UNCHANGED <<throttleVars, accessVars, side>>
  \/ side = "throttle" /\ ThrottleNext /\ UNCHANGED <<authorityVars, accessVars, side>>
  \/ side = "access" /\ AccessNext /\ UNCHANGED <<authorityVars, throttleVars, side>>

DoorsSpec == DoorsInit /\ [][DoorsNext]_<<authorityVars, throttleVars, accessVars, side>>

Seen == <<side, AuthoritySeen, throttleVars, accessVars>>
Alike == Permutations(Agents) \cup Permutations(MCAttempts)
===============================================================================
