-------------------------------- MODULE Access --------------------------------
(***************************************************************************)
(* Requests over time.  The console mints sessions, the clock moves, a new *)
(* revision starts with other variables (a role list edited, a secret      *)
(* rotated, the guest door closed, multi-tenancy switched on), and each    *)
(* request is authenticated under the environment of its moment and only   *)
(* then acts on a case (app.py, auth.py).                                  *)
(***************************************************************************)
EXTENDS AccessRules

CONSTANTS
    Envs,          \* environments a revision may be started with
    Cases,         \* cases, each of one organisation
    owner,         \* the organisation of a case: its _tenant_id field
    Routes,        \* [name, role, password, machine, platform, writes]
    Identities,    \* what an IAP assertion may say: [email, sub]
    Accounts,      \* accounts the console signs in
    TTL_SECONDS, ONE_CLICK_TTL_SECONDS,
    Skew,          \* a `exp` in milliseconds, read as seconds
    MaxTime, MaxTokens

\* The registry is parsed before it is used: every organisation and role in it is
\* one, and a header that is absent or malformed names none.  A guest's session is
\* no longer than a person's, milliseconds lie beyond any session's end, and nobody
\* is called what a caller without a credential is called.
ASSUME AccessAssumption ==
    /\ NoOne \notin Tenants /\ Unreadable \notin Tenants
    /\ \A e \in Envs : \A p \in DOMAIN e.members : \A t \in DOMAIN e.members[p] :
          t \in Tenants /\ e.members[p][t] \in Roles
    /\ owner \in [Cases -> Tenants]
    /\ TTL_SECONDS \in Nat /\ ONE_CLICK_TTL_SECONDS \in 0 .. TTL_SECONDS
    /\ MaxTime \in Nat
    /\ Skew \in Nat /\ Skew > MaxTime + MAX_SESSION_LIFETIME
    /\ DEV \notin {SERVICE} \cup Accounts \cup {e.guest : e \in Envs} \cup {i.email : i \in Identities}

VARIABLES
    env,      \* the environment of the revision now serving
    now,
    tokens,   \* sessions the browsers hold
    answer    \* what became of the last request: its effect, or its refusal

accessVars == <<env, now, tokens, answer>>

Silent == [kind |-> "none"]

Keys == {e.key : e \in Envs} \cup {NoOne}

\* Only /internal/execute reads an organisation from its body.
Requests ==
    {req \in [key : Keys, session : tokens \cup {NoOne, Unreadable},
              header : Tenants \cup {NoOne, Unreadable},
              iap : IF env.iap THEN Identities \cup {NoOne, Unreadable} ELSE {NoOne},
              route : Routes, claimed : Tenants \cup {NoOne}] :
        req.route.machine \/ req.claimed = NoOne}

AccessInit ==
    /\ env \in {e \in Envs : boots(e)}
    /\ now = 0
    /\ tokens = {}
    /\ answer = Silent

Mint(email, amr, expiry) ==
    /\ answer = Silent
    /\ Cardinality(tokens) < MaxTokens
    /\ env.secret # NoOne
    /\ tokens' = tokens \cup {[email |-> email, exp |-> expiry, amr |-> amr,
                               secret |-> env.secret, at |-> now]}
    /\ UNCHANGED <<env, now, answer>>

\* The console's two ways in.
SignIn(account) == Mint(account, "password", now + TTL_SECONDS)
OneClick ==
    /\ one_click_sessions_allowed(env, env.guest, now)
    /\ Mint(env.guest, "one_click", now + ONE_CLICK_TTL_SECONDS)

\* A token minted before the claim existed, and one whose expiry was written
\* in milliseconds.
SignInWithoutClaim(account) == Mint(account, "absent", now + TTL_SECONDS)
SignInInMilliseconds(account) == Mint(account, "password", Skew)

\* A revision with other variables takes over; it starts only if it boots.
\* A process keeps its variables, so a request sees one environment throughout.
Deploy(e) ==
    /\ answer = Silent
    /\ e # env
    /\ boots(e)
    /\ env' = e
    /\ UNCHANGED <<now, tokens, answer>>

Tick ==
    /\ answer = Silent
    /\ now < MaxTime
    /\ now' = now + 1
    /\ UNCHANGED <<env, tokens, answer>>

\* A handler reaches a case only through the organisation of its context.
get_case(case, tenant) == owner[case] = tenant

Principal(req, ctx) == IF ctx.iap /\ env.multi THEN req.iap.sub ELSE ctx.email

Effect(req, ctx, case) ==
    [kind |-> "done", route |-> req.route, case |-> case, actor |-> ctx.email,
     principal |-> Principal(req, ctx), session |-> ctx.session,
     whoami |-> describe_identity(env, ctx, IF ctx.iap THEN req.iap.sub ELSE NoOne),
     actor_auth |-> actor_auth(ctx)]

\* The decorators of the route, then its handler on some case.
Handle(req) ==
    LET ctx == admit(env, req, now)
    IN  /\ answer = Silent
        /\ \/ /\ ctx.ok
              /\ \E case \in Cases :
                    answer' = IF get_case(case, ctx.tenant) THEN Effect(req, ctx, case)
                              ELSE [kind |-> "not found"]
           \/ /\ ~ctx.ok
              /\ answer' = IF ctx.choices = {} THEN [kind |-> "unauthorised"]
                           ELSE [kind |-> "refused", request |-> req, choices |-> ctx.choices]
        /\ UNCHANGED <<env, now, tokens>>

Answered ==
    /\ answer # Silent
    /\ answer' = Silent
    /\ UNCHANGED <<env, now, tokens>>

AccessNext ==
    \/ \E a \in Accounts : SignIn(a)
    \/ OneClick
    \/ \E a \in Accounts : SignInWithoutClaim(a)
    \/ \E a \in Accounts : SignInInMilliseconds(a)
    \/ \E e \in Envs : Deploy(e)
    \/ Tick
    \/ \E req \in Requests : Handle(req)
    \/ Answered

AccessSpec == AccessInit /\ [][AccessNext]_accessVars

-----------------------------------------------------------------------------
\* What an operator of the service would say a principal may do in an
\* organisation, read off the variables with no request in sight.
Assigned(principal, tenant) ==
    IF env.multi
    THEN IF principal \in DOMAIN env.members /\ tenant \in DOMAIN env.members[principal]
         THEN {env.members[principal][tenant]} ELSE {}
    ELSE IF principal = SERVICE THEN {API_KEY_GRANT}
    ELSE IF principal = DEV THEN {env.anonymous} \ {NoOne}
    ELSE {"viewer"} \cup {r \in Roles : r # "viewer" /\ principal \in env.listed[r]}

acted == answer.kind = "done"

\* Whoever acts on a case holds the role of the route in the organisation that
\* owns the case, by the lists of the revision serving the request: not by an
\* older list, another organisation, the body or the header.
ActsInItsOwnRight ==
    acted => has_role(Assigned(answer.principal, owner[answer.case]), answer.route.role)

\* A row that names a person's sign-in tells the truth: the console minted such
\* a session for that person, under the secret in force, within a password
\* session's lifetime; a guest came through a door open at that moment.
RowTellsHowTheyCameIn ==
    (acted /\ answer.session) =>
        \E t \in tokens :
            /\ t.email = answer.actor
            /\ t.amr = answer.actor_auth \/ (t.amr = "absent" /\ answer.actor_auth = "unknown")
            /\ t.secret = env.secret
            /\ now < t.at + TTL_SECONDS
            /\ t.amr = "one_click" =>
                  /\ env.door = "open"
                  /\ answer.actor = env.guest
                  /\ env.until = NoOne \/ now < env.until

\* No write without a credential on a service holding real data, and no
\* hard-to-undo write by a session not known to be a password's.
WritesAreGuarded ==
    (acted /\ answer.route.writes) =>
        /\ env.firestore => answer.actor # DEV
        /\ (answer.route.password /\ answer.session) =>
              \E t \in tokens : t.email = answer.actor /\ t.amr = "password"

\* The organisations a refusal offers are the ones that work: the same request
\* with one of them in the header is no longer refused for its membership, and
\* whoami lists those very organisations.
OfferedChoicesWork ==
    answer.kind = "refused" =>
        \A t \in answer.choices :
            LET again == [answer.request EXCEPT !.header = t]
                ctx == authenticate_request(env, again, now)
            IN  /\ ctx.ok
                /\ ctx.tenant = t
                /\ describe_identity(env, ctx, IF ctx.iap THEN again.iap.sub ELSE NoOne)
                      .memberships = answer.choices

\* The console shows a person the variable that gave them their role: only a
\* viewer is told to be one by default (auth.py:1079-1083).
SourceExplainsRole ==
    (acted /\ answer.whoami.source = "viewer by default") => answer.whoami.role = "viewer"
=============================================================================
