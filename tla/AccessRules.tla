----------------------------- MODULE AccessRules -----------------------------
(***************************************************************************)
(* Who a request is and what it may do: authentication and roles (auth.py),*)
(* the membership registry (membership.py), the tenant guard (tenant.py)   *)
(* and the console's session claims.  Everything is a function of the      *)
(* request, the clock and the environment the revision was started with.   *)
(*                                                                         *)
(* An environment is a record of what the variables mean, not of their     *)
(* text: [multi, iap, firestore : BOOLEAN, key, secret, anonymous, door,   *)
(* guest, until, listed, members].                                         *)
(***************************************************************************)
EXTENDS Integers, FiniteSets

CONSTANTS
    Tenants,          \* organisations the registry may name
    SINGLE_TENANT_ID, \* the implicit one when MULTI_TENANT is off
    SERVICE,          \* the principal of the platform key
    DEV,              \* the identity of a caller with no credential
    NoOne,            \* an absent e-mail, key, secret, token or header
    Unreadable,       \* a header or token that is present and malformed
    MAX_SESSION_LIFETIME

ASSUME AccessRulesAssumption ==
    /\ SINGLE_TENANT_ID \in Tenants
    /\ MAX_SESSION_LIFETIME \in Nat

Roles == {"viewer", "reviewer", "operator", "governance_admin"}

ROLE_HIERARCHY ==
    [r \in Roles |->
        IF r = "viewer" THEN {"viewer"}
        ELSE IF r = "reviewer" THEN {"viewer", "reviewer"}
        ELSE IF r = "operator" THEN {"viewer", "reviewer", "operator"}
        ELSE Roles]

ROLE_RANK == [r \in Roles |-> Cardinality(ROLE_HIERARCHY[r]) - 1]
API_KEY_GRANT == "governance_admin"

has_role(roles, required) == \E r \in roles : required \in ROLE_HIERARCHY[r]

highest_role(roles) ==
    IF roles = {} THEN "viewer"
    ELSE CHOOSE r \in roles : \A q \in roles : ROLE_RANK[q] <= ROLE_RANK[r]

\* Mutant: a person gets the key's own grant.
ceiling_roles(person, ceiling) == {"viewer", ceiling}

narrow_roles(person, ceiling) ==
    LET limit == ROLE_RANK[ceiling]
        kept  == {r \in person : ROLE_RANK[r] <= limit}
                     \cup {c \in {ceiling} : \E r \in person : ROLE_RANK[r] > limit}
    IN  IF kept = {} THEN {"viewer"} ELSE kept

-----------------------------------------------------------------------------
(* Sessions.  A token is [email, exp, amr, secret].                        *)

one_click_sessions_allowed(env, email, now) ==
    /\ env.door = "open"
    /\ env.guest # NoOne
    /\ email = env.guest
    /\ env.until = NoOne \/ now < env.until

\* Mutant: a token without the claim counts as a password session.
method_or_password(token) == IF token.amr = "one_click" THEN "one_click" ELSE "password"

\* The method a token claims; an absent or unknown claim is never a password.
method_of(token) ==
    IF token.amr \in {"password", "one_click"} THEN token.amr ELSE "unknown"

\* Mutant: the expiry has no upper bound.
session_unbounded(env, token, now) ==
    /\ env.secret # NoOne
    /\ token \notin {NoOne, Unreadable}
    /\ token.secret = env.secret
    /\ token.exp > now
    /\ token.email # NoOne
    /\ method_of(token) = "one_click" => one_click_sessions_allowed(env, token.email, now)

session_verifies(env, token, now) ==
    /\ env.secret # NoOne
    /\ token \notin {NoOne, Unreadable}
    /\ token.secret = env.secret
    /\ token.exp > now
    /\ token.exp <= now + MAX_SESSION_LIFETIME
    /\ token.email # NoOne
    /\ method_of(token) = "one_click" => one_click_sessions_allowed(env, token.email, now)

-----------------------------------------------------------------------------
(* Memberships: env.members[principal] is a function of tenants to a role. *)

memberships(env, principal) ==
    IF principal \in DOMAIN env.members THEN env.members[principal] ELSE [t \in {} |-> "viewer"]

Refusal(status, reason, choices) ==
    [ok |-> FALSE, status |-> status, reason |-> reason, choices |-> choices]
Granted(tenant, roles) == [ok |-> TRUE, tenant |-> tenant, roles |-> roles]

resolve(env, principal, requested) ==
    LET granted == memberships(env, principal)
        mine    == DOMAIN granted
        only    == CHOOSE t \in mine : TRUE
    IN  IF mine = {} THEN Refusal(403, "no_membership", {})
        ELSE IF requested = Unreadable THEN Refusal(400, "invalid_choice", mine)
        ELSE IF requested # NoOne
             THEN IF requested \in mine
                  THEN Granted(requested, {"viewer", granted[requested]})
                  ELSE Refusal(403, "not_member_of_requested", mine)
        ELSE IF Cardinality(mine) = 1 THEN Granted(only, {"viewer", granted[only]})
        ELSE Refusal(403, "tenant_choice_required", mine)

\* The roles the global lists assign; everyone is a viewer.
get_user_roles(env, email) ==
    {"viewer"} \cup {r \in Roles \ {"viewer"} : email \in env.listed[r]}

-----------------------------------------------------------------------------
(* The context of a request: [ok, email, roles, tenant, key, session,      *)
(* method, iap], or a refusal.                                             *)

Context(email, roles, tenant, key, session, method, iap) ==
    [ok |-> TRUE, email |-> email, roles |-> roles, tenant |-> tenant,
     key |-> key, session |-> session, method |-> method, iap |-> iap]

\* `caller` as a member of the organisation its principal resolves to; an API
\* key keeps its own limit on the roles.
member_context(env, principal, header, caller) ==
    LET grant == resolve(env, principal, header)
    IN  IF ~grant.ok THEN grant
        ELSE [caller EXCEPT !.tenant = grant.tenant,
                            !.roles  = IF caller.key THEN narrow_roles(grant.roles, API_KEY_GRANT)
                                       ELSE grant.roles]

api_key_context(env, req, now) ==
    LET service == Context(SERVICE, narrow_roles({API_KEY_GRANT}, API_KEY_GRANT),
                           SINGLE_TENANT_ID, TRUE, FALSE, "none", FALSE)
        person  == Context(req.session.email,
                           narrow_roles(get_user_roles(env, req.session.email), API_KEY_GRANT),
                           SINGLE_TENANT_ID, TRUE, TRUE, method_of(req.session), FALSE)
    IN  IF req.session = NoOne
        THEN IF env.multi THEN member_context(env, SERVICE, req.header, service) ELSE service
        ELSE IF ~session_verifies(env, req.session, now)
        THEN Refusal(401, "invalid_session", {})
        ELSE IF env.multi THEN member_context(env, req.session.email, req.header, person)
        ELSE person

iap_context(env, req) ==
    LET member == Context(req.iap.email, get_user_roles(env, req.iap.email),
                          SINGLE_TENANT_ID, FALSE, FALSE, "none", TRUE)
    IN  IF req.iap \in {NoOne, Unreadable} THEN Refusal(401, "iap", {})
        ELSE IF req.iap.email = NoOne THEN Refusal(401, "iap", {})
        ELSE IF ~env.multi THEN member
        ELSE IF req.iap.sub = NoOne THEN Refusal(401, "iap", {})
        ELSE member_context(env, req.iap.sub, req.header, member)

anonymous_context(env) ==
    IF env.multi \/ env.anonymous = NoOne THEN Refusal(401, "anonymous", {})
    ELSE Context(DEV, {env.anonymous}, SINGLE_TENANT_ID, FALSE, FALSE, "none", FALSE)

authenticate_request(env, req, now) ==
    IF req.key # NoOne
    THEN IF req.key = env.key THEN api_key_context(env, req, now)
         ELSE Refusal(401, "invalid_key", {})
    ELSE IF env.iap THEN iap_context(env, req)
    ELSE anonymous_context(env)

is_machine_identity(ctx) == ~ctx.iap /\ ctx.key /\ ~ctx.session
acts_for_a_person(ctx) == ctx.email \notin {SERVICE, DEV}

actor_auth(ctx) ==
    IF ctx.session THEN ctx.method
    ELSE IF ctx.key THEN "api_key"
    ELSE IF ctx.iap THEN "iap" ELSE "anonymous"

-----------------------------------------------------------------------------
(* Route guards.  A route is [role, password, machine, platform].          *)

require_role(ctx, route) == has_role(ctx.roles, route.role)
require_password_session(ctx, route) ==
    route.password => (ctx.session => ctx.method = "password")

\* /internal/login-throttle: the key alone, no tenant and no registry.
require_platform_key(env, req) ==
    IF env.key = NoOne \/ req.key # env.key THEN Refusal(401, "platform_key", {})
    ELSE IF req.session # NoOne THEN Refusal(403, "service_only", {})
    ELSE Context(SERVICE, {API_KEY_GRANT}, NoOne, TRUE, FALSE, "none", FALSE)

\* /internal/execute: a machine, for a case of the organisation it selected.
internal_execute(ctx, claimed) ==
    IF ~is_machine_identity(ctx) THEN Refusal(403, "machine_only", {})
    ELSE IF claimed \notin {NoOne, ctx.tenant} THEN Refusal(409, "tenant_mismatch", {})
    ELSE ctx

admit(env, req, now) ==
    IF req.route.platform THEN require_platform_key(env, req)
    ELSE LET ctx == authenticate_request(env, req, now)
         IN  IF ~ctx.ok THEN ctx
             ELSE IF ~require_role(ctx, req.route) THEN Refusal(403, "role", {})
             ELSE IF ~require_password_session(ctx, req.route) THEN Refusal(403, "password", {})
             ELSE IF req.route.machine THEN internal_execute(ctx, req.claimed)
             ELSE ctx

-----------------------------------------------------------------------------
(* What the process refuses to start with.                                 *)

grants_write_access(role) == role # NoOne /\ "reviewer" \in ROLE_HIERARCHY[role]

isolation_is_enforceable(env) ==
    (env.multi /\ env.firestore) => (env.iap \/ env.secret # NoOne)
registry_is_usable(env) == env.multi => DOMAIN env.members # {}
write_access_is_guarded(env) ==
    (env.firestore /\ ~env.iap) => ~grants_write_access(env.anonymous)

boots(env) ==
    /\ isolation_is_enforceable(env)
    /\ registry_is_usable(env)
    /\ write_access_is_guarded(env)

-----------------------------------------------------------------------------
(* GET /api/v1/auth/whoami.                                                *)

\* Mutant: an IAP caller is looked up by e-mail.
memberships_by_email(env, ctx, sub) ==
    IF ~env.multi THEN {}
    ELSE DOMAIN memberships(env, IF ctx.key /\ ~ctx.session THEN SERVICE ELSE ctx.email)

own_memberships(env, ctx, sub) ==
    IF ~env.multi THEN {}
    ELSE DOMAIN memberships(env, IF ctx.session \/ (~ctx.iap /\ ~ctx.key) THEN ctx.email
                                 ELSE IF ctx.iap THEN sub ELSE SERVICE)

\* Which variable explains the caller's highest role.
role_source(env, ctx) ==
    LET top == highest_role(ctx.roles)
    IN  IF ctx.session \/ ctx.iap
        THEN IF top # "viewer" /\ ctx.email \in env.listed[top] THEN top
             ELSE "viewer by default"
        ELSE IF ctx.key THEN "VF_API_KEY" ELSE "ANONYMOUS_ROLE"

describe_identity(env, ctx, sub) ==
    [role        |-> highest_role(ctx.roles),
     grants      |-> UNION {ROLE_HIERARCHY[r] : r \in ctx.roles},
     source      |-> role_source(env, ctx),
     memberships |-> own_memberships(env, ctx, sub)]
=============================================================================
