------------------------------- MODULE Routing -------------------------------
(***************************************************************************)
(* A request on its way through the router: NewRouter registers the same   *)
(* routes three times, under no prefix, /api and /api/v1, and a request    *)
(* meets every entry that matches its path in the order of registration.   *)
(* The guards read the token again each time, and it may expire between    *)
(* two of them.                                                            *)
(*                                                                         *)
(* A group with a handler is a Use entry of Fiber: it matches every path   *)
(* that begins with its prefix, whichever registration the path is for.    *)
(***************************************************************************)
EXTENDS Naturals, Sequences

CONSTANTS
    Companies,
    Roles,       \* some of the roles users may have
    None         \* no token, no header, nothing in the locals

PublicEndpoints == {"health", "bootstrap-status", "system/setup", "system/login",
                    "company/login"}
SystemEndpoints == {"list companies", "create company", "list users", "create user"}
AdminEndpoints == {"list collaborators", "create collaborator", "update collaborator",
                   "delete collaborator", "list by dashboard", "update commission",
                   "get access", "set access", "monthly commissions"}
ScopedEndpoints == {"sync", "change-password", "ads", "ads/summary", "portal",
                    "portal history", "dashboards", "summary", "history", "ads/objects"}
CompanyEndpoints == AdminEndpoints \cup ScopedEndpoints
Endpoints == PublicEndpoints \cup {"me"} \cup SystemEndpoints \cup CompanyEndpoints
             \cup {"elsewhere"}   \* a path of no route

\* The three registrations, and the paths' prefixes: each one begins with all
\* those before it.
Prefixes == 1 .. 3

Claims == [kind : {"system"}] \cup [kind : {"company"}, company : Companies, role : Roles]
BadToken == [kind |-> "bad"]   \* no token of this service, or an old one
VARIABLES
    request,    \* what is being served
    expired,    \* its token has expired
    at,         \* the entry of the stack it has come to
    claims,     \* locals: auth_context
    scope,      \* locals: company_context
    reply       \* None while it is on its way

vars == <<request, expired, at, claims, scope, reply>>

RequestRecord ==
    [prefix : Prefixes, endpoint : Endpoints,
     token : Claims \cup {BadToken, None},     \* the Authorization header
     company : Companies \cup {None},          \* X-Company-ID
     role : Roles \cup {None},                 \* X-User-Role
     malformed : BOOLEAN]                      \* X-Niche-ID or X-User-ID

(***************************************************************************)
(* The stack                                                               *)
(***************************************************************************)

\* Faulty variant: the company group is opened before the system routes.
SlotsCompanyFirst ==
    <<"public", "me", "company guard", "company", "system guard", "system">>

\* What one call of registerRoutes adds, in order.
Slots == <<"public", "me", "system guard", "system", "company guard", "company">>

Stack == 1 .. 3 * Len(Slots)
SlotAt(n) == Slots[((n - 1) % Len(Slots)) + 1]
RegistrationAt(n) == ((n - 1) \div Len(Slots)) + 1

\* Does the entry match the path of the request?  The company group's prefix
\* is the registration's own, so it matches those of later registrations too.
Matches(n, q) ==
    LET own == RegistrationAt(n) = q.prefix IN
    CASE SlotAt(n) = "public"        -> own /\ q.endpoint \in PublicEndpoints
      [] SlotAt(n) = "me"            -> own /\ q.endpoint = "me"
      [] SlotAt(n) \in {"system guard", "system"}
                                     -> own /\ q.endpoint \in SystemEndpoints
      [] SlotAt(n) = "company guard" -> RegistrationAt(n) <= q.prefix
      [] SlotAt(n) = "company"       -> own /\ q.endpoint \in CompanyEndpoints

(***************************************************************************)
(* The guards                                                              *)
(***************************************************************************)

\* isCollaboratorRole.  No role at all is not a collaborator's.
CollaboratorRoles == {"copywriter", "editor", "closer"}

\* AuthenticateToken, with ParseToken's look at the clock.
Authenticated(q) == q.token \notin {None, BadToken} /\ ~expired

\* Faulty variant: the headers complete the token.
ScopeOfHeaderRole(q) ==
    IF q.token # None THEN [company |-> q.token.company,
                            role |-> IF q.role # None THEN q.role ELSE q.token.role]
    ELSE [company |-> q.company, role |-> q.role]

\* RequireCompanyContext: from the token if there is one, else from headers.
ScopeOf(q) ==
    IF q.token # None THEN [company |-> q.token.company, role |-> q.token.role]
    ELSE [company |-> q.company, role |-> q.role]

\* What RequireCompanyContext answers, None if it lets the request pass.
CompanyRefusal(q) ==
    CASE q.token # None /\ ~Authenticated(q)              -> "unauthorized"
      [] Authenticated(q) /\ q.token.kind # "company"     -> "forbidden"
      [] q.token = None /\ q.company = None               -> "unauthorized"
      [] OTHER -> IF q.malformed THEN "bad request" ELSE None

\* Faulty variant: any session will do.
SystemRefusalOfAnyKind(q) == IF Authenticated(q) THEN None ELSE "unauthorized"

\* RequireSystemAuth.
SystemRefusal(q) ==
    CASE ~Authenticated(q)          -> "unauthorized"
      [] Authenticated(q)           -> IF q.token.kind = "system" THEN None ELSE "forbidden"

(***************************************************************************)
(* Actions                                                                 *)
(***************************************************************************)

Init ==
    /\ request \in RequestRecord
    /\ expired = FALSE
    /\ at = 1
    /\ claims = None /\ scope = None
    /\ reply = None

Expire ==
    /\ reply = None
    /\ Authenticated(request)
    /\ expired' = TRUE
    /\ UNCHANGED <<request, at, claims, scope, reply>>

\* On the way at an entry of that kind, which matches.
Meets(slot) ==
    /\ reply = None
    /\ at \in Stack /\ Matches(at, request)
    /\ SlotAt(at) = slot

Skip ==
    /\ reply = None
    /\ at \in Stack /\ ~Matches(at, request)
    /\ at' = at + 1
    /\ UNCHANGED <<request, expired, claims, scope, reply>>

NotFound ==
    /\ reply = None
    /\ at \notin Stack
    /\ reply' = "not found"
    /\ UNCHANGED <<request, expired, at, claims, scope>>

Refuse(with) ==
    /\ reply' = with
    /\ UNCHANGED <<request, expired, at, claims, scope>>

SystemGuard ==
    /\ Meets("system guard")
    /\ \/ /\ SystemRefusal(request) # None
          /\ Refuse(SystemRefusal(request))
       \/ /\ SystemRefusal(request) = None
          /\ claims' = request.token
          /\ at' = at + 1
          /\ UNCHANGED <<request, expired, scope, reply>>

CompanyGuard ==
    /\ Meets("company guard")
    /\ \/ /\ CompanyRefusal(request) # None
          /\ Refuse(CompanyRefusal(request))
       \/ /\ CompanyRefusal(request) = None
          /\ scope' = ScopeOf(request)
          /\ at' = at + 1
          /\ UNCHANGED <<request, expired, claims, reply>>

\* The handler of /auth/me, with its own RequireAuthenticated before it.
Me ==
    /\ Meets("me")
    /\ \/ ~Authenticated(request) /\ Refuse("unauthorized")
       \/ /\ Authenticated(request)
          /\ claims' = request.token
          /\ reply' = "handled"
          /\ UNCHANGED <<request, expired, at, scope>>

\* A public or a system handler runs.
Handle ==
    /\ Meets("public") \/ Meets("system")
    /\ reply' = "handled"
    /\ UNCHANGED <<request, expired, at, claims, scope>>

\* RequireAdmin, on the routes that have it, and the handler.
HandleScoped ==
    /\ Meets("company")
    /\ reply' = IF request.endpoint \in AdminEndpoints /\ scope.role \in CollaboratorRoles
                THEN "forbidden" ELSE "handled"
    /\ UNCHANGED <<request, expired, at, claims, scope>>

Next ==
    \/ Expire
    \/ Skip \/ NotFound
    \/ SystemGuard \/ CompanyGuard
    \/ Me \/ Handle \/ HandleScoped

(***************************************************************************)
(* Properties                                                              *)
(***************************************************************************)

Handled == reply = "handled"

\* A handler sees the identity of its own request: claims and scope are those
\* of its token, or the headers' if it has none, though three guards may have
\* written them and the token expired on the way.
IdentityIsTheRequests ==
    Handled =>
        /\ claims \in {None, request.token}
        /\ scope # None => /\ scope.company = IF request.token = None THEN request.company
                                              ELSE request.token.company
                           /\ scope.role = IF request.token = None THEN request.role
                                           ELSE request.token.role

\* Under every prefix a handler runs behind the guards its group was given:
\* system handlers with a system session, company handlers with a company,
\* administration not for copywriters, editors and closers.
BehindItsGuards ==
    Handled =>
        /\ request.endpoint \in SystemEndpoints => claims # None /\ claims.kind = "system"
        /\ request.endpoint \in CompanyEndpoints => scope # None
        /\ request.endpoint \in AdminEndpoints =>
              scope.role \notin {"copywriter", "editor", "closer"}

\* What the README asks of a request for an endpoint.
Suffices(q) ==
    CASE q.endpoint = "elsewhere"       -> FALSE
      [] q.endpoint \in PublicEndpoints -> TRUE
      [] q.endpoint = "me"              -> q.token \notin {None, BadToken}
      [] q.endpoint \in SystemEndpoints -> q.token # None /\ q.token.kind = "system"
      [] OTHER ->
           /\ ~q.malformed
           /\ \/ q.token # None /\ q.token.kind = "company"
              \/ q.token = None /\ q.company # None
           /\ q.endpoint \in AdminEndpoints => ScopeOf(q).role \notin CollaboratorRoles

\* Without a prefix every endpoint serves whoever brings what it needs, and
\* company endpoints do so under all three.
ServedWithoutPrefix ==
    /\ reply # None /\ ~expired
    /\ Suffices(request)
    /\ request.prefix = 1 \/ request.endpoint \in CompanyEndpoints
    => reply = "handled"

=============================================================================
