------------------------------- MODULE MCFront -------------------------------
(***************************************************************************)
(* An instance for TLC of four modules about single requests, from the one *)
(* that comes in to the one that goes out: Routing, SystemAccounts, Portal *)
(* and UtmifyCalls.                                                        *)
(*                                                                         *)
(* The four share no state.  A behaviour is one of one of them, which      *)
(* `part' names from the start, and the variables of the others stay as    *)
(* they were: the run has the states of each of them, never their product, *)
(* and a property of a part is checked on all of its behaviours and holds  *)
(* of the others by itself.                                                *)
(***************************************************************************)
EXTENDS SystemAccounts, TLC

CONSTANTS
    \* Routing's, with the roles under a name of their own
    Companies, CompanyRoles,
    \* Portal's, likewise, with two of its ads and a dashboard
    Ads, Dashboards, PageRoles, LastDay, Period, Earned, MaxChanges, a1, a2, d1,
    \* UtmifyCalls', and what others spend when they spend something
    Calls, Jobs, LookUps, MaxRetries, RequestTicks, Deadline, Quota, Window, Crowd

VARIABLES part,
    routed, tokenExpired, at, claims, scope, reply,
    utmify, today, changes, hired, sync, backfill, ads, links, snapshots, entries, page,
    call, phase, served

routingVars == <<routed, tokenExpired, at, claims, scope, reply>>
portalVars ==
    <<utmify, today, changes, hired, sync, backfill, ads, links, snapshots, entries, page>>
callVars == <<call, phase, served>>

Routes == INSTANCE Routing WITH
    Roles <- CompanyRoles, request <- routed, expired <- tokenExpired

\* None stands for no scope and for no answer, so it is neither.
ASSUME NoneAssumption ==
    None \notin [company : Companies \cup {None}, role : CompanyRoles \cup {None}]
               \cup {"unauthorized", "forbidden", "bad request", "not found", "handled"}

\* No two sets of rows of two ads have the same sum.
OneAndTen == a1 :> 1 @@ a2 :> 10

Pages == INSTANCE Portal WITH Roles <- PageRoles, request <- page

\* Tables are finite, ads earn natural numbers, and no role is none.
ASSUME PagesAssumption ==
    /\ IsFiniteSet(Ads) /\ IsFiniteSet(PageRoles) /\ IsFiniteSet(Period)
    /\ LastDay \in Nat \ {0}
    /\ Earned \in [Ads -> Nat]
    /\ None \notin PageRoles

\* A burst that nobody else calls in, and one when others have used the limit up.
Utmify == INSTANCE UtmifyCalls WITH Others <- 0
Crowded == INSTANCE UtmifyCalls WITH Others <- Crowd

\* Time is counted, and a window has at least a tick.
ASSUME TimesAssumption ==
    /\ MaxRetries \in Nat /\ RequestTicks \in Nat /\ Deadline \in Nat
    /\ Quota \in Nat /\ Crowd \in Nat /\ Window \in Nat \ {0}

\* What the calls ask of Utmify: a tool, and the list of dashboards before it.
Asked == (Calls \X {1}) \cup (LookUps \X {2})

\* The burst is at most twice as large as what Utmify serves in a window, and a
\* call has as many retries as the window has ticks: "12 * 5s = 60s max".
ASSUME BurstAssumption ==
    /\ LookUps \subseteq Calls
    /\ IsFiniteSet(Asked) /\ Cardinality(Asked) <= 2 * Quota
    /\ Window <= MaxRetries

AnyRequest ==
    [prefix |-> 1, endpoint |-> "health", token |-> None, company |-> None, role |-> None,
     malformed |-> FALSE]

\* The first ad is an editor's of d1 in the beginning: roles and dashboards are
\* interchangeable.
MCInit ==
    /\ part \in {"accounts", "routes", "pages", "calls", "crowd"}
    /\ Init
    /\ Routes!Init
    /\ part # "routes" => routed = AnyRequest
    /\ Pages!Init
    /\ utmify[a1] = [dashboard |-> d1, role |-> "editor"]
    /\ part # "pages" => \A a \in Ads : utmify[a] = utmify[a1]
    /\ IF part = "crowd" THEN Crowded!Init ELSE Utmify!Init
    /\ part \notin {"calls", "crowd"} => phase = 0

MCNext ==
    /\ UNCHANGED part
    /\ \/ part = "accounts" /\ Next /\ UNCHANGED <<routingVars, portalVars, callVars>>
       \/ part = "routes" /\ Routes!Next /\ UNCHANGED <<vars, portalVars, callVars>>
       \/ part = "pages" /\ Pages!Next /\ UNCHANGED <<vars, routingVars, callVars>>
       \/ part \in {"calls", "crowd"} /\ Utmify!Next /\ UNCHANGED <<vars, routingVars, portalVars>>

MCSpec == MCInit /\ [][MCNext]_<<part, vars, routingVars, portalVars, callVars>>

\* Routing: a handler sees the identity of its own request.
IdentityIsTheRequests == Routes!IdentityIsTheRequests

\* Routing: under every prefix a handler runs behind its group's guards.
BehindItsGuards == Routes!BehindItsGuards

\* Routing: without a prefix whoever brings what an endpoint needs is served.
ServedWithoutPrefix == Routes!ServedWithoutPrefix

\* Portal: the total of a calm page is the sum of its history.
TotalIsTheHistorys == Pages!TotalIsTheHistorys

\* Portal: an administrator is shown what the collaborator is shown.
MonthlyShowsNoLess == Pages!MonthlyShowsNoLess

\* UtmifyCalls: nobody gives up before the rate limit is lifted, unless others
\* spend it.
OutlastsTheLimit == part = "calls" => Utmify!OutlastsTheLimit

\* UtmifyCalls: a call ends within its context, or after all its attempts.
EndsInTime == Utmify!EndsInTime
=============================================================================
