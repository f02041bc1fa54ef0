---------------------------- MODULE RoutingProofs ----------------------------
(***************************************************************************)
(* Proofs about Routing, for any companies and roles.                      *)
(*                                                                         *)
(* A request that has come to an entry has the identity that the guards    *)
(* before it took from its own token or headers (LocalsAreTheRequests),    *)
(* has passed every guard on its way (GuardsPassed), and has not gone past *)
(* the handler of its own registration (NotPast).                          *)
(***************************************************************************)
EXTENDS Routing, TLAPS

\* What a scope looks like, and what an answer says.
ScopeRecord == [company : Companies \cup {None}, role : Roles \cup {None}]
Replies == {"unauthorized", "forbidden", "bad request", "not found", "handled"}

\* None stands for no scope and for no answer, so it is neither.
NoneIsNothing == None \notin ScopeRecord \cup Replies

(***************************************************************************)
(* The stack                                                               *)
(***************************************************************************)

\* Where the entries of a registration begin, and where its handlers are.
Base(p) == 6 * (p - 1)

\* The eighteen entries, three times the same six.
LEMMA Layout ==
    ASSUME NEW n \in Stack
    PROVE  /\ RegistrationAt(n) \in Prefixes
           /\ n \in 1 .. 18
           /\ n \in Base(RegistrationAt(n)) + 1 .. Base(RegistrationAt(n)) + 6
           /\ SlotAt(n) = "public"        <=> n = Base(RegistrationAt(n)) + 1
           /\ SlotAt(n) = "me"            <=> n = Base(RegistrationAt(n)) + 2
           /\ SlotAt(n) = "system guard"  <=> n = Base(RegistrationAt(n)) + 3
           /\ SlotAt(n) = "system"        <=> n = Base(RegistrationAt(n)) + 4
           /\ SlotAt(n) = "company guard" <=> n = Base(RegistrationAt(n)) + 5
           /\ SlotAt(n) = "company"       <=> n = Base(RegistrationAt(n)) + 6
<1>1. Len(Slots) = 6
    BY DEF Slots
<1>2. n \in 1 .. 18
    BY <1>1 DEF Stack
<1> DEFINE i == ((n - 1) % 6) + 1
           p == ((n - 1) \div 6) + 1
<1>3. p \in 1 .. 3 /\ i \in 1 .. 6 /\ n = 6 * (p - 1) + i
    BY <1>2
<1>4. RegistrationAt(n) = p /\ SlotAt(n) = Slots[i]
    BY <1>1 DEF RegistrationAt, SlotAt
<1> HIDE DEF i, p
<1>5. /\ Slots[1] = "public" /\ Slots[2] = "me" /\ Slots[3] = "system guard"
      /\ Slots[4] = "system" /\ Slots[5] = "company guard" /\ Slots[6] = "company"
    BY DEF Slots
<1>6. /\ Base(p) = 6 * (p - 1) /\ n = Base(p) + i /\ Base(p) \in Nat
    BY <1>3 DEF Base
<1>7. i = 1 \/ i = 2 \/ i = 3 \/ i = 4 \/ i = 5 \/ i = 6
    BY <1>3
<1>8. /\ (SlotAt(n) = "public"        <=> i = 1)
      /\ (SlotAt(n) = "me"            <=> i = 2)
      /\ (SlotAt(n) = "system guard"  <=> i = 3)
      /\ (SlotAt(n) = "system"        <=> i = 4)
      /\ (SlotAt(n) = "company guard" <=> i = 5)
      /\ (SlotAt(n) = "company"       <=> i = 6)
    BY <1>4, <1>5, <1>7
<1>9. /\ (n = Base(p) + 1 <=> i = 1) /\ (n = Base(p) + 2 <=> i = 2)
      /\ (n = Base(p) + 3 <=> i = 3) /\ (n = Base(p) + 4 <=> i = 4)
      /\ (n = Base(p) + 5 <=> i = 5) /\ (n = Base(p) + 6 <=> i = 6)
    BY <1>3, <1>6
<1>10. /\ (SlotAt(n) = "public"        <=> n = Base(p) + 1)
       /\ (SlotAt(n) = "me"            <=> n = Base(p) + 2)
       /\ (SlotAt(n) = "system guard"  <=> n = Base(p) + 3)
       /\ (SlotAt(n) = "system"        <=> n = Base(p) + 4)
       /\ (SlotAt(n) = "company guard" <=> n = Base(p) + 5)
       /\ (SlotAt(n) = "company"       <=> n = Base(p) + 6)
    BY <1>8, <1>9
<1>11. n \in Base(p) + 1 .. Base(p) + 6
    BY <1>3, <1>6
<1> QED
    BY <1>2, <1>3, <1>4, <1>10, <1>11 DEF Prefixes

(***************************************************************************)
(* The inductive invariant                                                 *)
(***************************************************************************)

Typed ==
    /\ request \in RequestRecord
    /\ at \in 1 .. 19
    /\ reply \in Replies \cup {None}

\* What the locals hold, whichever guard wrote them.
LocalsAreTheRequests ==
    /\ claims # None => claims = request.token
    /\ scope # None => scope = ScopeOf(request)

\* The guards of its own registration are behind it.
GuardsPassed ==
    /\ request.endpoint \in SystemEndpoints /\ at > Base(request.prefix) + 3 =>
            claims # None /\ claims.kind = "system"
    /\ request.endpoint \in CompanyEndpoints /\ at > Base(request.prefix) + 5 =>
            scope # None

\* Who is to be served has not gone past its handler.
NotPast ==
    reply = None /\ Suffices(request)
    /\ (request.prefix = 1 \/ request.endpoint \in CompanyEndpoints) =>
        \/ request.endpoint \in PublicEndpoints /\ at <= Base(request.prefix) + 1
        \/ request.endpoint = "me" /\ at <= Base(request.prefix) + 2
        \/ request.endpoint \in SystemEndpoints /\ at <= Base(request.prefix) + 4
        \/ request.endpoint \in CompanyEndpoints /\ at <= Base(request.prefix) + 6

RInv ==
    /\ Typed
    /\ LocalsAreTheRequests
    /\ GuardsPassed
    /\ NotPast
    /\ BehindItsGuards
    /\ ServedWithoutPrefix

\* An endpoint is of one kind.
LEMMA OneKind ==
    /\ PublicEndpoints \cap (SystemEndpoints \cup CompanyEndpoints \cup {"me"}) = {}
    /\ SystemEndpoints \cap (CompanyEndpoints \cup {"me"}) = {}
    /\ "me" \notin CompanyEndpoints
    /\ AdminEndpoints \subseteq CompanyEndpoints
    /\ "elsewhere" \notin PublicEndpoints \cup SystemEndpoints \cup CompanyEndpoints
BY DEF PublicEndpoints, SystemEndpoints, CompanyEndpoints, AdminEndpoints, ScopedEndpoints

\* Whoever brings what an endpoint needs passes the guards before it.
LEMMA SufficientPasses ==
    ASSUME Typed, Suffices(request), ~expired
    PROVE  /\ request.endpoint \in SystemEndpoints => SystemRefusal(request) = None
           /\ request.endpoint \in CompanyEndpoints => CompanyRefusal(request) = None
           /\ request.endpoint = "me" => Authenticated(request)
           /\ request.endpoint \in AdminEndpoints =>
                ScopeOf(request).role \notin CollaboratorRoles
<1>1. BadToken.kind = "bad"
    BY DEF BadToken
<1>2. ASSUME request.endpoint \in SystemEndpoints
      PROVE  request.token # None /\ request.token.kind = "system"
    BY <1>2, OneKind DEF Suffices
<1>3. ASSUME request.endpoint \in CompanyEndpoints
      PROVE  /\ ~request.malformed
             /\ \/ request.token # None /\ request.token.kind = "company"
                \/ request.token = None /\ request.company # None
             /\ request.endpoint \in AdminEndpoints =>
                  ScopeOf(request).role \notin CollaboratorRoles
    BY <1>3, OneKind DEF Suffices
<1>4. request.endpoint = "me" => request.token \notin {None, BadToken}
    BY OneKind DEF Suffices
<1>5. request.endpoint \in SystemEndpoints => SystemRefusal(request) = None
    BY <1>1, <1>2 DEF SystemRefusal, Authenticated
<1>6. request.endpoint \in CompanyEndpoints => CompanyRefusal(request) = None
    BY <1>1, <1>3 DEF CompanyRefusal, Authenticated
<1> QED
    BY <1>3, <1>4, <1>5, <1>6, OneKind DEF Authenticated

\* A request that passes a guard has the session or the scope it asks for.
LEMMA PassingMeans ==
    ASSUME NoneIsNothing, Typed
    PROVE  /\ SystemRefusal(request) = None =>
                request.token # None /\ request.token.kind = "system"
           /\ CompanyRefusal(request) = None =>
                ScopeOf(request) # None
<1>1. /\ "unauthorized" # None /\ "forbidden" # None /\ "bad request" # None
      /\ None \notin ScopeRecord
    BY DEF NoneIsNothing, Replies
<1>2. SystemRefusal(request) = None =>
                request.token # None /\ request.token.kind = "system"
    BY <1>1 DEF SystemRefusal, Authenticated
<1>3. ASSUME CompanyRefusal(request) = None PROVE ScopeOf(request) # None
  <2>1. CASE request.token # None
    <3>1. /\ Authenticated(request)
          /\ request.token.kind = "company"
        BY <1>1, <1>3, <2>1 DEF CompanyRefusal
    <3>2. request.token \in Claims
        BY <3>1 DEF Authenticated, Typed, RequestRecord
    <3>3. request.token.company \in Companies /\ request.token.role \in Roles
        BY <3>1, <3>2 DEF Claims
    <3>4. ScopeOf(request) \in ScopeRecord
        BY <2>1, <3>3 DEF ScopeOf, ScopeRecord
    <3> QED
        BY <1>1, <3>4
  <2>2. CASE request.token = None
    <3>1. ScopeOf(request) \in ScopeRecord
        BY <2>2 DEF ScopeOf, ScopeRecord, Typed, RequestRecord
    <3> QED
        BY <1>1, <3>1
  <2> QED
      BY <2>1, <2>2
<1> QED
    BY <1>2, <1>3

LEMMA InitRouted == NoneIsNothing /\ Init => RInv
<1> SUFFICES ASSUME NoneIsNothing, Init PROVE RInv
    OBVIOUS
<1>1. request.prefix \in 1 .. 3
    BY DEF Init, RequestRecord, Prefixes
<1>2. Base(request.prefix) >= 0 /\ Base(request.prefix) \in Nat
      /\ (request.prefix = 1 => Base(request.prefix) = 0)
    BY <1>1 DEF Base
<1>3. reply = None /\ at = 1 /\ claims = None /\ scope = None
    BY DEF Init
<1>4. None # "handled"
    BY DEF NoneIsNothing, Replies
<1>5. NotPast
  <2>1. Suffices(request) => request.endpoint # "elsewhere"
      BY OneKind DEF Suffices
  <2>2. request.endpoint \in Endpoints
      BY DEF Init, RequestRecord
  <2>3. /\ at <= Base(request.prefix) + 1 /\ at <= Base(request.prefix) + 2
        /\ at <= Base(request.prefix) + 4 /\ at <= Base(request.prefix) + 6
      BY <1>2, <1>3
  <2> QED
      BY <2>1, <2>2, <2>3 DEF NotPast, Endpoints
<1>6. BehindItsGuards /\ ServedWithoutPrefix
    BY <1>3, <1>4 DEF BehindItsGuards, ServedWithoutPrefix, Handled
<1>7. Typed
    BY <1>3 DEF Init, Typed
<1> QED
    BY <1>2, <1>3, <1>5, <1>6, <1>7 DEF RInv, LocalsAreTheRequests, GuardsPassed

\* An answer that is right is all that is left to show of the end.
LEMMA EndsRight ==
    ASSUME NoneIsNothing, RInv, reply = None, NEW with \in Replies, reply' = with,
           UNCHANGED <<request, expired, at, scope>>,
           claims' = claims \/ claims' = request.token,
           claims' # claims => request.endpoint = "me",
           with = "handled" => BehindItsGuards',
           with # "handled" => ServedWithoutPrefix'
    PROVE  RInv'
<1>1. with # None
    BY DEF NoneIsNothing
<1>2. Typed'
    BY DEF RInv, Typed
<1>3. LocalsAreTheRequests'
    BY DEF RInv, LocalsAreTheRequests, ScopeOf
<1>4. GuardsPassed'
    BY OneKind DEF RInv, GuardsPassed
<1>5. NotPast'
    BY <1>1 DEF NotPast
<1>6. BehindItsGuards' /\ ServedWithoutPrefix'
    BY DEF BehindItsGuards, ServedWithoutPrefix, Handled
<1> QED
    BY <1>2, <1>3, <1>4, <1>5, <1>6 DEF RInv

\* Going on to the next entry.
LEMMA GoesOnRight ==
    ASSUME NoneIsNothing, RInv, reply = None, at \in Stack, at' = at + 1,
           UNCHANGED <<request, expired, reply>>,
           LocalsAreTheRequests', GuardsPassed', NotPast'
    PROVE  RInv'
<1>1. at \in 1 .. 18
    BY Layout
<1>2. Typed'
    BY <1>1 DEF RInv, Typed
<1>3. BehindItsGuards' /\ ServedWithoutPrefix'
    BY DEF BehindItsGuards, ServedWithoutPrefix, Handled, NoneIsNothing, Replies
<1> QED
    BY <1>2, <1>3 DEF RInv

\* Where an entry is, in terms of the request's own registration.
LEMMA Entry ==
    ASSUME Typed, at \in Stack
    PROVE  /\ at \in 1 .. 18
           /\ request.prefix \in Prefixes
           /\ at = Base(request.prefix) + 1 =>
                SlotAt(at) = "public" /\ RegistrationAt(at) = request.prefix
           /\ at = Base(request.prefix) + 2 =>
                SlotAt(at) = "me" /\ RegistrationAt(at) = request.prefix
           /\ at = Base(request.prefix) + 3 =>
                SlotAt(at) = "system guard" /\ RegistrationAt(at) = request.prefix
           /\ at = Base(request.prefix) + 4 =>
                SlotAt(at) = "system" /\ RegistrationAt(at) = request.prefix
           /\ at = Base(request.prefix) + 5 =>
                SlotAt(at) = "company guard" /\ RegistrationAt(at) = request.prefix
           /\ at = Base(request.prefix) + 6 =>
                SlotAt(at) = "company" /\ RegistrationAt(at) = request.prefix
<1>1. request.prefix \in Prefixes
    BY DEF Typed, RequestRecord
<1> DEFINE p == RegistrationAt(at)
<1>2. /\ p \in Prefixes /\ at \in 1 .. 18
      /\ (SlotAt(at) = "public"        <=> at = Base(p) + 1)
      /\ (SlotAt(at) = "me"            <=> at = Base(p) + 2)
      /\ (SlotAt(at) = "system guard"  <=> at = Base(p) + 3)
      /\ (SlotAt(at) = "system"        <=> at = Base(p) + 4)
      /\ (SlotAt(at) = "company guard" <=> at = Base(p) + 5)
      /\ (SlotAt(at) = "company"       <=> at = Base(p) + 6)
    BY Layout
<1>3. at \in Base(p) + 1 .. Base(p) + 6
    BY Layout
<1>4. at \in Base(request.prefix) + 1 .. Base(request.prefix) + 6 => p = request.prefix
  <2>1. \A m \in 1 .. 18, i, j \in 1 .. 3 :
            m \in 6 * (i - 1) + 1 .. 6 * (i - 1) + 6
            /\ m \in 6 * (j - 1) + 1 .. 6 * (j - 1) + 6 => i = j
      OBVIOUS
  <2> HIDE DEF p
  <2>2. p \in 1 .. 3 /\ request.prefix \in 1 .. 3 /\ at \in 1 .. 18
      BY <1>1, <1>2 DEF Prefixes
  <2> QED
      BY <1>3, <2>1, <2>2 DEF Base
<1>5. Base(request.prefix) \in Nat
    BY <1>1 DEF Base, Prefixes
<1> HIDE DEF p
<1>6. ASSUME at = Base(request.prefix) + 1 \/ at = Base(request.prefix) + 2
                \/ at = Base(request.prefix) + 3 \/ at = Base(request.prefix) + 4
                \/ at = Base(request.prefix) + 5 \/ at = Base(request.prefix) + 6
      PROVE  p = request.prefix
    BY <1>4, <1>5, <1>6
<1> QED
    BY <1>1, <1>2, <1>6 DEF p

\* Which requests an entry is for.
LEMMA MatchesAt ==
    ASSUME NEW n, NEW q
    PROVE  /\ SlotAt(n) = "public" =>
                (Matches(n, q) <=> RegistrationAt(n) = q.prefix
                                   /\ q.endpoint \in PublicEndpoints)
           /\ SlotAt(n) = "me" =>
                (Matches(n, q) <=> RegistrationAt(n) = q.prefix /\ q.endpoint = "me")
           /\ SlotAt(n) \in {"system guard", "system"} =>
                (Matches(n, q) <=> RegistrationAt(n) = q.prefix
                                   /\ q.endpoint \in SystemEndpoints)
           /\ SlotAt(n) = "company guard" =>
                (Matches(n, q) <=> RegistrationAt(n) <= q.prefix)
           /\ SlotAt(n) = "company" =>
                (Matches(n, q) <=> RegistrationAt(n) = q.prefix
                                   /\ q.endpoint \in CompanyEndpoints)
BY DEF Matches

\* An entry that is not for the request is passed by.
LEMMA SkipKeepsRight ==
    ASSUME NoneIsNothing, RInv, Skip
    PROVE  RInv'
<1>1. /\ reply = None /\ at \in Stack /\ ~Matches(at, request) /\ at' = at + 1
      /\ UNCHANGED <<request, expired, claims, scope, reply>>
    BY DEF Skip
<1> DEFINE b == Base(request.prefix)
<1>2. /\ at \in 1 .. 18 /\ request.prefix \in Prefixes
      /\ at = b + 1 => SlotAt(at) = "public" /\ RegistrationAt(at) = request.prefix
      /\ at = b + 2 => SlotAt(at) = "me" /\ RegistrationAt(at) = request.prefix
      /\ at = b + 3 => SlotAt(at) = "system guard" /\ RegistrationAt(at) = request.prefix
      /\ at = b + 4 => SlotAt(at) = "system" /\ RegistrationAt(at) = request.prefix
      /\ at = b + 5 => SlotAt(at) = "company guard" /\ RegistrationAt(at) = request.prefix
      /\ at = b + 6 => SlotAt(at) = "company" /\ RegistrationAt(at) = request.prefix
    BY <1>1, Entry DEF RInv
<1>3. b \in Nat /\ request.prefix <= request.prefix /\ at \in Nat
  <2>1. request.prefix \in 1 .. 3 /\ at \in 1 .. 18
      BY <1>2 DEF Prefixes
  <2> QED
      BY <2>1 DEF Base
<1> HIDE DEF b
<1>4. LocalsAreTheRequests'
    BY <1>1 DEF RInv, LocalsAreTheRequests, ScopeOf
<1>5. GuardsPassed'
  <2>1. request.endpoint \in SystemEndpoints => at # b + 3
      BY <1>1, <1>2, MatchesAt
  <2>2. request.endpoint \in CompanyEndpoints => at # b + 5
      BY <1>1, <1>2, <1>3, MatchesAt
  <2>3. /\ request.endpoint \in SystemEndpoints /\ at > b + 3 =>
                claims # None /\ claims.kind = "system"
        /\ request.endpoint \in CompanyEndpoints /\ at > b + 5 => scope # None
      BY DEF RInv, GuardsPassed, b
  <2>4. /\ request.endpoint \in SystemEndpoints /\ at + 1 > b + 3 =>
                claims # None /\ claims.kind = "system"
        /\ request.endpoint \in CompanyEndpoints /\ at + 1 > b + 5 => scope # None
      BY <2>1, <2>2, <2>3, <1>3
  <2> QED
      BY <2>4, <1>1 DEF GuardsPassed, b
<1>6. NotPast'
  <2>1. /\ request.endpoint \in PublicEndpoints => at # b + 1
        /\ request.endpoint = "me" => at # b + 2
        /\ request.endpoint \in SystemEndpoints => at # b + 4
        /\ request.endpoint \in CompanyEndpoints => at # b + 6
      BY <1>1, <1>2, MatchesAt
  <2> SUFFICES ASSUME Suffices(request),
                      request.prefix = 1 \/ request.endpoint \in CompanyEndpoints
               PROVE  \/ request.endpoint \in PublicEndpoints /\ at + 1 <= b + 1
                      \/ request.endpoint = "me" /\ at + 1 <= b + 2
                      \/ request.endpoint \in SystemEndpoints /\ at + 1 <= b + 4
                      \/ request.endpoint \in CompanyEndpoints /\ at + 1 <= b + 6
      BY <1>1 DEF NotPast, Suffices, ScopeOf, b
  <2>2. \/ request.endpoint \in PublicEndpoints /\ at <= b + 1
        \/ request.endpoint = "me" /\ at <= b + 2
        \/ request.endpoint \in SystemEndpoints /\ at <= b + 4
        \/ request.endpoint \in CompanyEndpoints /\ at <= b + 6
      BY <1>1 DEF RInv, NotPast, b
  <2> QED
      BY <2>1, <2>2, <1>3
<1> QED
    BY <1>1, <1>4, <1>5, <1>6, GoesOnRight

\* The stack's end is no place for whoever is to be served.
LEMMA NotFoundRight ==
    ASSUME NoneIsNothing, RInv, NotFound
    PROVE  RInv'
<1>1. /\ reply = None /\ at \notin Stack /\ reply' = "not found"
      /\ UNCHANGED <<request, expired, at, claims, scope>>
    BY DEF NotFound
<1>2. at = 19 /\ request.prefix \in 1 .. 3
  <2>1. Len(Slots) = 6
      BY DEF Slots
  <2>2. 3 * Len(Slots) = 18
      BY <2>1
  <2>3. at \in 1 .. 19 /\ at \notin 1 .. 18
      BY <1>1, <2>2 DEF RInv, Typed, Stack
  <2> QED
      BY <2>3 DEF RInv, Typed, RequestRecord, Prefixes
<1>3. ServedWithoutPrefix'
  <2> SUFFICES ASSUME Suffices(request),
                      request.prefix = 1 \/ request.endpoint \in CompanyEndpoints
               PROVE  FALSE
      BY <1>1 DEF ServedWithoutPrefix, Suffices, ScopeOf
  <2>1. Base(request.prefix) \in Nat
      BY <1>2 DEF Base
  <2>2. \/ at <= Base(request.prefix) + 1 \/ at <= Base(request.prefix) + 2
        \/ at <= Base(request.prefix) + 4 \/ at <= Base(request.prefix) + 6
      BY <1>1 DEF RInv, NotPast
  <2>3. at <= Base(request.prefix) + 6
      BY <2>1, <2>2, <1>2
  <2> QED
      BY <2>3, <1>2 DEF Base
<1> QED
    BY <1>1, <1>3, EndsRight DEF Replies

\* A guard that answers answers whoever is not to be served, or an old token.
LEMMA RefusalRight ==
    ASSUME NoneIsNothing, RInv, reply = None, NEW with \in Replies, with # "handled",
           reply' = with, UNCHANGED <<request, expired, at, claims, scope>>,
           ~expired /\ Suffices(request)
             /\ (request.prefix = 1 \/ request.endpoint \in CompanyEndpoints) => FALSE
    PROVE  RInv'
<1>1. ServedWithoutPrefix'
    BY DEF ServedWithoutPrefix, Suffices, ScopeOf
<1> QED
    BY <1>1, EndsRight

\* RequireSystemAuth.
LEMMA SystemGuardRight ==
    ASSUME NoneIsNothing, RInv, SystemGuard
    PROVE  RInv'
<1> DEFINE b == Base(request.prefix)
<1>1. /\ reply = None /\ at \in Stack /\ Matches(at, request)
      /\ SlotAt(at) = "system guard"
    BY DEF SystemGuard, Meets
<1>2. /\ at \in 1 .. 18 /\ request.prefix \in 1 .. 3
      /\ RegistrationAt(at) = request.prefix
      /\ request.endpoint \in SystemEndpoints
      /\ at = b + 3
  <2>1. RegistrationAt(at) = request.prefix /\ request.endpoint \in SystemEndpoints
      BY <1>1, MatchesAt
  <2>2. at = Base(RegistrationAt(at)) + 3 /\ at \in 1 .. 18
      BY <1>1, Layout
  <2> QED
      BY <2>1, <2>2 DEF RInv, Typed, RequestRecord, Prefixes
<1>3. CASE SystemRefusal(request) # None /\ Refuse(SystemRefusal(request))
  <2>1. SystemRefusal(request) \in {"unauthorized", "forbidden"}
      BY <1>3 DEF SystemRefusal, Authenticated
  <2>2. ~(~expired /\ Suffices(request))
      BY <1>2, <1>3, SufficientPasses DEF RInv
  <2> QED
      BY <1>1, <1>3, <2>1, <2>2, RefusalRight DEF Refuse, Replies
<1>4. CASE /\ SystemRefusal(request) = None
           /\ claims' = request.token /\ at' = at + 1
           /\ UNCHANGED <<request, expired, scope, reply>>
  <2>1. request.token # None /\ request.token.kind = "system"
      BY <1>4, PassingMeans DEF RInv
  <2>2. LocalsAreTheRequests'
      BY <1>4 DEF RInv, LocalsAreTheRequests, ScopeOf
  <2>3. request.endpoint \notin CompanyEndpoints
      BY <1>2, OneKind
  <2>4. GuardsPassed'
      BY <2>1, <2>3, <1>4 DEF GuardsPassed
  <2>5. NotPast'
    <3>1. b \in Nat /\ at + 1 <= b + 4
        BY <1>2 DEF Base
    <3> QED
        BY <3>1, <1>2, <1>4 DEF NotPast
  <2> QED
      BY <1>1, <1>4, <2>2, <2>4, <2>5, GoesOnRight
<1> QED
    BY <1>3, <1>4 DEF SystemGuard

\* RequireCompanyContext, of this registration or one before it.
LEMMA CompanyGuardRight ==
    ASSUME NoneIsNothing, RInv, CompanyGuard
    PROVE  RInv'
<1> DEFINE b == Base(request.prefix)
           p == RegistrationAt(at)
<1>1. /\ reply = None /\ at \in Stack /\ Matches(at, request)
      /\ SlotAt(at) = "company guard"
    BY DEF CompanyGuard, Meets
<1>2. /\ at \in 1 .. 18 /\ request.prefix \in 1 .. 3
      /\ p \in 1 .. 3 /\ p <= request.prefix /\ at = Base(p) + 5
  <2>1. p <= request.prefix
      BY <1>1, MatchesAt
  <2>2. at = Base(p) + 5 /\ at \in 1 .. 18 /\ p \in 1 .. 3
      BY <1>1, Layout DEF Prefixes
  <2> QED
      BY <2>1, <2>2 DEF RInv, Typed, RequestRecord, Prefixes
<1> HIDE DEF p
<1>3. /\ b \in Nat /\ at <= b + 5
      /\ at = b + 5 \/ at <= b
      /\ request.prefix = 1 => at = b + 5
    BY <1>2 DEF Base
<1>4. reply = None /\ Suffices(request)
      /\ (request.prefix = 1 \/ request.endpoint \in CompanyEndpoints) =>
        request.endpoint \in CompanyEndpoints
  <2> SUFFICES ASSUME Suffices(request), request.prefix = 1,
                      request.endpoint \notin CompanyEndpoints
               PROVE  FALSE
      OBVIOUS
  <2>1. \/ at <= b + 1 \/ at <= b + 2 \/ at <= b + 4
      BY <1>1 DEF RInv, NotPast
  <2> HIDE DEF b
  <2> QED
      BY <2>1, <1>2, <1>3
<1>5. CASE CompanyRefusal(request) # None /\ Refuse(CompanyRefusal(request))
  <2>1. CompanyRefusal(request) \in {"unauthorized", "forbidden", "bad request"}
      BY <1>5 DEF CompanyRefusal, Authenticated
  <2>2. ~(/\ ~expired /\ Suffices(request)
          /\ request.prefix = 1 \/ request.endpoint \in CompanyEndpoints)
      BY <1>1, <1>4, <1>5, SufficientPasses DEF RInv
  <2> QED
      BY <1>1, <1>5, <2>1, <2>2, RefusalRight DEF Refuse, Replies
<1>6. CASE /\ CompanyRefusal(request) = None
           /\ scope' = ScopeOf(request) /\ at' = at + 1
           /\ UNCHANGED <<request, expired, claims, reply>>
  <2>1. ScopeOf(request) # None
      BY <1>6, PassingMeans DEF RInv
  <2>2. LocalsAreTheRequests'
      BY <1>6 DEF RInv, LocalsAreTheRequests, ScopeOf
  <2>3. request.endpoint \in SystemEndpoints /\ at + 1 > b + 3 =>
            claims # None /\ claims.kind = "system"
    <3> SUFFICES ASSUME request.endpoint \in SystemEndpoints, at + 1 > b + 3
                 PROVE  claims # None /\ claims.kind = "system"
        OBVIOUS
    <3> HIDE DEF b
    <3>1. at > b + 3
        BY <1>2, <1>3
    <3> QED
        BY <3>1 DEF RInv, GuardsPassed, b
  <2>4. GuardsPassed'
      BY <2>1, <2>3, <1>6 DEF GuardsPassed
  <2>5. NotPast'
    <3>1. at + 1 <= b + 6
      <4> HIDE DEF b
      <4> QED BY <1>2, <1>3
    <3> QED
        BY <3>1, <1>1, <1>4, <1>6 DEF NotPast, Suffices, ScopeOf
  <2> QED
      BY <1>1, <1>6, <2>2, <2>4, <2>5, GoesOnRight
<1> QED
    BY <1>5, <1>6 DEF CompanyGuard

\* The handler of /auth/me.
LEMMA MeRight ==
    ASSUME NoneIsNothing, RInv, Me
    PROVE  RInv'
<1>1. reply = None /\ at \in Stack /\ Matches(at, request) /\ SlotAt(at) = "me"
    BY DEF Me, Meets
<1>2. request.endpoint = "me"
    BY <1>1, MatchesAt
<1>3. CASE ~Authenticated(request) /\ Refuse("unauthorized")
  <2>1. ~(~expired /\ Suffices(request))
      BY <1>2, <1>3, SufficientPasses DEF RInv
  <2> QED
      BY <1>1, <1>3, <2>1, RefusalRight DEF Refuse, Replies
<1>4. CASE /\ claims' = request.token /\ reply' = "handled"
           /\ UNCHANGED <<request, expired, at, scope>>
  <2>1. BehindItsGuards'
      BY <1>2, <1>4, OneKind DEF BehindItsGuards
  <2> QED
      BY <1>1, <1>2, <1>4, <2>1, EndsRight DEF Replies
<1> QED
    BY <1>3, <1>4 DEF Me

\* The handlers behind no guard, and those of the system.
LEMMA HandleRight ==
    ASSUME NoneIsNothing, RInv, Handle
    PROVE  RInv'
<1>1. /\ reply = None /\ at \in Stack /\ Matches(at, request)
      /\ SlotAt(at) \in {"public", "system"}
      /\ reply' = "handled"
      /\ UNCHANGED <<request, expired, at, claims, scope>>
    BY DEF Handle, Meets
<1>2. BehindItsGuards'
  <2>1. CASE SlotAt(at) = "public"
    <3>1. request.endpoint \in PublicEndpoints
        BY <2>1, <1>1, MatchesAt
    <3> QED
        BY <3>1, <1>1, OneKind DEF BehindItsGuards
  <2>2. CASE SlotAt(at) = "system"
    <3>1. request.endpoint \in SystemEndpoints /\ RegistrationAt(at) = request.prefix
        BY <2>2, <1>1, MatchesAt
    <3>2. at = Base(request.prefix) + 4 /\ request.prefix \in 1 .. 3
        BY <3>1, <2>2, <1>1, Layout DEF Prefixes
    <3>3. at > Base(request.prefix) + 3
        BY <3>2 DEF Base
    <3>4. claims # None /\ claims.kind = "system"
        BY <3>1, <3>3 DEF RInv, GuardsPassed
    <3> QED
        BY <3>1, <3>4, <1>1, OneKind DEF BehindItsGuards
  <2> QED
      BY <1>1, <2>1, <2>2
<1> QED
    BY <1>1, <1>2, EndsRight DEF Replies

\* RequireAdmin and the handlers of the company group.
LEMMA HandleScopedRight ==
    ASSUME NoneIsNothing, RInv, HandleScoped
    PROVE  RInv'
<1>1. /\ reply = None /\ at \in Stack /\ Matches(at, request)
      /\ SlotAt(at) = "company"
      /\ reply' = IF request.endpoint \in AdminEndpoints /\ scope.role \in CollaboratorRoles
                  THEN "forbidden" ELSE "handled"
      /\ UNCHANGED <<request, expired, at, claims, scope>>
    BY DEF HandleScoped, Meets
<1>2. request.endpoint \in CompanyEndpoints /\ RegistrationAt(at) = request.prefix
    BY <1>1, MatchesAt
<1>3. at = Base(request.prefix) + 6 /\ request.prefix \in 1 .. 3
    BY <1>1, <1>2, Layout DEF Prefixes
<1>4. at > Base(request.prefix) + 5
    BY <1>3 DEF Base
<1>5. scope # None /\ scope = ScopeOf(request)
    BY <1>2, <1>4 DEF RInv, GuardsPassed, LocalsAreTheRequests
<1>6. CASE request.endpoint \in AdminEndpoints /\ scope.role \in CollaboratorRoles
  <2>1. ~(~expired /\ Suffices(request))
      BY <1>5, <1>6, SufficientPasses DEF RInv
  <2> QED
      BY <1>1, <1>6, <2>1, RefusalRight DEF Replies
<1>7. CASE ~(request.endpoint \in AdminEndpoints /\ scope.role \in CollaboratorRoles)
  <2>1. BehindItsGuards'
      BY <1>1, <1>2, <1>5, <1>7, OneKind DEF BehindItsGuards, CollaboratorRoles
  <2> QED
      BY <1>1, <1>7, <2>1, EndsRight DEF Replies
<1> QED
    BY <1>6, <1>7

\* A token that expires changes what is asked of the guards to come only.
LEMMA ExpireRight ==
    ASSUME NoneIsNothing, RInv, Expire
    PROVE  RInv'
<1>1. /\ reply = None /\ expired' = TRUE
      /\ UNCHANGED <<request, at, claims, scope, reply>>
    BY DEF Expire
<1>2. Typed' /\ GuardsPassed'
    BY <1>1 DEF RInv, Typed, GuardsPassed
<1>3. LocalsAreTheRequests' /\ NotPast'
    BY <1>1 DEF RInv, LocalsAreTheRequests, NotPast, Suffices, ScopeOf
<1>4. BehindItsGuards' /\ ServedWithoutPrefix'
    BY <1>1 DEF RInv, BehindItsGuards, ServedWithoutPrefix, Handled
<1> QED
    BY <1>2, <1>3, <1>4 DEF RInv

LEMMA NextRouted == NoneIsNothing /\ RInv /\ [Next]_vars => RInv'
<1> SUFFICES ASSUME NoneIsNothing, RInv, [Next]_vars PROVE RInv'
    OBVIOUS
<1>1. CASE UNCHANGED vars
    BY <1>1 DEF vars, RInv, Typed, LocalsAreTheRequests, GuardsPassed, NotPast,
                BehindItsGuards, ServedWithoutPrefix, Handled, Suffices, ScopeOf
<1> QED
    BY <1>1, ExpireRight, SkipKeepsRight, NotFoundRight, SystemGuardRight,
       CompanyGuardRight, MeRight, HandleRight, HandleScopedRight
    DEF Next

LEMMA IdentityFollows == RInv => IdentityIsTheRequests
BY DEF RInv, LocalsAreTheRequests, IdentityIsTheRequests, ScopeOf
=============================================================================
