--------------------------- MODULE DashboardReads ---------------------------
(***************************************************************************)
(* What dashboards show to whom.  A collaborator sees the dashboards they  *)
(* are linked to through ads, unless an administrator blocked them there;  *)
(* everybody else in the company sees all of them.  A request first works  *)
(* out which dashboards it is about, then looks in Redis for the answer to *)
(* an earlier one, and computes it from the stored summaries otherwise.    *)
(* Requests, administrators, the summary job and the clock interleave.     *)
(***************************************************************************)
EXTENDS Naturals

CONSTANTS
    Collaborators,
    Staff,           \* everybody else, who share their keys in Redis
    Dashboards,      \* those of the company
    Named,           \* those a request may name
    Requests,        \* requests that may be under way at once
    Kinds,           \* "summary" and "history"
    TTL,             \* TTL[k]: ticks an answer of that kind may be kept
    MaxVersions,     \* bound on the stored summaries of a dashboard
    AllOfThem,       \* a request that names no dashboard
    NoRow, NoEntry,  \* no summary stored, nothing in Redis
    Unstored         \* what Utmify itself answers: its figures or an error

Readers == Collaborators \cup {Staff}
Wants == Named \cup {AllOfThem}
Keys == [kind : Kinds, scope : Readers, want : Wants]

ASSUME ReadsAssumption ==
    /\ Named \subseteq Dashboards
    /\ Kinds \subseteq {"summary", "history"}
    /\ TTL \in [Kinds -> Nat \ {0}]
    /\ MaxVersions \in Nat \ {0}
    /\ Staff \notin Collaborators /\ AllOfThem \notin Dashboards
    /\ NoRow \notin Nat /\ Unstored \notin Nat /\ NoRow # Unstored

VARIABLES
    linked,    \* linked[u]: dashboards whose niche has an ad of u
    blocked,   \* overrides with allowed = false: <<collaborator, dashboard>>
    stored,    \* stored[d]: version of the row in dashboard_summary_snapshots
    cache,     \* cache[k]: an answer, its age and how it came about
    req        \* req[r]: a request under way

vars == <<linked, blocked, stored, cache, req>>

Nothing == [d \in {} |-> d]

\* The dashboards u may see, given the links l and the blocks b.
Visible(u, l, b) ==
    IF u = Staff THEN Dashboards
                 ELSE {d \in l[u] : <<u, d>> \notin b}

Accessible(u) == Visible(u, linked, blocked)

\* had[u] are the dashboards u could see at some moment since a request
\* began; it is a history that no guard reads.
Idle == [pc |-> "idle", reader |-> Staff, kind |-> "", want |-> AllOfThem,
         todo |-> {}, answer |-> Nothing, had |-> [u \in Readers |-> {}],
         since |-> [u \in Readers |-> {}]]

\* Faulty variant: one key for the whole company.
KeyOfCompany(q) == [kind |-> q.kind, scope |-> Staff, want |-> q.want]

\* cacheAccessScope: the collaborator, or the role everybody else has.
KeyOf(q) == [kind |-> q.kind, scope |-> q.reader, want |-> q.want]

Init ==
    /\ linked = [u \in Collaborators |-> {}]
    /\ blocked = {}
    /\ stored = [d \in Dashboards |-> NoRow]
    /\ cache = [k \in Keys |-> NoEntry]
    /\ req = [r \in Requests |-> Idle]

(***************************************************************************)
(* Requests                                                                *)
(***************************************************************************)

\* filterDashboardsByID
Selected(u, w) ==
    IF w = AllOfThem THEN Accessible(u) ELSE Accessible(u) \cap {w}

\* Faulty variant: Redis is asked before the dashboards are loaded.
BeginAskingRedisFirst(r, u, k, w) ==
    /\ req[r].pc = "idle"
    /\ req' = [req EXCEPT ![r] =
                [pc |-> IF cache[[kind |-> k, scope |-> u, want |-> w]] # NoEntry
                           \/ Selected(u, w) # {}
                        THEN "looking" ELSE "answered",
                 reader |-> u, kind |-> k, want |-> w,
                 todo |-> Selected(u, w), answer |-> Nothing,
                 had |-> [v \in Readers |-> Accessible(v)],
                 since |-> [v \in Readers |-> {}]]]
    /\ UNCHANGED <<linked, blocked, stored, cache>>

\* loadAccessibleDashboards.  Without a dashboard there is nothing to answer.
Begin(r, u, k, w) ==
    /\ req[r].pc = "idle"
    /\ req' = [req EXCEPT ![r] =
                [pc |-> IF Selected(u, w) = {} THEN "answered" ELSE "looking",
                 reader |-> u, kind |-> k, want |-> w,
                 todo |-> Selected(u, w), answer |-> Nothing,
                 had |-> [v \in Readers |-> Accessible(v)],
                 since |-> [v \in Readers |-> {}]]]
    /\ UNCHANGED <<linked, blocked, stored, cache>>

\* A request goes on to pc, with the dashboards still to read and the answer.
Moves(r, pc, todo, answer, since) ==
    req' = [req EXCEPT ![r] =
        [pc |-> pc, reader |-> req[r].reader, kind |-> req[r].kind, want |-> req[r].want,
         todo |-> todo, answer |-> answer, had |-> req[r].had, since |-> since]]

Entry(answer, age, had) == [answer |-> answer, age |-> age, had |-> had]

\* Faulty variant: a hit makes the entry young again.
HitRefreshing(r) ==
    LET k == KeyOf(req[r]) IN
    /\ req[r].pc = "looking"
    /\ cache[k] # NoEntry
    /\ Moves(r, "answered", {}, cache[k].answer, cache[k].had)
    /\ cache' = [cache EXCEPT ![k] = Entry(cache[k].answer, 0, cache[k].had)]
    /\ UNCHANGED <<linked, blocked, stored>>

\* The answer is in Redis.
Hit(r) ==
    LET k == KeyOf(req[r]) IN
    /\ req[r].pc = "looking"
    /\ cache[k] # NoEntry
    /\ Moves(r, "answered", {}, cache[k].answer, cache[k].had)
    /\ UNCHANGED <<linked, blocked, stored, cache>>

\* It is not, or Redis answers with an error, or there is no Redis.
Miss(r) ==
    /\ req[r].pc = "looking"
    /\ Moves(r, "reading", req[r].todo, Nothing, req[r].since)
    /\ UNCHANGED <<linked, blocked, stored, cache>>

\* resolveInputsFromDB, one dashboard after the other; Utmify is asked when
\* there is no row or the query of the row fails.
ReadRow(r, d) ==
    /\ req[r].pc = "reading" /\ req[r].kind = "summary"
    /\ d \in req[r].todo
    /\ \E figures \in {Unstored} \cup ({stored[d]} \ {NoRow}) :
            Moves(r, "reading", req[r].todo \ {d},
                  [e \in DOMAIN req[r].answer \cup {d} |->
                        IF e = d THEN figures ELSE req[r].answer[e]],
                  req[r].since)
    /\ UNCHANGED <<linked, blocked, stored, cache>>

\* loadHistoryPoints: one query, which knows only what is stored.
ReadPoints(r) ==
    /\ req[r].pc = "reading" /\ req[r].kind = "history"
    /\ req[r].todo # {}
    /\ Moves(r, "reading", {},
             [d \in {e \in req[r].todo : stored[e] # NoRow} |-> stored[d]],
             req[r].since)
    /\ UNCHANGED <<linked, blocked, stored, cache>>

\* The query fails and so does the request.
PointsFail(r) ==
    /\ req[r].pc = "reading" /\ req[r].kind = "history"
    /\ req[r].todo # {}
    /\ req' = [req EXCEPT ![r] = Idle]
    /\ UNCHANGED <<linked, blocked, stored, cache>>

\* The answer, which Redis keeps unless it fails.
Answer(r) ==
    /\ req[r].pc = "reading" /\ req[r].todo = {}
    /\ Moves(r, "answered", {}, req[r].answer, req[r].had)
    /\ cache' \in {cache, [cache EXCEPT ![KeyOf(req[r])] =
                                Entry(req[r].answer, 0, req[r].had)]}
    /\ UNCHANGED <<linked, blocked, stored>>

Done(r) ==
    /\ req[r].pc = "answered"
    /\ req' = [req EXCEPT ![r] = Idle]
    /\ UNCHANGED <<linked, blocked, stored, cache>>

(***************************************************************************)
(* The others                                                              *)
(***************************************************************************)

\* The histories see what becomes visible.
WithSeen(h, l, b) == [u \in Readers |-> h[u] \cup Visible(u, l, b)]

Noted(l, b) ==
    /\ cache' = [k \in Keys |->
                    IF cache[k] = NoEntry THEN NoEntry
                    ELSE Entry(cache[k].answer, cache[k].age, WithSeen(cache[k].had, l, b))]
    /\ req' = [r \in Requests |->
                    IF req[r].pc \in {"idle", "answered"} THEN req[r]
                    ELSE [pc |-> req[r].pc, reader |-> req[r].reader,
                          kind |-> req[r].kind, want |-> req[r].want,
                          todo |-> req[r].todo, answer |-> req[r].answer,
                          had |-> WithSeen(req[r].had, l, b), since |-> req[r].since]]

\* SetDashboardAccess with allowed = false, and with allowed = true.
Block(u, d) ==
    /\ blocked' = blocked \cup {<<u, d>>}
    /\ UNCHANGED <<linked, stored, cache, req>>

Allow(u, d) ==
    /\ blocked' = blocked \ {<<u, d>>}
    /\ Noted(linked, blocked')
    /\ UNCHANGED <<linked, stored>>

\* A sync or a backfill links u to an ad of the dashboard; links are never
\* deleted.
Link(u, d) ==
    /\ linked' = [linked EXCEPT ![u] = @ \cup {d}]
    /\ Noted(linked', blocked)
    /\ UNCHANGED <<blocked, stored>>

\* The summary job stores newer figures.
StoreSummary(d) ==
    /\ stored[d] # MaxVersions
    /\ stored' = [stored EXCEPT ![d] = IF @ = NoRow THEN 1 ELSE @ + 1]
    /\ UNCHANGED <<linked, blocked, cache, req>>

\* Faulty variant: an entry is dropped one tick late.
TickLate ==
    /\ cache' = [k \in Keys |->
                    IF cache[k] = NoEntry \/ cache[k].age + 1 > TTL[k.kind] THEN NoEntry
                    ELSE Entry(cache[k].answer, cache[k].age + 1, cache[k].had)]
    /\ UNCHANGED <<linked, blocked, stored, req>>

\* Faulty variant: entries without a time to live.
TickForgetsNothing ==
    UNCHANGED vars

\* Time passes, and Redis drops what is too old.
Tick ==
    /\ cache' = [k \in Keys |->
                    IF cache[k] = NoEntry \/ cache[k].age + 1 >= TTL[k.kind] THEN NoEntry
                    ELSE Entry(cache[k].answer, cache[k].age + 1, cache[k].had)]
    /\ UNCHANGED <<linked, blocked, stored, req>>

(***************************************************************************)
(* Specification                                                           *)
(***************************************************************************)

Serve(r) ==
    \/ Hit(r)
    \/ Miss(r)
    \/ \E d \in Dashboards : ReadRow(r, d)
    \/ ReadPoints(r)
    \/ PointsFail(r)
    \/ Answer(r)
    \/ Done(r)

Next ==
    \/ \E r \in Requests, u \in Readers, k \in Kinds, w \in Wants : Begin(r, u, k, w)
    \/ \E r \in Requests : Serve(r)
    \/ \E u \in Collaborators, d \in Dashboards :
            Block(u, d) \/ Allow(u, d) \/ Link(u, d)
    \/ \E d \in Dashboards : StoreSummary(d)
    \/ Tick

Spec == Init /\ [][Next]_vars

\* A request under way is served, and time passes.
Fairness == WF_vars(Tick) /\ \A r \in Requests : WF_vars(Serve(r))

FairSpec == Spec /\ Fairness

(***************************************************************************)
(* Properties                                                              *)
(***************************************************************************)

Figures == 1 .. MaxVersions \cup {Unstored}
Answers == UNION {[D -> Figures] : D \in SUBSET Dashboards}
Sights == [Readers -> SUBSET Dashboards]

EntryRecord == [answer : Answers, age : Nat, had : Sights]

RequestRecord ==
    [pc : {"idle", "looking", "reading", "answered"}, reader : Readers,
     kind : Kinds \cup {""}, want : Wants, todo : SUBSET Dashboards,
     answer : Answers, had : Sights, since : Sights]

\* Every variable has its type, and Redis keeps nothing beyond its time.
TypeOK ==
    /\ linked \in [Collaborators -> SUBSET Dashboards]
    /\ blocked \subseteq Collaborators \X Dashboards
    /\ stored \in [Dashboards -> 1 .. MaxVersions \cup {NoRow}]
    /\ cache \in [Keys -> EntryRecord \cup {NoEntry}]
    /\ \A k \in Keys : cache[k] # NoEntry => cache[k].age < TTL[k.kind]
    /\ req \in [Requests -> RequestRecord]

Shown(r) == IF req[r].pc = "answered" THEN DOMAIN req[r].answer ELSE {}

\* Whoever's request filled Redis, an answer shows only dashboards its own
\* reader could see at some moment since that request began.
OwnScope == \A r \in Requests : Shown(r) \subseteq req[r].since[req[r].reader]

\* A request that names a dashboard shows it only if the reader could see it
\* during this very request: no answer in Redis outlives a block here.
CheckedEachTime ==
    \A r \in Requests :
        req[r].want # AllOfThem => Shown(r) \subseteq req[r].had[req[r].reader]

\* A block holds from the next request on.
BlockHolds == \A r \in Requests : Shown(r) \subseteq req[r].had[req[r].reader]

\* A block takes effect at last, on every request and however often the
\* collaborator asks.
BlockTakesEffect ==
    \A u \in Collaborators, d \in Dashboards :
        <>[](<<u, d>> \in blocked)
            => <>[](\A r \in Requests : req[r].reader = u => d \notin Shown(r))

\* Once no newer figures are stored, answers show those stored last, or what
\* Utmify says itself, whatever Redis held meanwhile.
StoredIsShown ==
    <>[](\A r \in Requests : \A d \in Shown(r) :
            req[r].answer[d] \in {stored[d], Unstored})
=============================================================================
