------------------------------ MODULE AdObjects ------------------------------
(***************************************************************************)
(* The ad objects of a day: the job of the scheduler that stores them, and *)
(* the handler that shows them.                                            *)
(*                                                                         *)
(* A run goes through the levels in order.  At each level every dashboard  *)
(* with a profile has a goroutine that takes one of a few slots, fetches   *)
(* the objects, stores them in PostgreSQL and then in Redis; a goroutine   *)
(* that has nothing says nothing, and the level is over when all of them   *)
(* are.  A request reads PostgreSQL, else Redis, else asks Utmify, one     *)
(* dashboard after the other, while the job goes on.                       *)
(***************************************************************************)
EXTENDS Naturals, FiniteSets, SequencesExt

CONSTANTS
    Dashboards,
    Profiled,     \* those with MetaProfiles
    Levels,       \* adLevels, a sequence
    Slots,        \* maxConcurrentFetches
    Batches,      \* what Utmify lists: at first Batches[1], later Batches[2] ...
    Blank,        \* the id of an object that has none
    None,         \* no row, no key
    MaxFailures   \* bound: calls and statements that fail, and time limits

VARIABLES
    run,       \* the level of the run that is under way, 0 when none is
    expired,   \* its context is done
    pc, got,   \* pc[d], got[d]: where the goroutine of d is, what it fetched
    rows,      \* ad_object_snapshots, by dashboard and level
    redis,     \* the keys ads:<dashboard>:<level>:<date>
    batch,     \* which of the batches Utmify lists
    failures,  \* bounded counter
    request    \* the request that is being served

jobVars == <<run, expired, pc, got>>
vars == <<run, expired, pc, got, rows, redis, batch, failures, request>>

Snapshots == Dashboards \X (1 .. Len(Levels))

\* Objects and the batch they are from.
Listed(n, objects) == [batch |-> n, objects |-> objects]

NoRequest == [pc |-> "none", level |-> 0, todo |-> {}, at |-> None, shown |-> {},
              known |-> [d \in Dashboards |-> 0], excused |-> {}]

BatchOf(entry) == IF entry = None THEN 0 ELSE entry.batch

Init ==
    /\ run = 0 /\ expired = FALSE
    /\ pc = [d \in Dashboards |-> "none"]
    /\ got = [d \in Dashboards |-> None]
    /\ rows = [k \in Snapshots |-> None]
    /\ redis = [k \in Snapshots |-> None]
    /\ batch = 1 /\ failures = 0
    /\ request = NoRequest

Counted ==
    /\ failures < MaxFailures
    /\ failures' = failures + 1

(***************************************************************************)
(* syncAdObjects                                                           *)
(***************************************************************************)

Spawned == [d \in Dashboards |-> IF d \in Profiled THEN "queued" ELSE "none"]

\* GetDashboards fails: nothing changes until the next tick.
ListFails ==
    /\ run = 0
    /\ Counted
    /\ UNCHANGED <<jobVars, rows, redis, batch, request>>

Starts ==
    /\ run = 0
    /\ run' = 1 /\ expired' = FALSE
    /\ pc' = Spawned
    /\ UNCHANGED <<got, rows, redis, batch, failures, request>>

\* The three minutes are over.
Expires ==
    /\ run # 0 /\ ~expired
    /\ Counted
    /\ expired' = TRUE
    /\ UNCHANGED <<run, pc, got, rows, redis, batch, request>>

\* The channel is closed and drained: the next level, if any.
LevelEnds ==
    /\ run # 0
    /\ \A d \in Profiled : pc[d] = "done"
    /\ \/ run < Len(Levels) /\ run' = run + 1 /\ pc' = Spawned
       \/ run = Len(Levels) /\ run' = 0 /\ pc' = [d \in Dashboards |-> "none"]
    /\ UNCHANGED <<expired, got, rows, redis, batch, failures, request>>

Moves(d, from, to) ==
    /\ pc[d] = from
    /\ pc' = [pc EXCEPT ![d] = to]

Holding == {d \in Dashboards : pc[d] \in {"fetching", "storing", "caching"}}

Acquires(d) ==
    /\ Cardinality(Holding) < Slots
    /\ Moves(d, "queued", "fetching")
    /\ UNCHANGED <<run, expired, got, rows, redis, batch, failures, request>>

\* Select may choose the context although a slot is free.
Refused(d) ==
    /\ expired
    /\ Moves(d, "queued", "done")
    /\ UNCHANGED <<run, expired, got, rows, redis, batch, failures, request>>

Fetches(d) ==
    /\ ~expired
    /\ Moves(d, "fetching", "storing")
    /\ got' = [got EXCEPT ![d] = batch]
    /\ UNCHANGED <<run, expired, rows, redis, batch, failures, request>>

\* Something fails by itself, or because the context is done.
Hits == Counted \/ (expired /\ UNCHANGED failures)

\* Faulty variant: the slot is kept.
FetchFailsHolding(d) ==
    /\ Hits
    /\ Moves(d, "fetching", "fetching")
    /\ UNCHANGED <<run, expired, got, rows, redis, batch, request>>

\* Nothing is sent.
FetchFails(d) ==
    /\ Hits
    /\ Moves(d, "fetching", "done")
    /\ UNCHANGED <<run, expired, got, rows, redis, batch, request>>

\* The last object of an id, at the place of the first; without an id, all.
deduplicateAdObjects(objects) ==
    FoldLeft(LAMBDA kept, x :
                IF x.id # Blank /\ \E i \in DOMAIN kept : kept[i].id = x.id
                THEN [i \in DOMAIN kept |-> IF kept[i].id = x.id THEN x ELSE kept[i]]
                ELSE Append(kept, x),
             <<>>, objects)

WithRow(d) ==
    [rows EXCEPT ![<<d, run>>] = Listed(got[d], deduplicateAdObjects(Batches[got[d]]))]

\* upsertAdObjectSnapshot.
Stores(d) ==
    /\ ~expired
    /\ Moves(d, "storing", "caching")
    /\ rows' = WithRow(d)
    /\ UNCHANGED <<run, expired, got, redis, batch, failures, request>>

\* The error is logged and the goroutine goes on; the statement of a context
\* that ended while it ran may have been carried out.
StoreFails(d) ==
    /\ Hits
    /\ Moves(d, "storing", "caching")
    /\ rows' \in {rows} \cup IF expired THEN {WithRow(d)} ELSE {}
    /\ UNCHANGED <<run, expired, got, redis, batch, request>>

\* Redis keeps the objects as they were fetched.
Caches(d) ==
    /\ ~expired
    /\ Moves(d, "caching", "done")
    /\ got' = [got EXCEPT ![d] = None]
    /\ redis' = [redis EXCEPT ![<<d, run>>] = Listed(got[d], Batches[got[d]])]
    /\ UNCHANGED <<run, expired, rows, batch, failures, request>>

CacheFails(d) ==
    /\ Hits
    /\ Moves(d, "caching", "done")
    /\ got' = [got EXCEPT ![d] = None]
    /\ UNCHANGED <<run, expired, rows, redis, batch, request>>

(***************************************************************************)
(* The handler                                                             *)
(***************************************************************************)

\* List, for the dashboards the reader may see: one that was asked for, or all.
Asks(level, visible) ==
    /\ request.pc = "none"
    /\ request' = [pc |-> "next", level |-> level, todo |-> visible, at |-> None,
                   shown |-> {}, excused |-> {},
                   known |-> [d \in Dashboards |->
                                IF d \in visible THEN BatchOf(rows[<<d, level>>]) ELSE 0]]
    /\ UNCHANGED <<jobVars, rows, redis, batch, failures>>

Key == <<request.at, request.level>>

\* Faulty variant: Redis first.
TakesFromRedis(d) ==
    /\ request.pc = "next" /\ d \in request.todo
    /\ request' = [request EXCEPT !.pc = IF redis[<<d, request.level>>] # None
                                         THEN "redis" ELSE "row",
                                  !.at = d, !.todo = @ \ {d}]
    /\ UNCHANGED <<jobVars, rows, redis, batch, failures>>

Takes(d) ==
    /\ request.pc = "next" /\ d \in request.todo
    /\ request' = [request EXCEPT !.pc = "row", !.at = d, !.todo = @ \ {d}]
    /\ UNCHANGED <<jobVars, rows, redis, batch, failures>>

Shows(n) ==
    request' = [request EXCEPT !.pc = "next", !.shown = @ \cup {<<request.at, n>>}]

FindsRow ==
    /\ request.pc = "row" /\ rows[Key] # None
    /\ Shows(rows[Key].batch)
    /\ UNCHANGED <<jobVars, rows, redis, batch, failures>>

\* There is no row, or the query fails.
MissesRow ==
    /\ request.pc = "row"
    /\ \/ rows[Key] = None /\ UNCHANGED failures
          /\ request' = [request EXCEPT !.pc = "redis"]
       \/ Counted
          /\ request' = [request EXCEPT !.pc = "redis", !.excused = @ \cup {request.at}]
    /\ UNCHANGED <<jobVars, rows, redis, batch>>

FindsKey ==
    /\ request.pc = "redis" /\ redis[Key] # None
    /\ Shows(redis[Key].batch)
    /\ UNCHANGED <<jobVars, rows, redis, batch, failures>>

MissesKey ==
    /\ request.pc = "redis"
    /\ \/ redis[Key] = None /\ UNCHANGED failures
       \/ Counted
    /\ request' = [request EXCEPT !.pc = "live"]
    /\ UNCHANGED <<jobVars, rows, redis, batch>>

\* GetMetaAdObjects, as Utmify lists them now; a dashboard it fails for is
\* left out of a list, and is the error of a request for it alone.
AsksUtmify ==
    /\ request.pc = "live"
    /\ \/ Shows(batch) /\ UNCHANGED failures
       \/ Counted /\ request' = [request EXCEPT !.pc = "next"]
    /\ UNCHANGED <<jobVars, rows, redis, batch>>

Answered ==
    /\ request.pc = "next" /\ request.todo = {}
    /\ request' = NoRequest
    /\ UNCHANGED <<jobVars, rows, redis, batch, failures>>

(***************************************************************************)
(* Utmify and the clock                                                    *)
(***************************************************************************)

Revises ==
    /\ batch < Len(Batches)
    /\ batch' = batch + 1
    /\ UNCHANGED <<jobVars, rows, redis, failures, request>>

\* adObjectsTTL is over.
Drops(k) ==
    /\ redis[k] # None
    /\ redis' = [redis EXCEPT ![k] = None]
    /\ UNCHANGED <<jobVars, rows, batch, failures, request>>

Works(d) ==
    \/ Acquires(d) \/ Refused(d)
    \/ Fetches(d) \/ FetchFails(d)
    \/ Stores(d) \/ StoreFails(d)
    \/ Caches(d) \/ CacheFails(d)

Next ==
    \/ ListFails \/ Starts \/ Expires \/ LevelEnds
    \/ \E d \in Profiled : Works(d)
    \/ \E level \in 1 .. Len(Levels), visible \in SUBSET Dashboards :
            visible # {} /\ Asks(level, visible)
    \/ \E d \in Dashboards : Takes(d)
    \/ FindsRow \/ MissesRow \/ FindsKey \/ MissesKey \/ AsksUtmify \/ Answered
    \/ Revises
    \/ \E k \in Snapshots : Drops(k)

\* The ticker keeps firing, and goroutines that can go on do.
Fairness ==
    /\ WF_vars(Starts) /\ WF_vars(LevelEnds)
    /\ \A d \in Profiled : WF_vars(Works(d))

(***************************************************************************)
(* Properties                                                              *)
(***************************************************************************)

\* What a request shows of a dashboard is never behind the row there was when
\* it arrived, unless its own query of the row failed: rows never go back
\* from one run to the next, and Redis, whose writes may fail where those of
\* PostgreSQL did not, is not asked before.
NeverBehindTheRow ==
    \A x \in request.shown :
        x[1] \in request.excused \/ x[2] >= request.known[x[1]]

\* The figures Utmify lists for an id, and those of the row.
LastOf(objects, id) ==
    LET with == {i \in DOMAIN objects : objects[i].id = id}
    IN  objects[CHOOSE i \in with : \A j \in with : j <= i]

IsUpToDate(objects, now) ==
    /\ \A i \in DOMAIN now : now[i].id # Blank =>
          Cardinality({j \in DOMAIN objects : objects[j].id = now[i].id}) = 1
    /\ \A j \in DOMAIN objects : objects[j].id # Blank =>
          objects[j] = LastOf(now, objects[j].id)
    /\ Len(SelectSeq(objects, LAMBDA x : x.id = Blank))
          = Len(SelectSeq(now, LAMBDA x : x.id = Blank))

\* Every level of every dashboard is stored as Utmify lists it now, each id
\* once and as listed last.
AllStored ==
    \A k \in Profiled \X (1 .. Len(Levels)) :
        rows[k] # None /\ IsUpToDate(rows[k].objects, Batches[batch])
=============================================================================
