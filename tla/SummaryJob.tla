----------------------------- MODULE SummaryJob -----------------------------
(***************************************************************************)
(* The scheduler's dashboard summary job: the loop that runs it on every   *)
(* tick until it is stopped, and a run of it, which fetches the summaries  *)
(* of all dashboards at once.  Every dashboard has a goroutine that takes  *)
(* one of a few slots, calls Utmify (twice if need be), stores what it got *)
(* and sends its answer into a buffered channel.  Another goroutine closes *)
(* the channel when the wait group is empty; the run collects the answers  *)
(* until then.  The time limit of the run may expire at any moment.        *)
(***************************************************************************)
EXTENDS Naturals, FiniteSets

CONSTANTS
    Dashboards,   \* those Utmify may list
    Slots,        \* maxConcurrentFetches
    Figures,      \* what Utmify may answer for a dashboard
    NoFigure,     \* a row that does not exist, an answer not there yet
    Failed        \* an answer with an error and no summary

ASSUME JobAssumption ==
    /\ IsFiniteSet(Dashboards)
    /\ Slots \in Nat \ {0}
    /\ NoFigure \notin Figures /\ Failed \notin Figures
    /\ NoFigure # Failed

VARIABLES
    loop,       \* where the loop is, and within a run where the run is
    stopping,   \* the stop channel is closed
    expired,    \* the context of the run is done
    asked,      \* the dashboards of this run
    pc,         \* pc[d]: where the goroutine of d is
    answer,     \* answer[d]: what it has found
    sem,        \* tokens in the semaphore
    wg,         \* counter of the wait group
    results,    \* dashboards whose answer is in the channel
    closed,     \* the channel is closed
    items,      \* dashboards whose answer the run has received
    stored,     \* stored[d]: summary in dashboard_summary_snapshots
    before      \* history: stored as it was when the run began

loopVars == <<loop, stopping>>
poolVars == <<pc, answer, sem, wg, results>>
vars == <<loop, stopping, expired, asked, pc, answer, sem, wg, results,
          closed, items, stored, before>>

Answers == Figures \cup {Failed}

LoopPCs == {"idle", "listing", "spawning", "collecting", "stopped"}
RunPCs == {"listing", "spawning", "collecting"}

\* Where a goroutine is while it holds a slot.
SlotPCs == {"fetching", "pausing", "retrying", "storing", "answering", "leaving"}
PCs == {"none", "waiting", "refused", "finishing", "done"} \cup SlotPCs

\* While it may be talking to Utmify or to PostgreSQL.
BusyPCs == {"fetching", "retrying", "storing"}

NoGoroutines == [d \in Dashboards |-> "none"]
NoFigures == [d \in Dashboards |-> NoFigure]

\* Start runs the job at once.
Init ==
    /\ loop = "listing"
    /\ stopping = FALSE /\ expired = FALSE /\ closed = FALSE
    /\ asked = {} /\ results = {} /\ items = {}
    /\ pc = NoGoroutines /\ answer = NoFigures
    /\ sem = 0 /\ wg = 0
    /\ stored = NoFigures /\ before = NoFigures

(***************************************************************************)
(* The loop                                                                *)
(***************************************************************************)

\* Scheduler.Stop closes the channel all loops look at.
Stop ==
    /\ ~stopping
    /\ stopping' = TRUE
    /\ UNCHANGED <<loop, expired, asked, poolVars, closed, items, stored, before>>

LoopStops ==
    /\ loop = "idle"
    /\ stopping
    /\ loop' = "stopped"
    /\ UNCHANGED <<stopping, expired, asked, poolVars, closed, items, stored, before>>

\* Faulty variant: a flag instead of a channel, which a new run resets.
TickForgetsStop ==
    /\ loop = "idle"
    /\ loop' = "listing"
    /\ stopping' = FALSE
    /\ expired' = FALSE
    /\ before' = stored
    /\ UNCHANGED <<asked, poolVars, closed, items, stored>>

\* The select may choose the tick though the stop channel is closed.
Tick ==
    /\ loop = "idle"
    /\ loop' = "listing"
    /\ expired' = FALSE
    /\ before' = stored
    /\ UNCHANGED <<stopping, asked, poolVars, closed, items, stored>>

Expire ==
    /\ loop \in RunPCs
    /\ ~expired
    /\ expired' = TRUE
    /\ UNCHANGED <<loopVars, asked, poolVars, closed, items, stored, before>>

(***************************************************************************)
(* A run                                                                   *)
(***************************************************************************)

\* GetDashboards fails: there is nothing to do until the next tick.
ListFails ==
    /\ loop = "listing"
    /\ loop' = "idle"
    /\ UNCHANGED <<stopping, expired, asked, poolVars, closed, items, stored, before>>

\* GetDashboards, and fetchAndPersistSummaries up to its loop: semaphore,
\* wait group and channel are the run's own.
List(D) ==
    /\ loop = "listing"
    /\ loop' = "spawning"
    /\ asked' = D
    /\ sem' = 0 /\ wg' = 0 /\ results' = {} /\ closed' = FALSE
    /\ UNCHANGED <<stopping, expired, pc, answer, items, stored, before>>

\* wg.Add, then go.
Spawn(d) ==
    /\ loop = "spawning"
    /\ d \in asked /\ pc[d] = "none"
    /\ wg' = wg + 1
    /\ pc' = [pc EXCEPT ![d] = "waiting"]
    /\ UNCHANGED <<loopVars, expired, asked, answer, sem, results, closed, items,
                   stored, before>>

SpawnCloser ==
    /\ loop = "spawning"
    /\ \A d \in asked : pc[d] # "none"
    /\ loop' = "collecting"
    /\ UNCHANGED <<stopping, expired, asked, poolVars, closed, items, stored, before>>

\* Faulty variant: the channel is closed as soon as nobody waits for a slot.
CloseResultsEarly ==
    /\ loop = "collecting" /\ ~closed
    /\ \A d \in asked : pc[d] # "waiting"
    /\ closed' = TRUE
    /\ UNCHANGED <<loopVars, expired, asked, poolVars, items, stored, before>>

\* wg.Wait, then close.
CloseResults ==
    /\ loop = "collecting" /\ ~closed
    /\ wg = 0
    /\ closed' = TRUE
    /\ UNCHANGED <<loopVars, expired, asked, poolVars, items, stored, before>>

Receive(d) ==
    /\ loop = "collecting"
    /\ d \in results
    /\ results' = results \ {d}
    /\ items' = items \cup {d}
    /\ UNCHANGED <<loopVars, expired, asked, pc, answer, sem, wg, closed, stored,
                   before>>

\* Faulty variant: it does not drain the channel.
RunEndsUndrained ==
    /\ loop = "collecting"
    /\ closed
    /\ loop' = "idle"
    /\ asked' = {} /\ items' = {} /\ closed' = FALSE
    /\ pc' = NoGoroutines /\ answer' = NoFigures
    /\ UNCHANGED <<stopping, expired, sem, wg, results, stored, before>>

\* The range ends.  The answers are logged and, where there is a Redis,
\* summed up in a key that nothing reads.
RunEnds ==
    /\ loop = "collecting"
    /\ closed /\ results = {}
    /\ loop' = "idle"
    /\ asked' = {} /\ items' = {} /\ closed' = FALSE
    /\ pc' = NoGoroutines /\ answer' = NoFigures
    /\ UNCHANGED <<stopping, expired, sem, wg, results, stored, before>>

(***************************************************************************)
(* The goroutine of a dashboard                                            *)
(***************************************************************************)

\* What most of its steps leave alone.
OnlyGoroutine ==
    UNCHANGED <<loopVars, expired, asked, wg, closed, items, before>>

Moves(d, from, to) ==
    /\ pc[d] = from
    /\ pc' = [pc EXCEPT ![d] = to]

\* The select on the semaphore and on the context: either if both are ready.
Acquire(d) ==
    /\ Moves(d, "waiting", "fetching")
    /\ sem < Slots
    /\ sem' = sem + 1
    /\ OnlyGoroutine /\ UNCHANGED <<answer, results, stored>>

\* Faulty variant: it calls wg.Done, which is deferred already.
RefuseCountingDown(d) ==
    /\ Moves(d, "waiting", "refused")
    /\ expired
    /\ answer' = [answer EXCEPT ![d] = Failed]
    /\ wg' = wg - 1
    /\ UNCHANGED <<loopVars, expired, asked, sem, results, closed, items, stored, before>>

Refuse(d) ==
    /\ Moves(d, "waiting", "refused")
    /\ expired
    /\ answer' = [answer EXCEPT ![d] = Failed]
    /\ OnlyGoroutine /\ UNCHANGED <<sem, results, stored>>

\* Faulty variant: the slot is given back once Utmify has answered.
FetchedReleasing(d, f) ==
    /\ Moves(d, "fetching", "storing") \/ Moves(d, "retrying", "storing")
    /\ answer' = [answer EXCEPT ![d] = f]
    /\ sem' = sem - 1
    /\ OnlyGoroutine /\ UNCHANGED <<results, stored>>

Fetched(d, f) ==
    /\ Moves(d, "fetching", "storing") \/ Moves(d, "retrying", "storing")
    /\ answer' = [answer EXCEPT ![d] = f]
    /\ OnlyGoroutine /\ UNCHANGED <<sem, results, stored>>

\* The first call fails: a pause, unless the context is done.
FetchFails(d) ==
    /\ Moves(d, "fetching", "pausing")
    /\ OnlyGoroutine /\ UNCHANGED <<answer, sem, results, stored>>

PauseEnds(d) ==
    /\ Moves(d, "pausing", "retrying")
    /\ OnlyGoroutine /\ UNCHANGED <<answer, sem, results, stored>>

\* There is no third call.
GivesUp(d) ==
    /\ \/ Moves(d, "retrying", "answering")
       \/ expired /\ Moves(d, "pausing", "answering")
    /\ answer' = [answer EXCEPT ![d] = Failed]
    /\ OnlyGoroutine /\ UNCHANGED <<sem, results, stored>>

\* Faulty variant: an answer whose row was not stored is answered as failed,
\* though the row may have been.
StoreAnswersFailure(d) ==
    /\ Moves(d, "storing", "answering")
    /\ stored' = [stored EXCEPT ![d] = answer[d]]
    /\ answer' \in {answer, [answer EXCEPT ![d] = Failed]}
    /\ OnlyGoroutine /\ UNCHANGED <<sem, results>>

\* The upsert.  If it fails, its row may be there or not, and the answer
\* still counts as a success.
Store(d) ==
    /\ Moves(d, "storing", "answering")
    /\ stored' \in {stored, [stored EXCEPT ![d] = answer[d]]}
    /\ OnlyGoroutine /\ UNCHANGED <<answer, sem, results>>

\* results <- ...: the buffer has room for one answer per dashboard.
Send(d) ==
    /\ Moves(d, "answering", "leaving") \/ Moves(d, "refused", "finishing")
    /\ Cardinality(results) < Cardinality(asked)
    /\ results' = results \cup {d}
    /\ OnlyGoroutine /\ UNCHANGED <<answer, sem, stored>>

\* Faulty variant: the slot is kept.
ReleaseForgotten(d) ==
    /\ Moves(d, "leaving", "finishing")
    /\ OnlyGoroutine /\ UNCHANGED <<answer, sem, results, stored>>

\* The deferred receive from the semaphore.
Release(d) ==
    /\ Moves(d, "leaving", "finishing")
    /\ sem > 0
    /\ sem' = sem - 1
    /\ OnlyGoroutine /\ UNCHANGED <<answer, results, stored>>

\* The deferred wg.Done, which runs last.
Finish(d) ==
    /\ Moves(d, "finishing", "done")
    /\ wg' = wg - 1
    /\ UNCHANGED <<loopVars, expired, asked, answer, sem, results, closed, items,
                   stored, before>>

(***************************************************************************)
(* Specification                                                           *)
(***************************************************************************)

RunGoesOn ==
    \/ ListFails
    \/ \E D \in SUBSET Dashboards : List(D)
    \/ \E d \in Dashboards : Spawn(d)
    \/ SpawnCloser
    \/ \E d \in Dashboards : Receive(d)
    \/ RunEnds

GoroutineGoesOn(d) ==
    \/ Acquire(d)
    \/ Refuse(d)
    \/ \E f \in Figures : Fetched(d, f)
    \/ FetchFails(d)
    \/ PauseEnds(d)
    \/ GivesUp(d)
    \/ Store(d)
    \/ Send(d)
    \/ Release(d)
    \/ Finish(d)

Next ==
    \/ Stop
    \/ LoopStops
    \/ Tick
    \/ Expire
    \/ RunGoesOn
    \/ CloseResults
    \/ \E d \in Dashboards : GoroutineGoesOn(d)

Spec == Init /\ [][Next]_vars

\* Goroutines that can go on do; a call to Utmify or to PostgreSQL ends, by
\* itself or by its time limit; a select that finds the stop channel closed
\* again and again chooses it at last.  Neither a tick nor the run's time
\* limit is needed.
Fairness ==
    /\ WF_vars(RunGoesOn)
    /\ WF_vars(CloseResults)
    /\ \A d \in Dashboards : WF_vars(GoroutineGoesOn(d))
    /\ SF_vars(LoopStops)

FairSpec == Spec /\ Fairness
(***************************************************************************)
(* Properties                                                              *)
(***************************************************************************)

\* Every variable has its type.
TypeOK ==
    /\ loop \in LoopPCs
    /\ {stopping, expired, closed} \subseteq BOOLEAN
    /\ asked \subseteq Dashboards
    /\ pc \in [Dashboards -> PCs]
    /\ answer \in [Dashboards -> Answers \cup {NoFigure}]
    /\ sem \in 0 .. Slots
    /\ wg \in Nat
    /\ results \subseteq asked /\ items \subseteq asked
    /\ stored \in [Dashboards -> Figures \cup {NoFigure}]
    /\ before \in [Dashboards -> Figures \cup {NoFigure}]

\* Utmify and PostgreSQL never see more than maxConcurrentFetches goroutines
\* of a run at once, however they got and left their slots.
WithinSlots == Cardinality({d \in Dashboards : pc[d] \in BusyPCs}) <= Slots

\* Nobody sends on a closed channel, which would panic, and nobody outlives
\* the run: when the channel is closed every goroutine is done.
ClosedWhenQuiet == closed => \A d \in asked : pc[d] = "done"

\* What a run reports of a dashboard agrees with its row: a failure left the
\* row of the former run, a success left that row or the summary reported.
AnswersMatchRows ==
    \A d \in items :
        IF answer[d] = Failed THEN stored[d] = before[d]
                              ELSE stored[d] \in {answer[d], before[d]}

\* The job implements the abstract rounds: each dashboard of a run is answered
\* exactly once, no answer is changed afterwards, no run ends before all
\* are collected, and nothing happens once the loop has stopped.
Abstract == INSTANCE SummaryRounds WITH
    phase <- CASE loop = "idle" -> "resting"
               [] loop = "stopped" -> "stopped"
               [] OTHER -> "asking",
    answers <- [d \in items |-> answer[d]]

ImplementsRounds == Abstract!Rounds

\* Stop stops the loop, whatever it was doing and however often the select
\* preferred a tick.
StopsAtLast == stopping ~> loop = "stopped"
=============================================================================
