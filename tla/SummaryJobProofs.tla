-------------------------- MODULE SummaryJobProofs --------------------------
(***************************************************************************)
(* That the dashboard summary job keeps to its slots, never sends on a     *)
(* closed channel, reports what it stored, and implements SummaryRounds,   *)
(* for any number of dashboards and of slots; and, of AdObjects beside it  *)
(* in MCSummaryJob, that a request never shows what is behind the row it   *)
(* came upon, for any dashboards, levels and batches.                      *)
(***************************************************************************)
EXTENDS MCSummaryJob, FiniteSetTheorems, TLAPS

(***************************************************************************)
(* The inductive invariant                                                 *)
(***************************************************************************)

SentPCs == {"leaving", "finishing", "done"}

Holders == {d \in Dashboards : pc[d] \in SlotPCs}
Running == {d \in Dashboards : pc[d] \notin {"none", "done"}}

\* The two counters count what they are meant to.
Counters == sem = Cardinality(Holders) /\ wg = Cardinality(Running)

\* Goroutines exist within a run, and outlive neither it nor its channel.
WithinRun ==
    /\ loop \notin {"spawning", "collecting"} =>
            asked = {} /\ results = {} /\ items = {} /\ ~closed
    /\ \A d \in Dashboards : pc[d] # "none" => d \in asked
    /\ loop = "collecting" => \A d \in asked : pc[d] # "none"
    /\ closed => loop = "collecting" /\ \A d \in asked : pc[d] = "done"

\* An answer is in the channel, or received, once it is sent, and only once.
SentOnce ==
    /\ results \cap items = {}
    /\ \A d \in Dashboards : d \in results \cup items <=> pc[d] \in SentPCs

\* What a goroutine has found, and the row it has left.
Found(d) ==
    /\ pc[d] = "storing" => answer[d] \in Figures
    /\ pc[d] = "refused" => answer[d] = Failed
    /\ IF pc[d] \in {"answering"} \cup SentPCs
       THEN /\ answer[d] \in Answers
            /\ IF answer[d] = Failed THEN stored[d] = before[d]
                                     ELSE stored[d] \in {answer[d], before[d]}
       ELSE stored[d] = before[d]

AllFound == loop \in RunPCs => \A d \in Dashboards : Found(d)

JobInv ==
    /\ TypeOK
    /\ Counters
    /\ WithinRun
    /\ SentOnce
    /\ AllFound
(***************************************************************************)
(* The counters                                                            *)
(***************************************************************************)

\* Sets of dashboards are finite, and their sizes natural numbers.
LEMMA FiniteSets ==
    /\ IsFiniteSet(Holders) /\ Cardinality(Holders) \in Nat
    /\ IsFiniteSet(Running) /\ Cardinality(Running) \in Nat
<1>1. Holders \in SUBSET Dashboards /\ Running \in SUBSET Dashboards
    BY DEF Holders, Running
<1>2. IsFiniteSet(Holders) /\ IsFiniteSet(Running)
    BY <1>1, JobAssumption, FS_Subset
<1> QED
    BY <1>2, FS_CardinalityType

\* A set that one dashboard enters, leaves or stays in.
LEMMA OneMoves ==
    ASSUME NEW S, IsFiniteSet(S), NEW T, NEW d, NEW inS \in BOOLEAN,
           NEW inT \in BOOLEAN, d \in S <=> inS, d \in T <=> inT,
           S \ {d} = T \ {d}
    PROVE  Cardinality(T) = Cardinality(S) + (IF inT THEN 1 ELSE 0)
                                           - (IF inS THEN 1 ELSE 0)
<1>1. Cardinality(S) \in Nat
    BY FS_CardinalityType
<1>2. CASE inT
  <2>1. T = S \cup {d}
      BY <1>2
  <2> QED
      BY <1>1, <1>2, <2>1, FS_AddElement
<1>3. CASE ~inT
  <2>1. T = S \ {d}
      BY <1>3
  <2> QED
      BY <1>1, <1>3, <2>1, FS_RemoveElement
<1> QED
    BY <1>2, <1>3

\* How a step of one goroutine changes the two sets.
LEMMA CountsOfMove ==
    ASSUME TypeOK, NEW d \in Dashboards, NEW to \in PCs,
           pc' = [pc EXCEPT ![d] = to]
    PROVE  /\ Cardinality(Holders)' = Cardinality(Holders)
                + (IF to \in SlotPCs THEN 1 ELSE 0)
                - (IF pc[d] \in SlotPCs THEN 1 ELSE 0)
           /\ Cardinality(Running)' = Cardinality(Running)
                + (IF to \notin {"none", "done"} THEN 1 ELSE 0)
                - (IF pc[d] \notin {"none", "done"} THEN 1 ELSE 0)
<1>1. pc'[d] = to /\ \A e \in Dashboards \ {d} : pc'[e] = pc[e]
    BY DEF TypeOK
<1>2. Cardinality(Holders') = Cardinality(Holders)
        + (IF to \in SlotPCs THEN 1 ELSE 0) - (IF pc[d] \in SlotPCs THEN 1 ELSE 0)
  <2>1. /\ d \in Holders <=> pc[d] \in SlotPCs
        /\ d \in Holders' <=> to \in SlotPCs
        /\ Holders \ {d} = Holders' \ {d}
      BY <1>1 DEF Holders
  <2> QED
      BY <2>1, OneMoves, FiniteSets
<1>3. Cardinality(Running') = Cardinality(Running)
        + (IF to \notin {"none", "done"} THEN 1 ELSE 0)
        - (IF pc[d] \notin {"none", "done"} THEN 1 ELSE 0)
  <2>1. /\ d \in Running <=> pc[d] \notin {"none", "done"}
        /\ d \in Running' <=> to \notin {"none", "done"}
        /\ Running \ {d} = Running' \ {d}
      BY <1>1 DEF Running
  <2> QED
      BY <2>1, OneMoves, FiniteSets
<1> QED
    BY <1>2, <1>3

\* No goroutine, nothing counted.
LEMMA NobodyCounts ==
    ASSUME pc = NoGoroutines
    PROVE  Cardinality(Holders) = 0 /\ Cardinality(Running) = 0
<1>1. Holders = {} /\ Running = {}
    BY DEF Holders, Running, NoGoroutines, SlotPCs
<1> QED
    BY <1>1, FS_EmptySet

(***************************************************************************)
(* Preservation: the goroutines                                            *)
(***************************************************************************)

\* By how much leaving a state and entering another changes a counter.
Change(from, to, counted) ==
    (IF to \in counted THEN 1 ELSE 0) - (IF from \in counted THEN 1 ELSE 0)

RunningPCs == PCs \ {"none", "done"}

\* What a step of one goroutine must do to preserve the invariant.
LEMMA GoroutineStep ==
    ASSUME JobInv, NEW d \in Dashboards, NEW from \in RunningPCs,
           NEW to \in PCs \ {"none"}, Moves(d, from, to),
           UNCHANGED <<loop, stopping, expired, asked, closed, items, before>>,
           from \in SentPCs => to \in SentPCs,
           results' = IF from \notin SentPCs /\ to \in SentPCs
                      THEN results \cup {d} ELSE results,
           sem' = sem + Change(from, to, SlotPCs), sem' <= Slots,
           wg' = wg + Change(from, to, RunningPCs),
           NEW a \in Answers \cup {NoFigure}, answer' = [answer EXCEPT ![d] = a],
           NEW r \in Figures \cup {NoFigure}, stored' = [stored EXCEPT ![d] = r],
           Found(d)'
    PROVE  JobInv'
<1>1. /\ d \in asked /\ ~closed
      /\ loop \in {"spawning", "collecting"}
    BY DEF JobInv, WithinRun, Moves, RunningPCs
<1>2. pc[d] = from /\ pc'[d] = to /\ \A e \in Dashboards \ {d} : pc'[e] = pc[e]
    BY DEF JobInv, TypeOK, Moves
<1>3. Counters'
  <2>1. pc' = [pc EXCEPT ![d] = to] /\ to \in PCs
      BY DEF Moves
  <2>2. /\ Cardinality(Holders)' = Cardinality(Holders)
             + (IF to \in SlotPCs THEN 1 ELSE 0)
             - (IF from \in SlotPCs THEN 1 ELSE 0)
        /\ Cardinality(Running)' = Cardinality(Running)
             + (IF to \notin {"none", "done"} THEN 1 ELSE 0)
             - (IF from \notin {"none", "done"} THEN 1 ELSE 0)
      BY <1>2, <2>1, CountsOfMove DEF JobInv
  <2>3. from \in RunningPCs /\ (to \in RunningPCs <=> to \notin {"none", "done"})
      BY DEF RunningPCs
  <2> QED
      BY <2>2, <2>3, FiniteSets DEF JobInv, Counters, Change, RunningPCs
<1>4. sem' \in 0 .. Slots /\ wg' \in Nat
  <2>1. IsFiniteSet(Holders') /\ IsFiniteSet(Running')
    <3>1. Holders' \in SUBSET Dashboards /\ Running' \in SUBSET Dashboards
        BY DEF Holders, Running
    <3> QED
        BY <3>1, JobAssumption, FS_Subset
  <2>2. Cardinality(Holders') \in Nat /\ Cardinality(Running') \in Nat
      BY <2>1, FS_CardinalityType
  <2> QED
      BY <1>3, <2>2, JobAssumption DEF Counters
<1>5. TypeOK'
    BY <1>1, <1>4 DEF JobInv, TypeOK, Moves
<1>6. WithinRun'
  <2>1. closed' = closed /\ loop' = loop /\ asked' = asked
      OBVIOUS
  <2>2. \A e \in Dashboards : pc'[e] # "none" => pc[e] # "none"
      BY <1>2 DEF RunningPCs
  <2>3. \A e \in Dashboards : pc[e] # "none" => pc'[e] # "none"
      BY <1>2
  <2>4. asked \subseteq Dashboards
      BY DEF JobInv, TypeOK
  <2> QED
      BY <1>1, <2>1, <2>2, <2>3, <2>4 DEF JobInv, WithinRun
<1>7. SentOnce'
    BY <1>2 DEF JobInv, SentOnce
<1>8. AllFound'
  <2>1. ASSUME NEW e \in Dashboards \ {d} PROVE Found(e)'
    <3>1. /\ pc'[e] = pc[e] /\ answer'[e] = answer[e]
          /\ stored'[e] = stored[e] /\ before'[e] = before[e]
        BY <1>2 DEF JobInv, TypeOK
    <3>2. Found(e)
        BY <1>1 DEF JobInv, AllFound, RunPCs
    <3> QED
        BY <3>1, <3>2 DEF Found
  <2> QED
      BY <2>1 DEF AllFound
<1> QED
    BY <1>3, <1>5, <1>6, <1>7, <1>8 DEF JobInv

\* A goroutine that is at work is found to be so.
LEMMA AtWork ==
    ASSUME JobInv, NEW d \in Dashboards, pc[d] # "none"
    PROVE  Found(d)
BY DEF JobInv, WithinRun, AllFound, RunPCs

\* A step that takes no slot and sends nothing.
LEMMA QuietStep ==
    ASSUME JobInv, NEW d \in Dashboards, NEW from \in RunningPCs \ SentPCs,
           NEW to \in RunningPCs \ SentPCs, Moves(d, from, to), OnlyGoroutine,
           from \in SlotPCs <=> to \in SlotPCs, UNCHANGED <<sem, results>>,
           NEW a \in Answers \cup {NoFigure}, answer' = [answer EXCEPT ![d] = a],
           NEW r \in Figures \cup {NoFigure}, stored' = [stored EXCEPT ![d] = r],
           Found(d)'
    PROVE  JobInv'
<1>1. /\ UNCHANGED <<loop, stopping, expired, asked, closed, items, before, wg>>
      /\ to \in PCs \ {"none"} /\ from \in RunningPCs
    BY DEF OnlyGoroutine, loopVars, RunningPCs
<1>2. /\ Change(from, to, SlotPCs) = 0 /\ Change(from, to, RunningPCs) = 0
    BY DEF Change
<1>3. sem \in 0 .. Slots /\ wg \in Nat
    BY DEF JobInv, TypeOK
<1>4. /\ sem' = sem + Change(from, to, SlotPCs) /\ sem' <= Slots
      /\ wg' = wg + Change(from, to, RunningPCs)
    BY <1>1, <1>2, <1>3, JobAssumption
<1> QED
    BY <1>1, <1>4, GoroutineStep

\* What is not written is written as it was.
LEMMA AsItWas ==
    ASSUME JobInv, NEW d \in Dashboards
    PROVE  /\ answer = [answer EXCEPT ![d] = answer[d]]
           /\ stored = [stored EXCEPT ![d] = stored[d]]
           /\ answer[d] \in Answers \cup {NoFigure}
           /\ stored[d] \in Figures \cup {NoFigure}
BY DEF JobInv, TypeOK

\* The semaphore lets it in.
LEMMA AcquireKeeps ==
    ASSUME JobInv, NEW d \in Dashboards, Acquire(d)
    PROVE  JobInv'
<1>1. /\ Moves(d, "waiting", "fetching")
      /\ sem' = sem + 1 /\ sem < Slots /\ UNCHANGED <<wg, answer, results, stored>>
      /\ UNCHANGED <<loop, stopping, expired, asked, closed, items, before>>
    BY DEF Acquire, OnlyGoroutine, loopVars
<1>2. Found(d)'
    BY <1>1, AtWork DEF Found, Moves, SentPCs, JobInv, TypeOK
<1>3. /\ Change("waiting", "fetching", SlotPCs) = 1
      /\ Change("waiting", "fetching", RunningPCs) = 0
    BY DEF Change, RunningPCs, PCs, SlotPCs
<1>4. sem \in 0 .. Slots /\ wg \in Nat /\ sem' <= Slots
    BY <1>1, JobAssumption DEF JobInv, TypeOK
<1>5. /\ sem' = sem + Change("waiting", "fetching", SlotPCs)
      /\ wg' = wg + Change("waiting", "fetching", RunningPCs)
    BY <1>1, <1>3, <1>4
<1>6. "waiting" \in RunningPCs \ SentPCs /\ "fetching" \in PCs \ {"none"}
      /\ "fetching" \notin SentPCs
    BY DEF PCs, SlotPCs, SentPCs, RunningPCs
<1>7. /\ answer' = [answer EXCEPT ![d] = answer[d]]
      /\ stored' = [stored EXCEPT ![d] = stored[d]]
    BY <1>1, AsItWas
<1> QED
    BY <1>1, <1>2, <1>4, <1>5, <1>6, <1>7, AsItWas, GoroutineStep

\* The context is done: it answers as failed.
LEMMA RefuseKeeps ==
    ASSUME JobInv, NEW d \in Dashboards, Refuse(d)
    PROVE  JobInv'
<1>1. /\ Moves(d, "waiting", "refused") /\ OnlyGoroutine
      /\ UNCHANGED <<sem, results, stored>> /\ UNCHANGED before
      /\ answer' = [answer EXCEPT ![d] = Failed]
    BY DEF Refuse, OnlyGoroutine
<1>2. Found(d)'
    BY <1>1, AtWork DEF Found, Moves, SentPCs, JobInv, TypeOK, Answers
<1>3. /\ "waiting" \in RunningPCs \ SentPCs /\ "refused" \in RunningPCs \ SentPCs
      /\ "waiting" \notin SlotPCs /\ "refused" \notin SlotPCs
    BY DEF PCs, SlotPCs, SentPCs, RunningPCs
<1>4. Failed \in Answers
    BY DEF Answers
<1>5. stored' = [stored EXCEPT ![d] = stored[d]]
    BY <1>1, AsItWas
<1> QED
    BY <1>1, <1>2, <1>3, <1>4, <1>5, AsItWas, QuietStep

\* Utmify answers, to the first call or to the second.
LEMMA FetchedKeeps ==
    ASSUME JobInv, NEW d \in Dashboards, NEW f \in Figures, Fetched(d, f)
    PROVE  JobInv'
<1>1. PICK from \in {"fetching", "retrying"} : Moves(d, from, "storing")
    BY DEF Fetched
<1>2. /\ OnlyGoroutine /\ UNCHANGED <<sem, results, stored>> /\ UNCHANGED before
      /\ answer' = [answer EXCEPT ![d] = f]
    BY DEF Fetched, OnlyGoroutine
<1>3. Found(d)'
    BY <1>1, <1>2, AtWork DEF Found, Moves, SentPCs, JobInv, TypeOK
<1>4. /\ from \in RunningPCs \ SentPCs /\ "storing" \in RunningPCs \ SentPCs
      /\ from \in SlotPCs /\ "storing" \in SlotPCs
    BY DEF PCs, SlotPCs, SentPCs, RunningPCs
<1>5. f \in Answers
    BY DEF Answers
<1>6. stored' = [stored EXCEPT ![d] = stored[d]]
    BY <1>2, AsItWas
<1> QED
    BY <1>1, <1>2, <1>3, <1>4, <1>5, <1>6, AsItWas, QuietStep

\* The first call fails, and the pause after it ends.
LEMMA PauseKeeps ==
    ASSUME JobInv, NEW d \in Dashboards, FetchFails(d) \/ PauseEnds(d)
    PROVE  JobInv'
<1>1. PICK from \in {"fetching", "pausing"}, to \in {"pausing", "retrying"} :
            Moves(d, from, to)
    BY DEF FetchFails, PauseEnds
<1>2. OnlyGoroutine /\ UNCHANGED <<answer, sem, results, stored>> /\ UNCHANGED before
    BY DEF FetchFails, PauseEnds, OnlyGoroutine
<1>3. Found(d)'
    BY <1>1, <1>2, AtWork DEF Found, Moves, SentPCs, JobInv, TypeOK
<1>4. /\ from \in RunningPCs \ SentPCs /\ to \in RunningPCs \ SentPCs
      /\ from \in SlotPCs /\ to \in SlotPCs
    BY DEF PCs, SlotPCs, SentPCs, RunningPCs
<1>5. /\ answer' = [answer EXCEPT ![d] = answer[d]]
      /\ stored' = [stored EXCEPT ![d] = stored[d]]
    BY <1>2, AsItWas
<1> QED
    BY <1>1, <1>2, <1>3, <1>4, <1>5, AsItWas, QuietStep

\* Both calls failed, or the context is done.
LEMMA GivesUpKeeps ==
    ASSUME JobInv, NEW d \in Dashboards, GivesUp(d)
    PROVE  JobInv'
<1>1. PICK from \in {"pausing", "retrying"} : Moves(d, from, "answering")
    BY DEF GivesUp
<1>2. /\ OnlyGoroutine /\ UNCHANGED <<sem, results, stored>> /\ UNCHANGED before
      /\ answer' = [answer EXCEPT ![d] = Failed]
    BY DEF GivesUp, OnlyGoroutine
<1>3. Found(d)'
    BY <1>1, <1>2, AtWork DEF Found, Moves, SentPCs, JobInv, TypeOK, Answers
<1>4. /\ from \in RunningPCs \ SentPCs /\ "answering" \in RunningPCs \ SentPCs
      /\ from \in SlotPCs /\ "answering" \in SlotPCs
    BY DEF PCs, SlotPCs, SentPCs, RunningPCs
<1>5. Failed \in Answers
    BY DEF Answers
<1>6. stored' = [stored EXCEPT ![d] = stored[d]]
    BY <1>2, AsItWas
<1> QED
    BY <1>1, <1>2, <1>3, <1>4, <1>5, <1>6, AsItWas, QuietStep

\* The row is stored, or it is not.
LEMMA StoreKeeps ==
    ASSUME JobInv, NEW d \in Dashboards, Store(d)
    PROVE  JobInv'
<1>1. /\ Moves(d, "storing", "answering") /\ OnlyGoroutine
      /\ UNCHANGED <<answer, sem, results>> /\ UNCHANGED before
    BY DEF Store, OnlyGoroutine
<1>2. PICK r \in {stored[d], answer[d]} : stored' = [stored EXCEPT ![d] = r]
    BY AsItWas DEF Store
<1>3. answer[d] \in Figures /\ stored[d] = before[d]
    BY <1>1, AtWork DEF Moves, Found, SentPCs
<1>4. Found(d)'
    BY <1>1, <1>2, <1>3, JobAssumption
    DEF Found, Moves, SentPCs, JobInv, TypeOK, Answers
<1>5. /\ "storing" \in RunningPCs \ SentPCs /\ "answering" \in RunningPCs \ SentPCs
      /\ "storing" \in SlotPCs /\ "answering" \in SlotPCs
    BY DEF PCs, SlotPCs, SentPCs, RunningPCs
<1>6. answer' = [answer EXCEPT ![d] = answer[d]] /\ r \in Figures \cup {NoFigure}
    BY <1>1, <1>2, <1>3, AsItWas
<1> QED
    BY <1>1, <1>2, <1>4, <1>5, <1>6, AsItWas, QuietStep

\* The answer goes into the channel.
LEMMA SendKeeps ==
    ASSUME JobInv, NEW d \in Dashboards, Send(d)
    PROVE  JobInv'
<1>1. PICK from \in {"answering", "refused"}, to \in {"leaving", "finishing"} :
        /\ Moves(d, from, to)
        /\ from = "answering" <=> to = "leaving"
    BY DEF Send
<1>2. /\ UNCHANGED <<loop, stopping, expired, asked, closed, items, before>>
      /\ UNCHANGED <<wg, answer, sem, stored>> /\ results' = results \cup {d}
    BY DEF Send, OnlyGoroutine, loopVars
<1>3. Found(d)'
    BY <1>1, <1>2, AtWork DEF Found, Moves, SentPCs, JobInv, TypeOK, Answers
<1>4. /\ from \in RunningPCs \ SentPCs /\ to \in PCs \ {"none"} /\ to \in SentPCs
      /\ to \in RunningPCs
      /\ from \in SlotPCs <=> to \in SlotPCs
    BY <1>1 DEF PCs, SlotPCs, SentPCs, RunningPCs
<1>5. Change(from, to, SlotPCs) = 0 /\ Change(from, to, RunningPCs) = 0
    BY <1>4 DEF Change
<1>6. sem \in 0 .. Slots /\ wg \in Nat
    BY DEF JobInv, TypeOK
<1>7. /\ sem' = sem + Change(from, to, SlotPCs) /\ sem' <= Slots
      /\ wg' = wg + Change(from, to, RunningPCs)
    BY <1>2, <1>5, <1>6, JobAssumption
<1>8. /\ answer' = [answer EXCEPT ![d] = answer[d]]
      /\ stored' = [stored EXCEPT ![d] = stored[d]]
    BY <1>2, AsItWas
<1> QED
    BY <1>1, <1>2, <1>3, <1>4, <1>7, <1>8, AsItWas, GoroutineStep

\* The slot is free for another.
LEMMA ReleaseKeeps ==
    ASSUME JobInv, NEW d \in Dashboards, Release(d)
    PROVE  JobInv'
<1>1. /\ Moves(d, "leaving", "finishing") /\ sem' = sem - 1 /\ sem > 0
      /\ UNCHANGED <<loop, stopping, expired, asked, closed, items, before>>
      /\ UNCHANGED <<wg, answer, results, stored>>
    BY DEF Release, OnlyGoroutine, loopVars
<1>2. Found(d)'
    BY <1>1, AtWork DEF Found, Moves, SentPCs, JobInv, TypeOK
<1>3. /\ Change("leaving", "finishing", SlotPCs) = 0 - 1
      /\ Change("leaving", "finishing", RunningPCs) = 0
    BY DEF Change, RunningPCs, PCs, SlotPCs
<1>4. sem \in 0 .. Slots /\ wg \in Nat
    BY DEF JobInv, TypeOK
<1>5. /\ sem' = sem + Change("leaving", "finishing", SlotPCs) /\ sem' <= Slots
      /\ wg' = wg + Change("leaving", "finishing", RunningPCs)
    BY <1>1, <1>3, <1>4, JobAssumption
<1>6. /\ "leaving" \in RunningPCs /\ "leaving" \in SentPCs
      /\ "finishing" \in PCs \ {"none"} /\ "finishing" \in SentPCs
    BY DEF PCs, SlotPCs, SentPCs, RunningPCs
<1>7. /\ answer' = [answer EXCEPT ![d] = answer[d]]
      /\ stored' = [stored EXCEPT ![d] = stored[d]]
    BY <1>1, AsItWas
<1> QED
    BY <1>1, <1>2, <1>5, <1>6, <1>7, AsItWas, GoroutineStep

\* The wait group counts it no more.
LEMMA FinishKeeps ==
    ASSUME JobInv, NEW d \in Dashboards, Finish(d)
    PROVE  JobInv'
<1>1. /\ Moves(d, "finishing", "done") /\ wg' = wg - 1
      /\ UNCHANGED <<loop, stopping, expired, asked, closed, items, before>>
      /\ UNCHANGED <<sem, answer, results, stored>>
    BY DEF Finish, loopVars
<1>2. Found(d)'
    BY <1>1, AtWork DEF Found, Moves, SentPCs, JobInv, TypeOK
<1>3. /\ Change("finishing", "done", SlotPCs) = 0
      /\ Change("finishing", "done", RunningPCs) = 0 - 1
    BY DEF Change, RunningPCs, PCs, SlotPCs
<1>4. sem \in 0 .. Slots /\ wg \in Nat
    BY DEF JobInv, TypeOK
<1>5. /\ sem' = sem + Change("finishing", "done", SlotPCs) /\ sem' <= Slots
      /\ wg' = wg + Change("finishing", "done", RunningPCs)
    BY <1>1, <1>3, <1>4, JobAssumption
<1>6. /\ "finishing" \in RunningPCs /\ "finishing" \in SentPCs
      /\ "done" \in PCs \ {"none"} /\ "done" \in SentPCs
    BY DEF PCs, SlotPCs, SentPCs, RunningPCs
<1>7. /\ answer' = [answer EXCEPT ![d] = answer[d]]
      /\ stored' = [stored EXCEPT ![d] = stored[d]]
    BY <1>1, AsItWas
<1> QED
    BY <1>1, <1>2, <1>5, <1>6, <1>7, AsItWas, GoroutineStep

(***************************************************************************)
(* Preservation: the run and the loop                                      *)
(***************************************************************************)

\* Nothing but the flags of the loop moves.
LEMMA FlagsKeep ==
    ASSUME JobInv, Stop \/ Expire
    PROVE  JobInv'
<1>1. /\ UNCHANGED <<loop, asked, pc, answer, sem, wg, results, closed, items,
                     stored, before>>
      /\ stopping' \in BOOLEAN /\ expired' \in BOOLEAN
    BY DEF Stop, Expire, loopVars, poolVars, JobInv, TypeOK
<1>2. Holders' = Holders /\ Running' = Running
    BY <1>1 DEF Holders, Running
<1>3. TypeOK' /\ Counters'
    BY <1>1, <1>2 DEF JobInv, TypeOK, Counters
<1>4. WithinRun' /\ SentOnce' /\ AllFound'
    BY <1>1 DEF JobInv, WithinRun, SentOnce, AllFound, Found
<1> QED
    BY <1>3, <1>4 DEF JobInv

\* Between runs there are no goroutines.
LEMMA QuietBetweenRuns ==
    ASSUME JobInv, loop \notin {"spawning", "collecting"}
    PROVE  /\ \A d \in Dashboards : pc[d] = "none"
           /\ Holders = {} /\ Running = {} /\ sem = 0 /\ wg = 0
<1>1. \A d \in Dashboards : pc[d] = "none"
    BY DEF JobInv, WithinRun
<1>2. Holders = {} /\ Running = {}
    BY <1>1 DEF Holders, Running, SlotPCs
<1> QED
    BY <1>1, <1>2, FS_EmptySet DEF JobInv, Counters

\* The loop moves on between runs, or a run lists nothing.
LEMMA LoopKeeps ==
    ASSUME JobInv, LoopStops \/ Tick \/ ListFails
    PROVE  JobInv'
<1>1. /\ UNCHANGED <<stopping, asked, pc, answer, sem, wg, results, closed, items,
                     stored>>
      /\ expired' \in BOOLEAN /\ loop \in {"idle", "listing"}
      /\ loop' \in {"idle", "listing", "stopped"}
      /\ before' \in {before, stored}
      /\ loop' = "listing" => before' = stored
    BY DEF LoopStops, Tick, ListFails, poolVars, JobInv, TypeOK
<1>2. Holders' = Holders /\ Running' = Running
    BY <1>1 DEF Holders, Running
<1>3. TypeOK' /\ Counters'
    BY <1>1, <1>2 DEF JobInv, TypeOK, Counters, LoopPCs
<1>4. WithinRun' /\ SentOnce'
    BY <1>1 DEF JobInv, WithinRun, SentOnce
<1>5. AllFound'
    BY <1>1, QuietBetweenRuns DEF AllFound, Found, SentPCs, RunPCs
<1> QED
    BY <1>3, <1>4, <1>5 DEF JobInv

\* A run makes its semaphore, its wait group and its channel.
LEMMA ListKeeps ==
    ASSUME JobInv, NEW D \in SUBSET Dashboards, List(D)
    PROVE  JobInv'
<1>1. /\ loop = "listing" /\ loop' = "spawning" /\ asked' = D
      /\ sem' = 0 /\ wg' = 0 /\ results' = {} /\ closed' = FALSE
      /\ UNCHANGED <<stopping, expired, pc, answer, items, stored, before>>
    BY DEF List
<1>2. /\ \A d \in Dashboards : pc[d] = "none"
      /\ Holders = {} /\ Running = {} /\ items = {} /\ results = {}
    BY <1>1, QuietBetweenRuns DEF JobInv, WithinRun
<1>3. Holders' = {} /\ Running' = {}
    BY <1>1, <1>2 DEF Holders, Running
<1>4. TypeOK' /\ Counters'
    BY <1>1, <1>2, <1>3, FS_EmptySet, JobAssumption
    DEF JobInv, TypeOK, Counters, LoopPCs
<1>5. WithinRun' /\ SentOnce'
    BY <1>1, <1>2 DEF JobInv, WithinRun, SentOnce, SentPCs
<1>6. AllFound'
    BY <1>1 DEF JobInv, AllFound, Found, RunPCs
<1> QED
    BY <1>4, <1>5, <1>6 DEF JobInv

\* A goroutine starts.
LEMMA SpawnKeeps ==
    ASSUME JobInv, NEW d \in Dashboards, Spawn(d)
    PROVE  JobInv'
<1>1. /\ loop = "spawning" /\ d \in asked /\ pc[d] = "none" /\ wg' = wg + 1
      /\ pc' = [pc EXCEPT ![d] = "waiting"]
      /\ UNCHANGED <<loop, stopping, expired, asked, answer, sem, results, closed,
                     items, stored, before>>
    BY DEF Spawn, loopVars
<1>2. pc'[d] = "waiting" /\ \A e \in Dashboards \ {d} : pc'[e] = pc[e]
    BY <1>1 DEF JobInv, TypeOK
<1>3. "waiting" \in PCs /\ "waiting" \notin SlotPCs /\ "waiting" \notin SentPCs
      /\ "none" \notin SlotPCs /\ "none" \notin SentPCs
    BY DEF PCs, SlotPCs, SentPCs
<1>4. Counters'
  <2>1. /\ Cardinality(Holders)' = Cardinality(Holders)
        /\ Cardinality(Running)' = Cardinality(Running) + 1
    <3>1. /\ Cardinality(Holders)' = Cardinality(Holders)
               + (IF "waiting" \in SlotPCs THEN 1 ELSE 0)
               - (IF pc[d] \in SlotPCs THEN 1 ELSE 0)
          /\ Cardinality(Running)' = Cardinality(Running)
               + (IF "waiting" \notin {"none", "done"} THEN 1 ELSE 0)
               - (IF pc[d] \notin {"none", "done"} THEN 1 ELSE 0)
        BY <1>1, <1>3, CountsOfMove DEF JobInv
    <3> QED
        BY <1>1, <1>3, <3>1, FiniteSets
  <2> QED
      BY <1>1, <2>1 DEF JobInv, Counters
<1>5. TypeOK'
    BY <1>1, <1>3 DEF JobInv, TypeOK
<1>6. WithinRun' /\ SentOnce'
    BY <1>1, <1>2, <1>3 DEF JobInv, WithinRun, SentOnce
<1>7. AllFound'
  <2>1. ASSUME NEW e \in Dashboards PROVE Found(e)'
    <3>1. Found(e)
        BY <1>1 DEF JobInv, AllFound, RunPCs
    <3>2. CASE e = d
        BY <1>1, <1>2, <1>3, <3>1, <3>2 DEF Found, SentPCs
    <3>3. CASE e # d
        BY <1>1, <1>2, <3>1, <3>3 DEF Found
    <3> QED
        BY <3>2, <3>3
  <2> QED
      BY <2>1 DEF AllFound
<1> QED
    BY <1>4, <1>5, <1>6, <1>7 DEF JobInv

\* Nobody is in a goroutine when the wait group is empty.
LEMMA NobodyRuns ==
    ASSUME JobInv, wg = 0
    PROVE  \A d \in Dashboards : pc[d] \in {"none", "done"}
<1>1. Running = {}
    BY FiniteSets, FS_EmptySet DEF JobInv, Counters
<1> QED
    BY <1>1 DEF Running

\* The run waits for answers, and for its channel to be closed.
LEMMA CollectingKeeps ==
    ASSUME JobInv, SpawnCloser \/ CloseResults
    PROVE  JobInv'
<1>1. /\ UNCHANGED <<stopping, expired, asked, pc, answer, sem, wg, results, items,
                     stored, before>>
      /\ loop \in {"spawning", "collecting"} /\ loop' = "collecting"
      /\ \A d \in asked : pc[d] # "none"
    BY DEF SpawnCloser, CloseResults, loopVars, poolVars, JobInv, WithinRun
<1>2. closed' \in BOOLEAN /\ closed' => \A d \in asked : pc[d] = "done"
  <2>1. CASE SpawnCloser
      BY <2>1 DEF SpawnCloser, JobInv, TypeOK, WithinRun
  <2>2. CASE CloseResults
    <3>1. \A d \in Dashboards : pc[d] \in {"none", "done"}
        BY <2>2, NobodyRuns DEF CloseResults
    <3> QED
        BY <1>1, <2>2, <3>1 DEF CloseResults, JobInv, TypeOK
  <2> QED
      BY <2>1, <2>2
<1>3. Holders' = Holders /\ Running' = Running
    BY <1>1 DEF Holders, Running
<1>4. closed' \in BOOLEAN
    BY DEF SpawnCloser, CloseResults, JobInv, TypeOK
<1>5. TypeOK' /\ Counters'
    BY <1>1, <1>3, <1>4 DEF JobInv, TypeOK, Counters, LoopPCs
<1>6. WithinRun' /\ SentOnce'
    BY <1>1, <1>2, <1>4 DEF JobInv, WithinRun, SentOnce
<1>7. AllFound'
    BY <1>1 DEF JobInv, AllFound, Found, RunPCs
<1> QED
    BY <1>5, <1>6, <1>7 DEF JobInv

\* An answer leaves the channel.
LEMMA ReceiveKeeps ==
    ASSUME JobInv, NEW d \in Dashboards, Receive(d)
    PROVE  JobInv'
<1>1. /\ loop = "collecting" /\ d \in results
      /\ results' = results \ {d} /\ items' = items \cup {d}
      /\ UNCHANGED <<loop, stopping, expired, asked, pc, answer, sem, wg, closed,
                     stored, before>>
    BY DEF Receive, loopVars
<1>2. Holders' = Holders /\ Running' = Running
    BY <1>1 DEF Holders, Running
<1>3. TypeOK' /\ Counters'
    BY <1>1, <1>2 DEF JobInv, TypeOK, Counters
<1>4. WithinRun' /\ SentOnce'
    BY <1>1 DEF JobInv, WithinRun, SentOnce
<1>5. AllFound'
    BY <1>1 DEF JobInv, AllFound, Found
<1> QED
    BY <1>3, <1>4, <1>5 DEF JobInv

\* The run is over, and its goroutines have been.
LEMMA RunEndsKeeps ==
    ASSUME JobInv, RunEnds
    PROVE  JobInv'
<1>1. /\ loop = "collecting" /\ closed /\ results = {} /\ loop' = "idle"
      /\ asked' = {} /\ items' = {} /\ closed' = FALSE
      /\ pc' = NoGoroutines /\ answer' = NoFigures
      /\ UNCHANGED <<stopping, expired, sem, wg, results, stored, before>>
    BY DEF RunEnds
<1>2. \A d \in Dashboards : pc[d] \in {"none", "done"}
    BY <1>1 DEF JobInv, WithinRun
<1>3. Holders = {} /\ Running = {}
    BY <1>2 DEF Holders, Running, SlotPCs
<1>4. Holders' = {} /\ Running' = {}
    BY <1>1 DEF Holders, Running, NoGoroutines, SlotPCs
<1>5. TypeOK'
    BY <1>1 DEF JobInv, TypeOK, LoopPCs, NoGoroutines, NoFigures, PCs
<1>6. Counters'
    BY <1>1, <1>3, <1>4 DEF JobInv, Counters
<1>7. WithinRun' /\ SentOnce' /\ AllFound'
    BY <1>1 DEF WithinRun, SentOnce, AllFound, NoGoroutines, SentPCs, RunPCs
<1> QED
    BY <1>5, <1>6, <1>7 DEF JobInv

(***************************************************************************)
(* The invariant holds                                                     *)
(***************************************************************************)

LEMMA InitJob == Init => JobInv
<1> SUFFICES ASSUME Init PROVE JobInv
    OBVIOUS
<1>1. Holders = {} /\ Running = {}
    BY DEF Init, Holders, Running, NoGoroutines, SlotPCs
<1>2. TypeOK
  <2>1. /\ pc \in [Dashboards -> PCs]
        /\ answer \in [Dashboards -> Answers \cup {NoFigure}]
        /\ stored \in [Dashboards -> Figures \cup {NoFigure}]
        /\ before \in [Dashboards -> Figures \cup {NoFigure}]
      BY DEF Init, NoGoroutines, NoFigures, PCs
  <2>2. sem \in 0 .. Slots /\ wg \in Nat
      BY JobAssumption DEF Init
  <2>3. loop \in LoopPCs /\ {stopping, expired, closed} \subseteq BOOLEAN
      BY DEF Init, LoopPCs
  <2> QED
      BY <2>1, <2>2, <2>3 DEF Init, TypeOK
<1>3. Counters
    BY <1>1, FS_EmptySet DEF Init, Counters
<1>4. WithinRun /\ SentOnce /\ AllFound
    BY DEF Init, WithinRun, SentOnce, AllFound, Found, NoGoroutines, NoFigures, SentPCs
<1> QED
    BY <1>2, <1>3, <1>4 DEF JobInv

LEMMA NextJob == JobInv /\ [Next]_vars => JobInv'
<1> SUFFICES ASSUME JobInv, [Next]_vars PROVE JobInv'
    OBVIOUS
<1>1. CASE Stop \/ Expire
    BY <1>1, FlagsKeep
<1>2. CASE LoopStops \/ Tick
    BY <1>2, LoopKeeps
<1>3. CASE RunGoesOn
    BY <1>3, LoopKeeps, ListKeeps, SpawnKeeps, CollectingKeeps, ReceiveKeeps,
       RunEndsKeeps DEF RunGoesOn
<1>4. CASE CloseResults
    BY <1>4, CollectingKeeps
<1>5. CASE \E d \in Dashboards : GoroutineGoesOn(d)
  <2>1. PICK d \in Dashboards : GoroutineGoesOn(d)
      BY <1>5
  <2> QED
      BY <2>1, AcquireKeeps, RefuseKeeps, FetchedKeeps, PauseKeeps, GivesUpKeeps,
         StoreKeeps, SendKeeps, ReleaseKeeps, FinishKeeps DEF GoroutineGoesOn
<1>6. CASE UNCHANGED vars
  <2>1. Holders' = Holders /\ Running' = Running
      BY <1>6 DEF vars, poolVars, Holders, Running
  <2> QED
      BY <1>6, <2>1 DEF vars, poolVars, JobInv, TypeOK, Counters, WithinRun, SentOnce,
                        AllFound, Found
<1> QED
    BY <1>1, <1>2, <1>3, <1>4, <1>5, <1>6 DEF Next

LEMMA JobAlways == Spec => []JobInv
BY InitJob, NextJob, PTL DEF Spec

(***************************************************************************)
(* Theorems                                                                *)
(***************************************************************************)

\* Every variable of the job has its type; in particular the semaphore never
\* holds more than maxConcurrentFetches tokens and the wait group's counter,
\* which panics below zero, never gets there.
THEOREM JobTyped == Spec => []TypeOK
BY JobAlways, PTL DEF JobInv

\* However many dashboards there are, no more than maxConcurrentFetches of
\* their goroutines talk to Utmify or to PostgreSQL at once.
THEOREM SlotsSuffice == Spec => []WithinSlots
<1>1. JobInv => WithinSlots
  <2> SUFFICES ASSUME JobInv PROVE WithinSlots
      OBVIOUS
  <2> DEFINE Busy == {d \in Dashboards : pc[d] \in BusyPCs}
  <2>1. Busy \subseteq Holders
      BY DEF Holders, BusyPCs, SlotPCs
  <2>2. Cardinality(Busy) <= Cardinality(Holders) /\ Cardinality(Busy) \in Nat
      BY <2>1, FiniteSets, FS_Subset, FS_CardinalityType
  <2>3. Cardinality(Holders) \in 0 .. Slots
      BY DEF JobInv, TypeOK, Counters
  <2>4. Cardinality(Busy) <= Slots
      BY <2>2, <2>3, JobAssumption
  <2> QED
      BY <2>4 DEF WithinSlots
<1> QED
    BY <1>1, JobAlways, PTL

\* The results channel is closed after the last goroutine is done, so that
\* none sends on a closed channel and none outlives its run.
THEOREM QuietWhenClosed == Spec => []ClosedWhenQuiet
<1>1. JobInv => ClosedWhenQuiet
    BY DEF JobInv, WithinRun, ClosedWhenQuiet
<1> QED
    BY <1>1, JobAlways, PTL

\* What a run reports of a dashboard agrees with the row it left.
THEOREM RowsMatchAnswers == Spec => []AnswersMatchRows
<1>1. JobInv => AnswersMatchRows
  <2> SUFFICES ASSUME JobInv, NEW d \in items
               PROVE  IF answer[d] = Failed THEN stored[d] = before[d]
                      ELSE stored[d] \in {answer[d], before[d]}
      BY DEF AnswersMatchRows
  <2>1. d \in Dashboards /\ pc[d] \in SentPCs
      BY DEF JobInv, TypeOK, SentOnce
  <2>2. Found(d)
      BY <2>1, AtWork DEF SentPCs
  <2> QED
      BY <2>1, <2>2 DEF Found
<1> QED
    BY <1>1, JobAlways, PTL

(***************************************************************************)
(* The job implements the abstract rounds                                  *)
(***************************************************************************)

Phase == CASE loop = "idle" -> "resting"
           [] loop = "stopped" -> "stopped"
           [] OTHER -> "asking"

Collected == [d \in items |-> answer[d]]

\* Between runs nothing is asked and nothing is answered.
LEMMA NothingCollected ==
    ASSUME JobInv, loop \notin {"spawning", "collecting"}
    PROVE  asked = {} /\ items = {} /\ Collected = Abstract!Nothing
<1>1. asked = {} /\ items = {}
    BY DEF JobInv, WithinRun
<1> QED
    BY <1>1 DEF Collected, Abstract!Nothing

\* A step that changes neither the run nor a received answer is none of the
\* abstract rounds.
LEMMA Stutters ==
    ASSUME UNCHANGED <<asked, items>>, Phase' = Phase,
           \A d \in items : answer'[d] = answer[d]
    PROVE  UNCHANGED Abstract!roundVars
<1>1. Collected' = Collected
    BY DEF Collected
<1> QED
    BY <1>1 DEF Abstract!roundVars, Collected, Phase

\* A goroutine changes no answer that was received.
LEMMA GoroutineStutters ==
    ASSUME JobInv, NEW d \in Dashboards, GoroutineGoesOn(d)
    PROVE  UNCHANGED Abstract!roundVars
<1>1. UNCHANGED <<loop, asked, items>>
    BY DEF GoroutineGoesOn, Acquire, Refuse, Fetched, FetchFails, PauseEnds, GivesUp,
           Store, Send, Release, Finish, OnlyGoroutine, loopVars
<1>2. answer' = answer \/ \E a : answer' = [answer EXCEPT ![d] = a] /\ pc[d] \notin SentPCs
    BY DEF GoroutineGoesOn, Acquire, Refuse, Fetched, FetchFails, PauseEnds, GivesUp,
           Store, Send, Release, Finish, OnlyGoroutine, Moves, SentPCs
<1>3. \A e \in items : e \in Dashboards /\ pc[e] \in SentPCs
    BY DEF JobInv, TypeOK, SentOnce
<1>4. \A e \in items : answer'[e] = answer[e]
    BY <1>2, <1>3 DEF JobInv, TypeOK
<1>5. Phase' = Phase
    BY <1>1 DEF Phase
<1> QED
    BY <1>1, <1>4, <1>5, Stutters

\* An answer received is an answer given.
LEMMA ReceiveAnswers ==
    ASSUME JobInv, NEW d \in Dashboards, Receive(d)
    PROVE  Abstract!Answer(d, answer[d]) /\ answer[d] \in Answers
<1>1. /\ loop = "collecting" /\ d \in results /\ items' = items \cup {d}
      /\ UNCHANGED <<loop, asked, answer>>
    BY DEF Receive, loopVars
<1>2. d \in asked \ items /\ pc[d] \in SentPCs
    BY <1>1 DEF JobInv, TypeOK, SentOnce
<1>3. answer[d] \in Answers
    BY <1>2, AtWork DEF Found, SentPCs
<1>4. Collected' = [e \in DOMAIN Collected \cup {d} |->
                        IF e = d THEN answer[d] ELSE Collected[e]]
    BY <1>1 DEF Collected
<1>5. Phase = "asking" /\ Phase' = Phase
    BY <1>1 DEF Phase
<1>6. DOMAIN Collected = items
    BY DEF Collected
<1> QED
    BY <1>1, <1>2, <1>3, <1>4, <1>5, <1>6 DEF Abstract!Answer, Collected, Phase

\* A run ends when every dashboard has its answer.
LEMMA EndsAnswered ==
    ASSUME JobInv, RunEnds \/ ListFails, JobInv'
    PROVE  Abstract!RoundEnds
<1>1. /\ Phase = "asking" /\ Phase' = "resting" /\ loop' = "idle"
    BY DEF RunEnds, ListFails, Phase
<1>2. asked' = {} /\ Collected' = Abstract!Nothing
  <2>1. asked' = {} /\ items' = {}
      BY <1>1 DEF JobInv, WithinRun
  <2> QED
      BY <2>1 DEF Collected, Abstract!Nothing
<1>3. items = asked
  <2>1. CASE ListFails
      BY <2>1, NothingCollected DEF ListFails
  <2>2. CASE RunEnds
      BY <2>2 DEF RunEnds, JobInv, TypeOK, WithinRun, SentOnce, SentPCs
  <2> QED
      BY <2>1, <2>2
<1> QED
    BY <1>1, <1>2, <1>3 DEF Abstract!RoundEnds, Collected, Phase, Abstract!Nothing

\* Every step of the job is a step of the abstract rounds, or none.
LEMMA StepsRefine ==
    ASSUME JobInv, JobInv', [Next]_vars
    PROVE  [Abstract!RoundNext]_(Abstract!roundVars)
<1>1. CASE Stop \/ Expire \/ SpawnCloser \/ CloseResults \/ UNCHANGED vars
  <2>1. UNCHANGED <<asked, items, answer>> /\ Phase' = Phase
      BY <1>1 DEF Stop, Expire, SpawnCloser, CloseResults, vars, loopVars, poolVars,
                  Phase, RunPCs
  <2> QED
      BY <2>1, Stutters
<1>2. CASE \E d \in Dashboards : Spawn(d)
  <2>1. UNCHANGED <<asked, items, answer, loop>>
      BY <1>2 DEF Spawn, loopVars
  <2> QED
      BY <2>1, Stutters DEF Phase
<1>3. CASE LoopStops \/ Tick
  <2>1. /\ Phase = "resting" /\ Phase' \in {"stopped", "asking"}
        /\ UNCHANGED <<asked, items, answer>>
      BY <1>3 DEF LoopStops, Tick, Phase, poolVars
  <2>2. Collected' = Collected
      BY <2>1 DEF Collected
  <2>3. Abstract!RoundsStop \/ Abstract!RoundBegins
      BY <2>1, <2>2 DEF Abstract!RoundsStop, Abstract!RoundBegins, Phase, Collected
  <2> QED
      BY <2>3 DEF Abstract!RoundNext
<1>4. CASE \E D \in SUBSET Dashboards : List(D)
  <2>1. PICK D \in SUBSET Dashboards : List(D)
      BY <1>4
  <2>2. /\ Phase = "asking" /\ Phase' = Phase /\ asked' = D
        /\ UNCHANGED <<items, answer>>
      BY <2>1 DEF List, Phase
  <2>3. asked = {} /\ Collected' = Collected
      BY <2>1, <2>2, NothingCollected DEF List, Collected
  <2>4. Abstract!Ask(D)
      BY <2>2, <2>3 DEF Abstract!Ask, Phase, Collected
  <2> QED
      BY <2>4 DEF Abstract!RoundNext
<1>5. CASE \E d \in Dashboards : Receive(d)
  <2>1. PICK d \in Dashboards : Receive(d)
      BY <1>5
  <2>2. Abstract!Answer(d, answer[d]) /\ answer[d] \in Answers
      BY <2>1, ReceiveAnswers
  <2>3. \E e \in Dashboards, a \in Answers : Abstract!Answer(e, a)
      BY <2>2 DEF Abstract!Answer
  <2> QED
      BY <2>3 DEF Abstract!RoundNext
<1>6. CASE RunEnds \/ ListFails
    BY <1>6, EndsAnswered DEF Abstract!RoundNext
<1>7. CASE \E d \in Dashboards : GoroutineGoesOn(d)
    BY <1>7, GoroutineStutters
<1> QED
    BY <1>1, <1>2, <1>3, <1>4, <1>5, <1>6, <1>7 DEF Next, RunGoesOn

\* The job implements the abstract rounds: one answer per dashboard and run,
\* none changed once received, no run over before all are, and nothing after
\* the loop has stopped.
THEOREM JobIsRounds == Spec => ImplementsRounds
<1>1. Init => Abstract!RoundInit
  <2> SUFFICES ASSUME Init PROVE Abstract!RoundInit
      OBVIOUS
  <2>1. Phase = "asking" /\ asked = {} /\ items = {}
      BY DEF Init, Phase
  <2>2. Collected = Abstract!Nothing
      BY <2>1 DEF Collected, Abstract!Nothing
  <2> QED
      BY <2>1, <2>2 DEF Abstract!RoundInit, Phase, Collected
<1>2. JobInv /\ JobInv' /\ [Next]_vars => [Abstract!RoundNext]_(Abstract!roundVars)
    BY StepsRefine
<1> QED
    BY <1>1, <1>2, JobAlways, PTL DEF Spec, ImplementsRounds, Abstract!Rounds

(***************************************************************************)
(* AdObjects: the inductive invariant                                      *)
(***************************************************************************)

\* None, or what was listed in one of the batches.
IsEntry(entry) == entry = NoFigure \/ entry.batch \in Nat

\* The tables, and who may be where.  What is stored is never ahead of Utmify.
AdsTyped ==
    /\ adRun \in 0 .. Len(AdLevels)
    /\ adPc \in [AdDashboards -> {"none", "queued", "fetching", "storing", "caching", "done"}]
    /\ adBatch \in 1 .. Len(Batches)
    /\ adGot = [d \in AdDashboards |-> adGot[d]]
    /\ adRows = [k \in Ads!Snapshots |-> adRows[k]]
    /\ adRedis = [k \in Ads!Snapshots |-> adRedis[k]]
    /\ \A k \in Ads!Snapshots : IsEntry(adRows[k]) /\ IsEntry(adRedis[k])
          /\ Ads!BatchOf(adRows[k]) <= adBatch

\* What a goroutine has fetched is not behind the row it is about to write, and
\* it is the only one that writes it.
Ahead(d) ==
    /\ adPc[d] \notin {"none", "done"} => adRun # 0
    /\ adPc[d] \in {"storing", "caching"} => adGot[d] \in 1 .. adBatch
    /\ adPc[d] = "storing" => Ads!BatchOf(adRows[<<d, adRun>>]) <= adGot[d]

RequestType ==
    [pc : {"none", "next", "row", "redis", "live"}, level : Nat, todo : SUBSET AdDashboards,
     at : AdDashboards \cup {NoFigure}, shown : SUBSET (AdDashboards \X Nat),
     known : [AdDashboards -> Nat], excused : SUBSET AdDashboards]

\* What a request knows has not gone back, and it looks further only where it
\* knows nothing, or where its query failed.
Reading ==
    /\ adRequest \in RequestType
    /\ adRequest.pc # "none" =>
          /\ adRequest.level \in 1 .. Len(AdLevels)
          /\ \A d \in AdDashboards : adRequest.known[d] <= Ads!BatchOf(adRows[<<d, adRequest.level>>])
    /\ adRequest.pc \in {"row", "redis", "live"} => adRequest.at \in AdDashboards
    /\ adRequest.pc \in {"redis", "live"} =>
          adRequest.at \in adRequest.excused \/ adRequest.known[adRequest.at] = 0

AdsInv ==
    /\ AdsTyped
    /\ \A d \in AdDashboards : Ahead(d)
    /\ Reading
    /\ Ads!NeverBehindTheRow

LEMMA BatchFacts ==
    /\ Ads!BatchOf(NoFigure) = 0
    /\ \A e : e # NoFigure => Ads!BatchOf(e) = e.batch
    /\ \A e : IsEntry(e) => Ads!BatchOf(e) \in Nat
    BY DEF Ads!BatchOf, IsEntry

LEMMA KeyIn ==
    ASSUME NEW d \in AdDashboards, NEW l \in 1 .. Len(AdLevels)
    PROVE  <<d, l>> \in Ads!Snapshots
    BY DEF Ads!Snapshots

\* What is listed of a batch is an entry of that batch.
LEMMA ListedFacts ==
    ASSUME NEW n \in 1 .. Len(Batches),
           NEW e \in {Ads!Listed(n, Batches[n]), Ads!Listed(n, Ads!deduplicateAdObjects(Batches[n]))}
    PROVE  e # NoFigure /\ e.batch = n /\ IsEntry(e) /\ Ads!BatchOf(e) = n
<1>1. e # NoFigure
    BY AdsAssumption
<1>2. e.batch = n
    BY DEF Ads!Listed
<1> QED
    BY <1>1, <1>2 DEF IsEntry, Ads!BatchOf

LEMMA InitAds == Ads!Init => AdsInv
<1> SUFFICES ASSUME Ads!Init PROVE AdsInv
    OBVIOUS
<1>1. AdsTyped
  <2>1. \A k \in Ads!Snapshots : adRows[k] = NoFigure /\ adRedis[k] = NoFigure
      BY DEF Ads!Init
  <2>2. \A k \in Ads!Snapshots : IsEntry(adRows[k]) /\ IsEntry(adRedis[k])
           /\ Ads!BatchOf(adRows[k]) = 0
      BY <2>1 DEF IsEntry, Ads!BatchOf
  <2>3. adBatch = 1 /\ 1 \in 1 .. Len(Batches) /\ 0 \in 0 .. Len(AdLevels)
      BY AdsAssumption DEF Ads!Init
  <2> QED
      BY <2>2, <2>3 DEF Ads!Init, AdsTyped
<1>2. ASSUME NEW d \in AdDashboards PROVE Ahead(d)
    BY DEF Ads!Init, Ahead
<1>3. Reading /\ Ads!NeverBehindTheRow
  <2>1. adRequest = Ads!NoRequest
      BY DEF Ads!Init
  <2> QED
      BY <2>1 DEF Ads!NoRequest, Reading, RequestType, Ads!NeverBehindTheRow
<1> QED
    BY <1>1, <1>2, <1>3 DEF AdsInv

\* A row that is not behind the one before it takes nothing away from a request.
LEMMA ReadingKept ==
    ASSUME AdsInv, adRequest' = adRequest,
           \A k \in Ads!Snapshots : Ads!BatchOf(adRows[k]) <= Ads!BatchOf(adRows'[k]),
           \A k \in Ads!Snapshots : IsEntry(adRows'[k])
    PROVE  Reading' /\ Ads!NeverBehindTheRow'
<1>1. Reading /\ Ads!NeverBehindTheRow
    BY DEF AdsInv
<1>2. ASSUME adRequest.pc # "none", NEW d \in AdDashboards
      PROVE  adRequest.known[d] <= Ads!BatchOf(adRows'[<<d, adRequest.level>>])
  <2> DEFINE k == <<d, adRequest.level>>
  <2>1. k \in Ads!Snapshots
      BY <1>1, <1>2 DEF Reading, Ads!Snapshots
  <2>2. adRequest.known[d] <= Ads!BatchOf(adRows[k]) /\ adRequest.known[d] \in Nat
      BY <1>1, <1>2 DEF Reading, RequestType
  <2>3. Ads!BatchOf(adRows[k]) \in Nat /\ Ads!BatchOf(adRows'[k]) \in Nat
      BY <2>1, BatchFacts DEF AdsInv, AdsTyped
  <2>4. Ads!BatchOf(adRows[k]) <= Ads!BatchOf(adRows'[k])
      BY <2>1
  <2> HIDE DEF k
  <2>5. adRequest.known[d] <= Ads!BatchOf(adRows'[k])
      BY <2>2, <2>3, <2>4
  <2> QED
      BY <2>5 DEF k
<1>3. Reading'
    BY <1>1, <1>2 DEF Reading
<1>4. Ads!NeverBehindTheRow'
    BY <1>1 DEF Ads!NeverBehindTheRow
<1> QED
    BY <1>3, <1>4

\* Nothing is stored, and nobody reads.
LEMMA QuietAds ==
    ASSUME AdsInv, AdsTyped', \A d \in AdDashboards : Ahead(d)', adRows' = adRows,
           adRequest' = adRequest
    PROVE  AdsInv'
<1>1. \A k \in Ads!Snapshots : IsEntry(adRows[k]) /\ Ads!BatchOf(adRows[k]) \in Nat
    BY BatchFacts DEF AdsInv, AdsTyped
<1>2. \A k \in Ads!Snapshots : Ads!BatchOf(adRows[k]) <= Ads!BatchOf(adRows'[k])
         /\ IsEntry(adRows'[k])
    BY <1>1
<1>3. Reading' /\ Ads!NeverBehindTheRow'
    BY <1>2, ReadingKept
<1> QED
    BY <1>3 DEF AdsInv

\* A goroutine moves; the others are where they were.
LEMMA MoveAds ==
    ASSUME AdsInv, NEW d \in AdDashboards, NEW from, NEW to, Ads!Moves(d, from, to)
    PROVE  adPc[d] = from /\ adPc'[d] = to
              /\ \A e \in AdDashboards : e # d => adPc'[e] = adPc[e]
    BY DEF Ads!Moves, AdsInv, AdsTyped

\* Who does not move, and whose rows stay, is as far ahead as before.
LEMMA StillAhead ==
    ASSUME AdsInv, NEW e \in AdDashboards, adPc'[e] = adPc[e], adGot'[e] = adGot[e],
           adRun' = adRun,
           adBatch' \in Nat, adBatch <= adBatch', adRows'[<<e, adRun>>] = adRows[<<e, adRun>>]
    PROVE  Ahead(e)'
<1>1. Ahead(e) /\ adBatch \in Nat
    BY DEF AdsInv, AdsTyped
<1> QED
    BY <1>1 DEF Ahead

\* Who holds nothing has nothing to be ahead with.
LEMMA EmptyHanded ==
    ASSUME NEW e \in AdDashboards, adPc'[e] \in {"none", "queued", "fetching", "done"},
           adPc'[e] \notin {"none", "done"} => adRun' # 0
    PROVE  Ahead(e)'
    BY DEF Ahead

Moved(d) == \A e \in AdDashboards : e # d => adPc'[e] = adPc[e] /\ adGot'[e] = adGot[e]

\* A goroutine that stores nothing.
LEMMA WorkAhead ==
    ASSUME AdsInv, NEW d \in AdDashboards, Ahead(d)', Moved(d), adRun' = adRun,
           adBatch' = adBatch,
           AdsTyped', adRows' = adRows, adRequest' = adRequest
    PROVE  AdsInv'
<1>1. \A e \in AdDashboards : e # d => Ahead(e)'
  <2>1. adBatch \in Nat /\ adBatch <= adBatch /\ adBatch' \in Nat
      BY DEF AdsInv, AdsTyped
  <2> QED
      BY <2>1, StillAhead DEF Moved
<1> QED
    BY <1>1, QuietAds

\* Only the place of a goroutine changes.
LEMMA PlaceTyped ==
    ASSUME AdsInv, NEW d \in AdDashboards, NEW from,
           NEW to \in {"none", "queued", "fetching", "storing", "caching", "done"},
           Ads!Moves(d, from, to)
    PROVE  adPc' \in [AdDashboards -> {"none", "queued", "fetching", "storing", "caching", "done"}]
    BY DEF Ads!Moves, AdsInv, AdsTyped

\* Nothing that a goroutine holds or a table has changes.
LEMMA StepsAside ==
    ASSUME AdsInv, NEW d \in AdDashboards, NEW from \in {"queued", "fetching"},
           NEW to \in {"fetching", "done"}, Ads!Moves(d, from, to),
           adRun' = adRun, adGot' = adGot, adRows' = adRows, adRedis' = adRedis,
           adBatch' = adBatch,
           adRequest' = adRequest
    PROVE  AdsInv'
<1>1. adPc[d] = from /\ adPc'[d] = to /\ \A e \in AdDashboards : e # d => adPc'[e] = adPc[e]
    BY MoveAds
<1>2. AdsTyped'
  <2>1. adPc' \in [AdDashboards -> {"none", "queued", "fetching", "storing", "caching", "done"}]
      BY PlaceTyped
  <2> QED
      BY <2>1 DEF AdsInv, AdsTyped
<1>3. adRun # 0
    BY <1>1 DEF AdsInv, Ahead
<1>4. Ahead(d)'
    BY <1>1, <1>3, EmptyHanded
<1>5. Moved(d)
    BY <1>1 DEF Moved
<1> QED
    BY <1>2, <1>4, <1>5, WorkAhead

LEMMA FetchesKeeps ==
    ASSUME AdsInv, NEW d \in AdDashboards, Ads!Fetches(d)
    PROVE  AdsInv'
<1>1. /\ Ads!Moves(d, "fetching", "storing") /\ adGot' = [adGot EXCEPT ![d] = adBatch]
      /\ adRun' = adRun /\ adRows' = adRows /\ adRedis' = adRedis
      /\ adBatch' = adBatch /\ adRequest' = adRequest
    BY DEF Ads!Fetches
<1>2. /\ adPc[d] = "fetching" /\ adPc'[d] = "storing"
      /\ \A e \in AdDashboards : e # d => adPc'[e] = adPc[e]
    BY <1>1, MoveAds
<1>3. /\ adGot' = [e \in AdDashboards |-> adGot'[e]] /\ adGot'[d] = adBatch
      /\ \A e \in AdDashboards : e # d => adGot'[e] = adGot[e]
    BY <1>1 DEF AdsInv, AdsTyped
<1>4. AdsTyped'
  <2>1. adPc' \in [AdDashboards -> {"none", "queued", "fetching", "storing", "caching", "done"}]
      BY <1>1, PlaceTyped
  <2> QED
      BY <1>1, <1>3, <2>1 DEF AdsInv, AdsTyped
<1>5. Ahead(d)'
  <2>1. adRun # 0
      BY <1>2 DEF AdsInv, Ahead
  <2>2. adRun \in 1 .. Len(AdLevels)
      BY <2>1 DEF AdsInv, AdsTyped
  <2>3. Ads!BatchOf(adRows[<<d, adRun>>]) <= adBatch
      BY <2>2, KeyIn DEF AdsInv, AdsTyped
  <2>4. adBatch \in 1 .. adBatch
      BY DEF AdsInv, AdsTyped
  <2> QED
      BY <1>1, <1>2, <1>3, <2>1, <2>3, <2>4 DEF Ahead
<1>6. Moved(d)
    BY <1>2, <1>3 DEF Moved
<1> QED
    BY <1>1, <1>4, <1>5, <1>6, WorkAhead

\* The row of d is written, or stays.
LEMMA RowsGrow ==
    ASSUME AdsInv, NEW d \in AdDashboards, adPc[d] = "storing",
           adRows' \in {adRows, Ads!WithRow(d)}
    PROVE  /\ adRows' = [k \in Ads!Snapshots |-> adRows'[k]]
           /\ \A k \in Ads!Snapshots :
                 /\ IsEntry(adRows'[k]) /\ Ads!BatchOf(adRows[k]) <= Ads!BatchOf(adRows'[k])
                 /\ Ads!BatchOf(adRows'[k]) <= adBatch
           /\ \A e \in AdDashboards : e # d => adRows'[<<e, adRun>>] = adRows[<<e, adRun>>]
<1>1. /\ adRows = [k \in Ads!Snapshots |-> adRows[k]] /\ adBatch \in 1 .. Len(Batches)
      /\ \A k \in Ads!Snapshots : IsEntry(adRows[k]) /\ Ads!BatchOf(adRows[k]) <= adBatch
    BY DEF AdsInv, AdsTyped
<1>2. \A k \in Ads!Snapshots : Ads!BatchOf(adRows[k]) \in Nat
    BY <1>1, BatchFacts
<1>3. CASE adRows' = adRows
    BY <1>1, <1>2, <1>3
<1>4. CASE adRows' = Ads!WithRow(d)
  <2> DEFINE row == Ads!Listed(adGot[d], Ads!deduplicateAdObjects(Batches[adGot[d]]))
  <2>1. /\ adRun # 0 /\ adGot[d] \in 1 .. adBatch
        /\ Ads!BatchOf(adRows[<<d, adRun>>]) <= adGot[d]
      BY DEF AdsInv, Ahead
  <2>2. adGot[d] \in 1 .. Len(Batches) /\ adGot[d] <= adBatch
      BY <1>1, <2>1, AdsAssumption
  <2>3. IsEntry(row) /\ Ads!BatchOf(row) = adGot[d]
      BY <2>2, ListedFacts
  <2>4. adRows' = [adRows EXCEPT ![<<d, adRun>>] = row]
      BY <1>4 DEF Ads!WithRow
  <2> HIDE DEF row
  <2>5. adRows' = [k \in Ads!Snapshots |-> adRows'[k]]
      BY <1>1, <2>4
  <2>6. ASSUME NEW k \in Ads!Snapshots
        PROVE  /\ IsEntry(adRows'[k]) /\ Ads!BatchOf(adRows[k]) <= Ads!BatchOf(adRows'[k])
               /\ Ads!BatchOf(adRows'[k]) <= adBatch
    <3>1. CASE k = <<d, adRun>>
      <4>1. adRows'[k] = row
          BY <1>1, <2>4, <3>1
      <4> QED
          BY <2>1, <2>2, <2>3, <3>1, <4>1
    <3>2. CASE k # <<d, adRun>>
      <4>1. adRows'[k] = adRows[k]
          BY <1>1, <2>4, <3>2
      <4> QED
          BY <1>1, <1>2, <4>1
    <3> QED
        BY <3>1, <3>2
  <2>7. ASSUME NEW e \in AdDashboards, e # d PROVE adRows'[<<e, adRun>>] = adRows[<<e, adRun>>]
    <3>1. adRun \in 1 .. Len(AdLevels)
        BY <2>1 DEF AdsInv, AdsTyped
    <3>2. <<e, adRun>> \in Ads!Snapshots /\ <<e, adRun>> # <<d, adRun>>
        BY <2>7, <3>1, KeyIn
    <3> QED
        BY <1>1, <2>4, <3>2
  <2> QED
      BY <2>5, <2>6, <2>7
<1> QED
    BY <1>3, <1>4

LEMMA StoringKeeps ==
    ASSUME AdsInv, NEW d \in AdDashboards, Ads!Stores(d) \/ Ads!StoreFails(d)
    PROVE  AdsInv'
<1>1. /\ Ads!Moves(d, "storing", "caching") /\ adRows' \in {adRows, Ads!WithRow(d)}
      /\ adRun' = adRun /\ adGot' = adGot /\ adRedis' = adRedis /\ adBatch' = adBatch
      /\ adRequest' = adRequest
    BY DEF Ads!Stores, Ads!StoreFails
<1>2. /\ adPc[d] = "storing" /\ adPc'[d] = "caching"
      /\ \A e \in AdDashboards : e # d => adPc'[e] = adPc[e]
    BY <1>1, MoveAds
<1>3. /\ adRows' = [k \in Ads!Snapshots |-> adRows'[k]]
      /\ \A k \in Ads!Snapshots :
            /\ IsEntry(adRows'[k]) /\ Ads!BatchOf(adRows[k]) <= Ads!BatchOf(adRows'[k])
            /\ Ads!BatchOf(adRows'[k]) <= adBatch
      /\ \A e \in AdDashboards : e # d => adRows'[<<e, adRun>>] = adRows[<<e, adRun>>]
    BY <1>1, <1>2, RowsGrow
<1>4. AdsTyped'
  <2>1. adPc' \in [AdDashboards -> {"none", "queued", "fetching", "storing", "caching", "done"}]
      BY <1>1, PlaceTyped
  <2> QED
      BY <1>1, <1>3, <2>1 DEF AdsInv, AdsTyped
<1>5. Ahead(d)'
    BY <1>1, <1>2 DEF AdsInv, Ahead
<1>6. \A e \in AdDashboards : e # d => Ahead(e)'
  <2>1. adBatch \in Nat /\ adBatch <= adBatch /\ adBatch' \in Nat
      BY <1>1 DEF AdsInv, AdsTyped
  <2> QED
      BY <1>1, <1>2, <1>3, <2>1, StillAhead
<1>7. Reading' /\ Ads!NeverBehindTheRow'
    BY <1>1, <1>3, ReadingKept
<1> QED
    BY <1>4, <1>5, <1>6, <1>7 DEF AdsInv

LEMMA CachingKeeps ==
    ASSUME AdsInv, NEW d \in AdDashboards, Ads!Caches(d) \/ Ads!CacheFails(d)
    PROVE  AdsInv'
<1> DEFINE key == Ads!Listed(adGot[d], Batches[adGot[d]])
<1>1. /\ Ads!Moves(d, "caching", "done") /\ adGot' = [adGot EXCEPT ![d] = NoFigure]
      /\ adRedis' = adRedis \/ adRedis' = [adRedis EXCEPT ![<<d, adRun>>] = key]
      /\ adRun' = adRun /\ adRows' = adRows /\ adBatch' = adBatch /\ adRequest' = adRequest
    BY DEF Ads!Caches, Ads!CacheFails
<1>2. /\ adPc[d] = "caching" /\ adPc'[d] = "done"
      /\ \A e \in AdDashboards : e # d => adPc'[e] = adPc[e]
    BY <1>1, MoveAds
<1>3. /\ adGot' = [e \in AdDashboards |-> adGot'[e]]
      /\ \A e \in AdDashboards : e # d => adGot'[e] = adGot[e]
    BY <1>1 DEF AdsInv, AdsTyped
<1>4. IsEntry(key)
  <2>1. adGot[d] \in 1 .. adBatch /\ adBatch \in 1 .. Len(Batches)
      BY <1>2 DEF AdsInv, AdsTyped, Ahead
  <2>2. adGot[d] \in 1 .. Len(Batches)
      BY <2>1, AdsAssumption
  <2> QED
      BY <2>2, ListedFacts
<1> HIDE DEF key
<1>5. adRedis' = [k \in Ads!Snapshots |-> adRedis'[k]]
         /\ \A k \in Ads!Snapshots : IsEntry(adRedis'[k])
  <2>1. adRedis = [k \in Ads!Snapshots |-> adRedis[k]]
           /\ \A k \in Ads!Snapshots : IsEntry(adRedis[k])
      BY DEF AdsInv, AdsTyped
  <2> QED
      BY <1>1, <1>4, <2>1
<1>6. AdsTyped'
  <2>1. adPc' \in [AdDashboards -> {"none", "queued", "fetching", "storing", "caching", "done"}]
      BY <1>1, PlaceTyped
  <2> QED
      BY <1>1, <1>3, <1>5, <2>1 DEF AdsInv, AdsTyped
<1>7. Ahead(d)'
    BY <1>2, EmptyHanded
<1>8. Moved(d)
    BY <1>2, <1>3 DEF Moved
<1> QED
    BY <1>1, <1>6, <1>7, <1>8, WorkAhead

\* A level begins, or the run is over: no goroutine holds anything.
LEMMA LevelsKeep ==
    ASSUME AdsInv, Ads!Starts \/ Ads!LevelEnds
    PROVE  AdsInv'
<1>1. /\ adRows' = adRows /\ adRedis' = adRedis /\ adGot' = adGot
      /\ adBatch' = adBatch /\ adRequest' = adRequest
    BY DEF Ads!Starts, Ads!LevelEnds
<1>2. \/ adRun' \in 1 .. Len(AdLevels) /\ adPc' = Ads!Spawned
      \/ adRun' = 0 /\ adPc' = [d \in AdDashboards |-> "none"]
  <2>1. Len(AdLevels) \in Nat \ {0} /\ adRun \in 0 .. Len(AdLevels)
      BY AdsAssumption DEF AdsInv, AdsTyped
  <2> QED
      BY <2>1 DEF Ads!Starts, Ads!LevelEnds
<1>3. /\ adRun' \in 0 .. Len(AdLevels)
      /\ adPc' \in [AdDashboards -> {"none", "queued", "fetching", "storing", "caching", "done"}]
      /\ \A d \in AdDashboards : adPc'[d] \in {"none", "queued"}
            /\ (adPc'[d] = "queued" => adRun' # 0)
  <2>1. Len(AdLevels) \in Nat \ {0}
      BY AdsAssumption
  <2> QED
      BY <1>2, <2>1 DEF Ads!Spawned
<1>4. AdsTyped'
    BY <1>1, <1>3 DEF AdsInv, AdsTyped
<1>5. \A d \in AdDashboards : Ahead(d)'
    BY <1>3, EmptyHanded
<1> QED
    BY <1>1, <1>4, <1>5, QuietAds

\* The clock, Utmify's figures and a key that is over.
LEMMA OutsideKeeps ==
    ASSUME AdsInv,
           \/ Ads!ListFails \/ Ads!Expires \/ Ads!Revises
           \/ \E k \in Ads!Snapshots : Ads!Drops(k)
    PROVE  AdsInv'
<1>1. /\ adRun' = adRun /\ adPc' = adPc /\ adGot' = adGot /\ adRows' = adRows
      /\ adRequest' = adRequest
    BY DEF Ads!ListFails, Ads!Expires, Ads!Revises, Ads!Drops, Ads!jobVars
<1>2. adBatch' \in 1 .. Len(Batches) /\ adBatch <= adBatch' /\ adBatch \in 1 .. Len(Batches)
  <2>1. adBatch \in 1 .. Len(Batches) /\ Len(Batches) \in Nat
      BY AdsAssumption DEF AdsInv, AdsTyped
  <2>2. adBatch' = adBatch \/ (adBatch < Len(Batches) /\ adBatch' = adBatch + 1)
      BY DEF Ads!ListFails, Ads!Expires, Ads!Revises, Ads!Drops
  <2> QED
      BY <2>1, <2>2
<1>3. adRedis' = [k \in Ads!Snapshots |-> adRedis'[k]]
         /\ \A k \in Ads!Snapshots : IsEntry(adRedis'[k])
  <2>1. adRedis = [k \in Ads!Snapshots |-> adRedis[k]]
           /\ \A k \in Ads!Snapshots : IsEntry(adRedis[k])
      BY DEF AdsInv, AdsTyped
  <2>2. adRedis' = adRedis
           \/ \E k \in Ads!Snapshots : adRedis' = [adRedis EXCEPT ![k] = NoFigure]
      BY DEF Ads!ListFails, Ads!Expires, Ads!Revises, Ads!Drops
  <2>3. IsEntry(NoFigure)
      BY DEF IsEntry
  <2> QED
      BY <2>1, <2>2, <2>3
<1>4. AdsTyped'
  <2>1. \A k \in Ads!Snapshots : Ads!BatchOf(adRows[k]) <= adBatch'
    <3>1. \A k \in Ads!Snapshots : Ads!BatchOf(adRows[k]) \in Nat
             /\ Ads!BatchOf(adRows[k]) <= adBatch
        BY BatchFacts DEF AdsInv, AdsTyped
    <3> QED
        BY <1>2, <3>1
  <2> QED
      BY <1>1, <1>2, <1>3, <2>1 DEF AdsInv, AdsTyped
<1>5. \A d \in AdDashboards : Ahead(d)'
    BY <1>1, <1>2, StillAhead
<1> QED
    BY <1>1, <1>4, <1>5, QuietAds

(***************************************************************************)
(* The handler                                                             *)
(***************************************************************************)

\* A request changes nothing but itself.
LEMMA OnlyReads ==
    ASSUME AdsInv, UNCHANGED <<Ads!jobVars, adRows, adRedis, adBatch>>, Reading',
           Ads!NeverBehindTheRow'
    PROVE  AdsInv'
<1>1. AdsTyped' /\ \A d \in AdDashboards : Ahead(d)'
    BY DEF AdsInv, AdsTyped, Ahead, Ads!jobVars
<1> QED
    BY <1>1 DEF AdsInv

\* What a request is made of.
LEMMA RequestParts ==
    ASSUME AdsInv
    PROVE  /\ adRequest \in RequestType
           /\ adRequest.todo \in SUBSET AdDashboards
           /\ adRequest.shown \in SUBSET (AdDashboards \X Nat)
           /\ adRequest.known \in [AdDashboards -> Nat]
           /\ adRequest.excused \in SUBSET AdDashboards
           /\ adRequest.level \in Nat
    BY DEF AdsInv, Reading, RequestType

LEMMA AsksKeeps ==
    ASSUME AdsInv, NEW level \in 1 .. Len(AdLevels), NEW visible \in SUBSET AdDashboards,
           Ads!Asks(level, visible)
    PROVE  AdsInv'
<1> DEFINE known == [d \in AdDashboards |-> IF d \in visible THEN Ads!BatchOf(adRows[<<d, level>>]) ELSE 0]
<1>1. /\ adRequest' = [pc |-> "next", level |-> level, todo |-> visible, at |-> NoFigure,
                     shown |-> {}, excused |-> {}, known |-> known]
      /\ UNCHANGED <<Ads!jobVars, adRows, adRedis, adBatch>>
    BY DEF Ads!Asks
<1>2. ASSUME NEW d \in AdDashboards
      PROVE  known[d] \in Nat /\ known[d] <= Ads!BatchOf(adRows[<<d, level>>])
  <2>1. Ads!BatchOf(adRows[<<d, level>>]) \in Nat
      BY KeyIn, BatchFacts DEF AdsInv, AdsTyped
  <2> QED
      BY <2>1
<1>3. known \in [AdDashboards -> Nat]
    BY <1>2
<1>4. /\ adRequest'.pc = "next" /\ adRequest'.level = level /\ adRequest'.todo = visible
      /\ adRequest'.at = NoFigure /\ adRequest'.shown = {} /\ adRequest'.excused = {}
      /\ adRequest'.known = known
    BY <1>1
<1> HIDE DEF known
<1>5. adRequest' \in RequestType
    BY <1>1, <1>3 DEF RequestType
<1>6. Reading'
    BY <1>1, <1>2, <1>4, <1>5 DEF Reading
<1>7. Ads!NeverBehindTheRow'
    BY <1>4 DEF Ads!NeverBehindTheRow
<1> QED
    BY <1>1, <1>6, <1>7, OnlyReads

LEMMA TakesKeeps ==
    ASSUME AdsInv, NEW d \in AdDashboards, Ads!Takes(d)
    PROVE  AdsInv'
<1>1. /\ adRequest.pc = "next"
      /\ adRequest' = [adRequest EXCEPT !.pc = "row", !.at = d, !.todo = adRequest.todo \ {d}]
      /\ UNCHANGED <<Ads!jobVars, adRows, adRedis, adBatch>>
    BY DEF Ads!Takes
<1>2. /\ adRequest'.pc = "row" /\ adRequest'.level = adRequest.level /\ adRequest'.at = d
      /\ adRequest'.shown = adRequest.shown /\ adRequest'.excused = adRequest.excused
      /\ adRequest'.known = adRequest.known /\ adRequest' \in RequestType
    BY <1>1, RequestParts DEF RequestType
<1>3. Reading'
    BY <1>1, <1>2 DEF AdsInv, Reading
<1>4. Ads!NeverBehindTheRow'
    BY <1>2 DEF AdsInv, Ads!NeverBehindTheRow
<1> QED
    BY <1>1, <1>3, <1>4, OnlyReads

\* An answer of batch n that is not behind what the request knows.
LEMMA ShowsKeeps ==
    ASSUME AdsInv, UNCHANGED <<Ads!jobVars, adRows, adRedis, adBatch>>, NEW n \in Nat,
           Ads!Shows(n),
           adRequest.pc # "none", adRequest.at \in AdDashboards,
           adRequest.at \in adRequest.excused \/ n >= adRequest.known[adRequest.at]
    PROVE  AdsInv'
<1>1. adRequest' = [adRequest EXCEPT !.pc = "next",
                                 !.shown = adRequest.shown \cup {<<adRequest.at, n>>}]
    BY DEF Ads!Shows
<1>2. <<adRequest.at, n>> \in AdDashboards \X Nat
    OBVIOUS
<1>3. /\ adRequest'.pc = "next" /\ adRequest'.level = adRequest.level
      /\ adRequest'.shown = adRequest.shown \cup {<<adRequest.at, n>>}
      /\ adRequest'.excused = adRequest.excused
      /\ adRequest'.known = adRequest.known /\ adRequest' \in RequestType
    BY <1>1, <1>2, RequestParts DEF RequestType
<1>4. Reading'
    BY <1>3 DEF AdsInv, Reading
<1>5. Ads!NeverBehindTheRow'
    BY <1>3 DEF AdsInv, Ads!NeverBehindTheRow
<1> QED
    BY <1>4, <1>5, OnlyReads

LEMMA FindsRowKeeps == ASSUME AdsInv, Ads!FindsRow PROVE AdsInv'
<1>1. /\ adRequest.pc = "row" /\ adRows[Ads!Key] # NoFigure /\ Ads!Shows(adRows[Ads!Key].batch)
      /\ UNCHANGED <<Ads!jobVars, adRows, adRedis, adBatch>>
    BY DEF Ads!FindsRow
<1>2. /\ adRequest.at \in AdDashboards /\ adRequest.level \in 1 .. Len(AdLevels)
      /\ adRequest.known[adRequest.at] <= Ads!BatchOf(adRows[Ads!Key])
    BY <1>1 DEF AdsInv, Reading, Ads!Key
<1>3. IsEntry(adRows[Ads!Key])
    BY <1>2, KeyIn DEF AdsInv, AdsTyped, Ads!Key
<1>4. adRows[Ads!Key].batch \in Nat /\ Ads!BatchOf(adRows[Ads!Key]) = adRows[Ads!Key].batch
    BY <1>1, <1>3 DEF IsEntry, Ads!BatchOf
<1>5. adRequest.known[adRequest.at] \in Nat
    BY <1>2, RequestParts
<1>6. adRows[Ads!Key].batch >= adRequest.known[adRequest.at]
    BY <1>2, <1>4, <1>5
<1> QED
    BY <1>1, <1>2, <1>4, <1>6, ShowsKeeps

LEMMA MissesRowKeeps == ASSUME AdsInv, Ads!MissesRow PROVE AdsInv'
<1>1. /\ adRequest.pc = "row" /\ UNCHANGED <<Ads!jobVars, adRows, adRedis, adBatch>>
      /\ \/ adRows[Ads!Key] = NoFigure /\ adRequest' = [adRequest EXCEPT !.pc = "redis"]
         \/ adRequest' = [adRequest EXCEPT !.pc = "redis",
                                       !.excused = adRequest.excused \cup {adRequest.at}]
    BY DEF Ads!MissesRow
<1>2. /\ adRequest.at \in AdDashboards /\ adRequest.level \in 1 .. Len(AdLevels)
      /\ adRequest.known[adRequest.at] <= Ads!BatchOf(adRows[Ads!Key])
    BY <1>1 DEF AdsInv, Reading, Ads!Key
<1>3. adRequest.known[adRequest.at] \in Nat
    BY <1>2, RequestParts
<1>4. adRows[Ads!Key] = NoFigure => adRequest.known[adRequest.at] = 0
    BY <1>2, <1>3 DEF Ads!BatchOf
<1>5. /\ adRequest'.pc = "redis" /\ adRequest'.level = adRequest.level
      /\ adRequest'.at = adRequest.at
      /\ adRequest'.shown = adRequest.shown /\ adRequest'.known = adRequest.known
      /\ adRequest.excused \subseteq adRequest'.excused
      /\ adRows[Ads!Key] = NoFigure \/ adRequest.at \in adRequest'.excused
      /\ adRequest' \in RequestType
  <2>1. adRequest.excused \cup {adRequest.at} \in SUBSET AdDashboards
      BY <1>2, RequestParts
  <2> QED
      BY <1>1, <2>1, RequestParts DEF RequestType
<1>6. Reading'
    BY <1>1, <1>2, <1>4, <1>5 DEF AdsInv, Reading
<1>7. Ads!NeverBehindTheRow'
    BY <1>5 DEF AdsInv, Ads!NeverBehindTheRow
<1> QED
    BY <1>1, <1>6, <1>7, OnlyReads

LEMMA FindsKeyKeeps == ASSUME AdsInv, Ads!FindsKey PROVE AdsInv'
<1>1. /\ adRequest.pc = "redis" /\ adRedis[Ads!Key] # NoFigure
      /\ Ads!Shows(adRedis[Ads!Key].batch)
      /\ UNCHANGED <<Ads!jobVars, adRows, adRedis, adBatch>>
    BY DEF Ads!FindsKey
<1>2. /\ adRequest.at \in AdDashboards /\ adRequest.level \in 1 .. Len(AdLevels)
      /\ adRequest.at \in adRequest.excused \/ adRequest.known[adRequest.at] = 0
    BY <1>1 DEF AdsInv, Reading
<1>3. IsEntry(adRedis[Ads!Key])
    BY <1>2, KeyIn DEF AdsInv, AdsTyped, Ads!Key
<1>4. adRedis[Ads!Key].batch \in Nat
    BY <1>1, <1>3 DEF IsEntry
<1> QED
    BY <1>1, <1>2, <1>4, ShowsKeeps

LEMMA MissesKeyKeeps == ASSUME AdsInv, Ads!MissesKey PROVE AdsInv'
<1>1. /\ adRequest.pc = "redis" /\ UNCHANGED <<Ads!jobVars, adRows, adRedis, adBatch>>
      /\ adRequest' = [adRequest EXCEPT !.pc = "live"]
    BY DEF Ads!MissesKey
<1>2. /\ adRequest'.pc = "live" /\ adRequest'.level = adRequest.level
      /\ adRequest'.at = adRequest.at
      /\ adRequest'.shown = adRequest.shown /\ adRequest'.known = adRequest.known
      /\ adRequest'.excused = adRequest.excused /\ adRequest' \in RequestType
    BY <1>1, RequestParts DEF RequestType
<1>3. Reading'
    BY <1>1, <1>2 DEF AdsInv, Reading
<1>4. Ads!NeverBehindTheRow'
    BY <1>2 DEF AdsInv, Ads!NeverBehindTheRow
<1> QED
    BY <1>1, <1>3, <1>4, OnlyReads

LEMMA AsksUtmifyKeeps == ASSUME AdsInv, Ads!AsksUtmify PROVE AdsInv'
<1>1. /\ adRequest.pc = "live" /\ UNCHANGED <<Ads!jobVars, adRows, adRedis, adBatch>>
      /\ Ads!Shows(adBatch) \/ adRequest' = [adRequest EXCEPT !.pc = "next"]
    BY DEF Ads!AsksUtmify
<1>2. /\ adRequest.at \in AdDashboards
      /\ adRequest.at \in adRequest.excused \/ adRequest.known[adRequest.at] = 0
    BY <1>1 DEF AdsInv, Reading
<1>3. CASE Ads!Shows(adBatch)
  <2>1. adBatch \in Nat
      BY DEF AdsInv, AdsTyped
  <2> QED
      BY <1>1, <1>2, <1>3, <2>1, ShowsKeeps
<1>4. CASE adRequest' = [adRequest EXCEPT !.pc = "next"]
  <2>1. /\ adRequest'.pc = "next" /\ adRequest'.level = adRequest.level
        /\ adRequest'.shown = adRequest.shown /\ adRequest'.known = adRequest.known
        /\ adRequest'.excused = adRequest.excused /\ adRequest' \in RequestType
      BY <1>4, RequestParts DEF RequestType
  <2>2. Reading'
      BY <1>1, <2>1 DEF AdsInv, Reading
  <2>3. Ads!NeverBehindTheRow'
      BY <2>1 DEF AdsInv, Ads!NeverBehindTheRow
  <2> QED
      BY <1>1, <2>2, <2>3, OnlyReads
<1> QED
    BY <1>1, <1>3, <1>4

LEMMA AnsweredKeeps == ASSUME AdsInv, Ads!Answered PROVE AdsInv'
<1>1. adRequest' = Ads!NoRequest /\ UNCHANGED <<Ads!jobVars, adRows, adRedis, adBatch>>
    BY DEF Ads!Answered
<1>2. Reading' /\ Ads!NeverBehindTheRow'
    BY <1>1 DEF Ads!NoRequest, Reading, RequestType, Ads!NeverBehindTheRow
<1> QED
    BY <1>1, <1>2, OnlyReads

LEMMA NextAds == AdsInv /\ [Ads!Next]_adVars => AdsInv'
<1> SUFFICES ASSUME AdsInv, [Ads!Next]_adVars PROVE AdsInv'
    OBVIOUS
<1>1. CASE Ads!ListFails \/ Ads!Starts \/ Ads!Expires \/ Ads!LevelEnds \/ Ads!Revises
              \/ \E k \in Ads!Snapshots : Ads!Drops(k)
    BY <1>1, LevelsKeep, OutsideKeeps
<1>2. ASSUME NEW d \in Profiled, Ads!Works(d) PROVE AdsInv'
  <2>1. d \in AdDashboards
      BY AdsAssumption
  <2>2. CASE Ads!Acquires(d) \/ Ads!Refused(d) \/ Ads!FetchFails(d)
      BY <2>1, <2>2, StepsAside DEF Ads!Acquires, Ads!Refused, Ads!FetchFails
  <2> QED
      BY <1>2, <2>1, <2>2, FetchesKeeps, StoringKeeps, CachingKeeps DEF Ads!Works
<1>3. ASSUME NEW level \in 1 .. Len(AdLevels), NEW visible \in SUBSET AdDashboards,
             Ads!Asks(level, visible)
      PROVE  AdsInv'
    BY <1>3, AsksKeeps
<1>4. CASE \E d \in AdDashboards : Ads!Takes(d)
    BY <1>4, TakesKeeps
<1>5. CASE Ads!FindsRow \/ Ads!MissesRow \/ Ads!FindsKey \/ Ads!MissesKey
              \/ Ads!AsksUtmify \/ Ads!Answered
    BY <1>5, FindsRowKeeps, MissesRowKeeps, FindsKeyKeeps, MissesKeyKeeps, AsksUtmifyKeeps,
       AnsweredKeeps
<1>6. CASE UNCHANGED adVars
  <2>1. /\ UNCHANGED <<Ads!jobVars, adRows, adRedis, adBatch>> /\ adRequest' = adRequest
      BY <1>6 DEF adVars, Ads!jobVars
  <2>2. Reading' /\ Ads!NeverBehindTheRow'
      BY <2>1 DEF AdsInv, Reading, Ads!NeverBehindTheRow
  <2> QED
      BY <2>1, <2>2, OnlyReads
<1> QED
    BY <1>1, <1>2, <1>3, <1>4, <1>5, <1>6 DEF Ads!Next

(***************************************************************************)
(* The behaviours of MCSummaryJob                                          *)
(***************************************************************************)

LEMMA AdsAlways == MCSpec => []AdsInv
<1>1. MCInit => AdsInv
    BY InitAds DEF MCInit
<1>2. AdsInv /\ [MCNext]_allVars => AdsInv'
  <2>1. ASSUME [MCNext]_allVars PROVE [Ads!Next]_adVars
    <3>1. CASE UNCHANGED allVars
        BY <3>1 DEF allVars
    <3>2. CASE MCNext
        BY <3>2 DEF MCNext
    <3> QED
        BY <2>1, <3>1, <3>2
  <2> QED
      BY <2>1, NextAds
<1> QED
    BY <1>1, <1>2, PTL DEF MCSpec

\* What a request shows of a dashboard is never behind the row there was when it
\* arrived, unless its own query of the row failed.
THEOREM NeverShownBehindTheRow == MCSpec => []NeverBehindTheRow
<1>1. AdsInv => NeverBehindTheRow
    BY DEF AdsInv, NeverBehindTheRow
<1> QED
    BY <1>1, AdsAlways, PTL
=============================================================================
