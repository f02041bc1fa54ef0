---------------------------- MODULE MCSummaryJob ----------------------------
(***************************************************************************)
(* An instance for TLC of two jobs of the scheduler: SummaryJob, and       *)
(* AdObjects with its handler.                                             *)
(*                                                                         *)
(* The two share no state.  A behaviour is one of one of them, which `part'*)
(* names from the start, and the variables of the other stay as they were: *)
(* the run has the states of the one and the states of the other, never    *)
(* their product, and a property of a part is checked on all of its        *)
(* behaviours and holds of the other part's by itself.                     *)
(***************************************************************************)
EXTENDS SummaryJob, Sequences

CONSTANTS   \* AdObjects', some under a name of their own
    AdDashboards, Profiled, AdLevels, AdSlots, Batches, MaxFailures

VARIABLES part,
    adRun, adExpired, adPc, adGot, adRows, adRedis, adBatch, adFailures, adRequest

adVars ==
    <<adRun, adExpired, adPc, adGot, adRows, adRedis, adBatch, adFailures, adRequest>>

Object(id, spend) == [id |-> id, spend |-> spend]

\* Utmify lists an id twice, and objects without one.
TwoBatches ==
    << <<Object("x", 1), Object("", 1), Object("x", 2)>>,
       <<Object("x", 3), Object("y", 1), Object("", 1), Object("x", 4), Object("", 2)>> >>

TwoLevels == <<"account", "ad">>

Ads == INSTANCE AdObjects WITH
    Dashboards <- AdDashboards, Levels <- AdLevels, Slots <- AdSlots, Blank <- "",
    None <- NoFigure,
    run <- adRun, expired <- adExpired, pc <- adPc, got <- adGot, rows <- adRows,
    redis <- adRedis, batch <- adBatch, failures <- adFailures, request <- adRequest

\* There are levels and batches, and what is stored of a batch is not no row.
ASSUME AdsAssumption ==
    /\ Len(AdLevels) \in Nat \ {0} /\ Len(Batches) \in Nat \ {0}
    /\ Profiled \subseteq AdDashboards
    /\ \A n \in 1 .. Len(Batches) :
          NoFigure \notin {Ads!Listed(n, Batches[n]),
                         Ads!Listed(n, Ads!deduplicateAdObjects(Batches[n]))}

allVars == <<part, vars, adVars>>

MCInit == part \in {"summaries", "ad objects"} /\ Init /\ Ads!Init

MCNext ==
    /\ UNCHANGED part
    /\ \/ part = "summaries" /\ Next /\ UNCHANGED adVars
       \/ part = "ad objects" /\ Ads!Next /\ UNCHANGED vars

\* Fairness of the one and Ads!Fairness, each for its own behaviours.
Summaries(A) == part = "summaries" /\ A
AdObjects(A) == part = "ad objects" /\ A

MCFairness ==
    /\ WF_vars(Summaries(RunGoesOn))
    /\ WF_vars(Summaries(CloseResults))
    /\ \A d \in Dashboards : WF_vars(Summaries(GoroutineGoesOn(d)))
    /\ SF_vars(Summaries(LoopStops))
    /\ WF_adVars(AdObjects(Ads!Starts))
    /\ WF_adVars(AdObjects(Ads!LevelEnds))
    /\ \A d \in Profiled : WF_adVars(AdObjects(Ads!Works(d)))

MCSpec == MCInit /\ [][MCNext]_allVars /\ MCFairness

\* SummaryJob: a run always ends, even if its time limit never expires.
EveryRunEnds == part = "summaries" /\ loop \in RunPCs ~> loop \notin RunPCs

\* AdObjects: a request never shows what is older than the row it came upon.
NeverBehindTheRow == Ads!NeverBehindTheRow

\* AdObjects: once Utmify's figures stay as they are and nothing fails any
\* more, every level of every dashboard is stored as they are: no goroutine that
\* has nothing to send, and no time limit that ran out earlier, leaves the job
\* waiting or a slot taken.
StoredAtLast == <>[](part = "ad objects" => Ads!AllStored)
=============================================================================
