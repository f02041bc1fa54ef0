----------------------------- MODULE UtmifyCalls -----------------------------
(***************************************************************************)
(* Calls of Utmify's tools that run at the same time and share its rate    *)
(* limit.  A call that is refused for the limit waits five seconds and     *)
(* asks again, a fixed number of times; any other answer ends it, and so   *)
(* does the end of its context.  A call that is given the id of a          *)
(* dashboard asks for the list of dashboards first.                        *)
(*                                                                         *)
(* Time is counted in ticks of five seconds.  Timers are on time: no tick  *)
(* passes what is due.                                                     *)
(***************************************************************************)
EXTENDS Naturals

CONSTANTS
    Calls,
    Jobs,           \* those made by a job of the scheduler, whose context ends
    LookUps,        \* those that are given an id
    MaxRetries,     \* rateLimitMaxRetries
    RequestTicks,   \* the time limit of one request
    Deadline,       \* syncTimeout, as seen from the start of the call
    Quota, Window,  \* Utmify serves Quota requests in Window ticks
    Others          \* it has served so many to others when the calls begin

VARIABLES
    call,           \* call[c]: where c is, and for how long
    phase, served   \* ticks and requests served since the limit was lifted

vars == <<call, phase, served>>

Ended == {"answered", "failed", "expired", "gave up"}

\* tools: what is left to ask; timer: ticks of this request or wait.
State(pc, tools, attempt, timer, age) ==
    [pc |-> pc, tools |-> tools, attempt |-> attempt, timer |-> timer, age |-> age]

Idle(c) == State("idle", IF c \in LookUps THEN 2 ELSE 1, 0, 0, 0)

Init ==
    /\ call = [c \in Calls |-> Idle(c)]
    /\ phase \in 0 .. Window - 1 /\ served = Others

ContextDone(c) == c \in Jobs /\ call[c].age >= Deadline

\* c goes on to pc.
Moves(c, pc, tools, attempt) ==
    call' = [call EXCEPT ![c] = State(pc, tools, attempt, 0, @.age)]

(***************************************************************************)
(* callTool                                                                *)
(***************************************************************************)

\* A date that is not one ends the call before anything is asked.
Begin(c) ==
    /\ call[c].pc = "idle"
    /\ \E pc \in {"asking"} \cup IF c \in LookUps THEN {} ELSE {"failed"} :
            Moves(c, pc, call[c].tools, 0)
    /\ UNCHANGED <<phase, served>>

\* Utmify serves the request, and the next tool is asked if there is one.
Served(c) ==
    /\ call[c].pc = "asking"
    /\ served < Quota
    /\ served' = served + 1
    /\ \/ call[c].tools = 1 /\ Moves(c, "answered", 0, 0)
       \/ call[c].tools = 2 /\ Moves(c, "asking", 1, 0)
    /\ UNCHANGED phase

\* An error of the network, of Utmify or of the decoder, no content, no such
\* dashboard, the time limit of the client or the end of the context.
Fails(c) ==
    /\ call[c].pc = "asking"
    /\ served' \in {served} \cup IF served < Quota THEN {served + 1} ELSE {}
    /\ Moves(c, "failed", 0, call[c].attempt)
    /\ UNCHANGED phase

\* Faulty variant: attempt < rateLimitMaxRetries.
LastAttemptOneEarly(c) == call[c].attempt + 1 = MaxRetries

LastAttempt(c) == call[c].attempt = MaxRetries

\* 429, or an error that speaks of the rate limit.
Limited(c) ==
    /\ call[c].pc = "asking"
    /\ served = Quota
    /\ Moves(c, IF LastAttempt(c) THEN "gave up" ELSE "waiting", call[c].tools,
             call[c].attempt)
    /\ UNCHANGED <<phase, served>>

\* The timer of five seconds.
AsksAgain(c) ==
    /\ call[c].pc = "waiting" /\ call[c].timer >= 1
    /\ Moves(c, "asking", call[c].tools, call[c].attempt + 1)
    /\ UNCHANGED <<phase, served>>

Expires(c) ==
    /\ call[c].pc = "waiting" /\ ContextDone(c)
    /\ Moves(c, "expired", 0, call[c].attempt)
    /\ UNCHANGED <<phase, served>>

(***************************************************************************)
(* Time                                                                    *)
(***************************************************************************)

\* Faulty variant: a wait is not cut short.
DueButForTheContext(c) ==
    \/ call[c].pc = "asking" /\ (call[c].timer >= RequestTicks \/ ContextDone(c))
    \/ call[c].pc = "waiting" /\ call[c].timer >= 1

\* c does something before time goes on.
Due(c) ==
    \/ call[c].pc = "asking" /\ (call[c].timer >= RequestTicks \/ ContextDone(c))
    \/ call[c].pc = "waiting" /\ (call[c].timer >= 1 \/ ContextDone(c))

Tick ==
    /\ \A c \in Calls : ~Due(c)
    /\ call' = [c \in Calls |->
                  IF call[c].pc \in {"asking", "waiting"}
                  THEN [call[c] EXCEPT !.timer = @ + 1, !.age = @ + 1] ELSE call[c]]
    /\ phase' = (phase + 1) % Window
    /\ served' = IF phase' = 0 THEN 0 ELSE served

Next ==
    \/ \E c \in Calls : Begin(c) \/ Served(c) \/ Fails(c) \/ Limited(c)
                        \/ AsksAgain(c) \/ Expires(c)
    \/ Tick

(***************************************************************************)
(* Properties                                                              *)
(***************************************************************************)

\* "12 * 5s = 60s max": the retries outlast the minute after which the limit
\* is lifted, so that none of a burst of calls twice as large as Utmify serves
\* in a minute gives up, whenever in the minute and however slowly they run, if
\* nobody else spends what Utmify serves.
OutlastsTheLimit == \A c \in Calls : call[c].pc # "gave up"

\* What a tool may take: every request its time limit, and a tick after each
\* refusal.
ToolTicks == (MaxRetries + 1) * RequestTicks + MaxRetries

\* A call of a job never outlives the job's context, whether it asks or waits;
\* one of a handler, whose context has no end, ends after all the attempts of
\* all its tools.
EndsInTime ==
    \A c \in Calls : call[c].pc \in {"asking", "waiting"} =>
        call[c].age <= IF c \in Jobs THEN Deadline
                       ELSE IF c \in LookUps THEN 2 * ToolTicks ELSE ToolTicks
=============================================================================
