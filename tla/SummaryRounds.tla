--------------------------- MODULE SummaryRounds ---------------------------
(***************************************************************************)
(* What the dashboard summary job promises, whatever goroutines it uses.   *)
(* Round after round it asks for some dashboards, each of them gets one    *)
(* answer that is never changed, and the round is over when all of them    *)
(* have theirs.  Once stopped it does nothing more.                        *)
(***************************************************************************)
CONSTANTS Dashboards, Answers

VARIABLES phase,    \* "resting", "asking" or "stopped"
          asked,    \* the dashboards of this round
          answers   \* the answers so far, by dashboard

roundVars == <<phase, asked, answers>>

Nothing == [d \in {} |-> d]

RoundInit ==
    /\ phase = "asking"
    /\ asked = {}
    /\ answers = Nothing

\* The round asks for the dashboards D.
Ask(D) ==
    /\ phase = "asking"
    /\ asked = {}
    /\ asked' = D
    /\ UNCHANGED <<phase, answers>>

Answer(d, a) ==
    /\ phase = "asking"
    /\ d \in asked \ DOMAIN answers
    /\ answers' = [e \in DOMAIN answers \cup {d} |->
                        IF e = d THEN a ELSE answers[e]]
    /\ UNCHANGED <<phase, asked>>

RoundEnds ==
    /\ phase = "asking"
    /\ DOMAIN answers = asked
    /\ phase' = "resting"
    /\ asked' = {}
    /\ answers' = Nothing

RoundBegins ==
    /\ phase = "resting"
    /\ phase' = "asking"
    /\ UNCHANGED <<asked, answers>>

RoundsStop ==
    /\ phase = "resting"
    /\ phase' = "stopped"
    /\ UNCHANGED <<asked, answers>>

RoundNext ==
    \/ \E D \in SUBSET Dashboards : Ask(D)
    \/ \E d \in Dashboards, a \in Answers : Answer(d, a)
    \/ RoundEnds
    \/ RoundBegins
    \/ RoundsStop

Rounds == RoundInit /\ [][RoundNext]_roundVars
=============================================================================
