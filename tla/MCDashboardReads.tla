-------------------------- MODULE MCDashboardReads --------------------------
(***************************************************************************)
(* Instances of DashboardReads for TLC.                                    *)
(***************************************************************************)
EXTENDS DashboardReads

\* The minute of a summary, and the five of a history.
OneTick == [k \in Kinds |-> 1]

\* Bound: a request comes only while Redis keeps nothing of the other kind,
\* with which it shares no key.
OneKindAtATime ==
    \A r \in Requests : req[r].pc = "idle" /\ req'[r].pc # "idle" =>
        \A k \in Keys : k.kind # req'[r].kind => cache[k] = NoEntry

MCSpec == Init /\ [][Next /\ OneKindAtATime]_vars
=============================================================================
