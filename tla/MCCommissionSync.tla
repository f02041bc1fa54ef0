-------------------------- MODULE MCCommissionSync --------------------------
(***************************************************************************)
(* Instances of CommissionSync for TLC.                                    *)
(***************************************************************************)
EXTENDS CommissionSync

CONSTANTS ticker, manual, u1, u2, a1, a2, c1, c2

\* Names with both codes, with the first alone, and with the second alone.
Both == [copy |-> c1, editor |-> c2]
CopyOnly == [copy |-> c1, editor |-> NoCode]
OtherCopy == [copy |-> c2, editor |-> NoCode]

BothOrOther == {Both, OtherCopy}
OneName == {CopyOnly}

\* A loss and a profit.
LossOrProfit == {-300, 1000}
OneProfit == {1000}

(***************************************************************************)
(* Bounds of the run `settles', all of them on what nobody is obliged to   *)
(* do: Utmify's revisions, administrators, midnight and manual calls.      *)
(***************************************************************************)

\* A revision says something new: a profit at first, and then a loss.
FiguresInTurn ==
    revisions' # revisions =>
        /\ reported' # reported
        /\ \A x \in reported' \ reported :
             x[3].net = IF revisions = 0 THEN 1000 ELSE -300

\* Ads are numbered as they appear.
AdsInTurn ==
    (\E d \in Days : a2 \in DOMAIN report'[d])
        => \E d \in Days : a1 \in DOMAIN report'[d]

\* Manual calls overlap with the ticker's on the first day, while there is one
\* ad: enough for the older of two figures to be committed last.
ManualEarly ==
    sync'[manual].pc # "idle" =>
        /\ today' = 1
        /\ \A d \in Days : DOMAIN report'[d] \subseteq {a1}
=============================================================================
