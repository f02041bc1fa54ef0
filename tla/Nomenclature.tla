---------------------------- MODULE Nomenclature ----------------------------
(***************************************************************************)
(* Ad names and commission amounts: the pure functions both writers of     *)
(* commission entries are built from.  A parsed ad name (ads.ParseName)    *)
(* keeps the two codes that decide who is paid; a name with six segments   *)
(* has no editor code, and a name outside the convention is Unparseable.   *)
(* Money is an integer number of cents and a rate an integer percentage.   *)
(***************************************************************************)
EXTENDS Integers

CONSTANTS
    Codes,        \* the codes of the nomenclature, upper-cased and trimmed
    NoCode,       \* the empty editor code of a name with six segments
    Unparseable   \* a name that ParseName refuses

ASSUME CodesAssumption ==
    /\ NoCode \notin Codes
    /\ Unparseable \notin [copy : Codes, editor : Codes \cup {NoCode}]

Roles == {"copywriter", "editor"}

\* The ParsedName of an ad, as stored in ads.name_parsed.
ParsedName == [copy : Codes, editor : Codes \cup {NoCode}]
AdName == ParsedName \cup {Unparseable}

\* The name refers to a collaborator with this code.
Names(name, code) ==
    name # Unparseable /\ code \in {name.copy, name.editor}

\* The copy code is looked at first: one role per collaborator and name.
RoleForCode(name, code) ==
    IF name.copy = code THEN "copywriter" ELSE "editor"

\* numeric(16,2): PostgreSQL rounds the amount to the cent, half up.
PercentOf(amount, pct) == (amount * pct + 50) \div 100

\* CalculateProfitBasedCommission, for a net profit already computed.
ProfitBasedCommission(netProfit, pct) ==
    IF netProfit <= 0 \/ pct <= 0 THEN 0 ELSE PercentOf(netProfit, pct)

\* Faulty variant: the backfill's value computed without its CASE.
UncheckedCommission(netProfit, pct) == PercentOf(netProfit, pct)

\* The two expressions of the backfill's INSERT ... SELECT.
BackfillBase(netProfit) == IF netProfit > 0 THEN netProfit ELSE 0
BackfillCommission(netProfit, pct) ==
    IF netProfit > 0 /\ pct > 0 THEN PercentOf(netProfit, pct) ELSE 0
=============================================================================
