------------------------------- MODULE Tables -------------------------------
(***************************************************************************)
(* Database tables as partial functions from a unique key to a row, and    *)
(* the two conflict clauses the backend's INSERT statements use.           *)
(***************************************************************************)

\* A table without rows.
NoRows == [k \in {} |-> k]

\* t is a table whose keys are in K and whose rows are in R.
IsTable(t, K, R) ==
    /\ t = [k \in DOMAIN t |-> t[k]]
    /\ DOMAIN t \subseteq K
    /\ \A k \in DOMAIN t : t[k] \in R

\* INSERT ... ON CONFLICT DO UPDATE: the new rows replace those in place.
Upsert(rows, t) ==
    [k \in DOMAIN rows \cup DOMAIN t |->
        IF k \in DOMAIN rows THEN rows[k] ELSE t[k]]

\* INSERT ... ON CONFLICT DO NOTHING: the rows of `rows` that t lacks.
Missing(rows, t) == [k \in DOMAIN rows \ DOMAIN t |-> rows[k]]
=============================================================================
