-------------------------- MODULE MCCompanyAccounts --------------------------
(* Instances of CompanyAccounts: who is there at first, and the bodies of    *)
(* Update that are tried.                                                    *)
EXTENDS CompanyAccounts, TLC

CONSTANTS u1, u2, e1, e2, p1, p2

Founder(e, p) == [email |-> e, password |-> p, role |-> "editor", min |-> 1, max |-> 2,
                  status |-> "active", active |-> TRUE]
OneFounder == u1 :> Founder(e1, p1)

Nothing == [email |-> None, password |-> None, role |-> None, min |-> None, max |-> None,
            status |-> None]

StatusAsks == {Nothing, [Nothing EXCEPT !.status = "active"]}

\* Bodies that change a column each, and bring somebody back.
MixedAsks ==
    {Nothing, [Nothing EXCEPT !.min = 2], [Nothing EXCEPT !.max = 1],
     [Nothing EXCEPT !.status = "active"], [Nothing EXCEPT !.password = p2],
     [Nothing EXCEPT !.email = e2]}
=============================================================================
