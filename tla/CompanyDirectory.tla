--------------------------- MODULE CompanyDirectory ---------------------------
(***************************************************************************)
(* What the system administrator is promised: a company appears together   *)
(* with its first user, under a slug and with an e-mail nobody has, and    *)
(* users appear only in companies there are.  Nothing disappears.          *)
(***************************************************************************)
CONSTANTS Slugs, Emails, None

VARIABLES
    companies,   \* the slugs in use
    employer     \* employer[e]: the company of the user with e-mail e

vars == <<companies, employer>>

Init ==
    /\ companies = {}
    /\ employer = [e \in Emails |-> None]

Hire(s, e) ==
    /\ employer[e] = None
    /\ employer' = [employer EXCEPT ![e] = s]

Found(s, e) ==
    /\ s \notin companies
    /\ companies' = companies \cup {s}
    /\ Hire(s, e)

Join(s, e) ==
    /\ s \in companies
    /\ Hire(s, e)
    /\ UNCHANGED companies

Next == \E s \in Slugs, e \in Emails : Found(s, e) \/ Join(s, e)

Spec == Init /\ [][Next]_vars
=============================================================================
