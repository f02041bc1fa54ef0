----------------------------- MODULE CompanySetup -----------------------------
(***************************************************************************)
(* The system administrator's endpoints: companies are made with their     *)
(* first administrator in one transaction, users in a check and a          *)
(* statement, and both are listed.                                         *)
(*                                                                         *)
(* A row that is not committed yet makes whoever inserts the same slug or  *)
(* e-mail wait for the transaction that holds it.                          *)
(***************************************************************************)
EXTENDS Naturals, FiniteSets

CONSTANTS Requests, Slugs, Emails, None

VARIABLES
    slugRow,     \* slugRow[s]: who inserted the company with slug s
    userRow,     \* userRow[e]: who inserted the user with e-mail e, and where
    committed,   \* requests whose rows everybody sees
    pc, input,   \* pc[r], input[r]: where r is, and what it brought
    answer,      \* answer[r]: the companies a list shows, with their users
    met          \* history: slugs and e-mails seen committed since r arrived

vars == <<slugRow, userRow, committed, pc, input, answer, met>>

Founding == {"inserting company", "inserting admin", "committing"}
Joining == {"checking", "inserting user"}
Listing == {"listing"}
Ended == {"created", "conflict", "not found", "failed", "listed"}

User(r, s) == [by |-> r, company |-> s]
Nobody == User(None, None)
Request(s, e) == [slug |-> s, email |-> e]

Companies == {s \in Slugs : slugRow[s] \in committed}
Employed == {e \in Emails : userRow[e].by \in committed}
Names == Companies \cup Employed

Init ==
    /\ slugRow = [s \in Slugs |-> None]
    /\ userRow = [e \in Emails |-> Nobody]
    /\ committed = {}
    /\ pc = [r \in Requests |-> "idle"]
    /\ input = [r \in Requests |-> Request(None, None)]
    /\ answer = [r \in Requests |-> [s \in {} |-> 0]]
    /\ met = [r \in Requests |-> {}]

Moves(r, from, to) ==
    /\ pc[r] = from
    /\ pc' = [pc EXCEPT ![r] = to]

Arrives(r, first, s, e) ==
    /\ Moves(r, "idle", first)
    /\ input' = [input EXCEPT ![r] = Request(s, e)]
    /\ met' = [met EXCEPT ![r] = Names]
    /\ UNCHANGED <<slugRow, userRow, committed, answer>>

\* What r has inserted, and not committed, is gone.
RollbackOf(r) ==
    /\ slugRow' = [s \in Slugs |-> IF slugRow[s] = r THEN None ELSE slugRow[s]]
    /\ userRow' = [e \in Emails |-> IF userRow[e].by = r THEN Nobody ELSE userRow[e]]
    /\ UNCHANGED committed

\* Everybody sees the rows of r, and those under way remember what they met.
Commits(r, names) ==
    /\ committed' = committed \cup {r}
    /\ met' = [q \in Requests |-> IF pc[q] = "idle" THEN {} ELSE met[q] \cup names]

(***************************************************************************)
(* CreateCompany                                                           *)
(***************************************************************************)

CreateCompany(r, s, e) == Arrives(r, "inserting company", s, e)

\* Faulty variant: the statement runs outside of the transaction.
InsertCompanyAtOnce(r) ==
    LET s == input[r].slug IN
    /\ pc[r] = "inserting company"
    /\ \/ /\ slugRow[s] = None
          /\ Moves(r, "inserting company", "inserting admin")
          /\ slugRow' = [slugRow EXCEPT ![s] = r]
          /\ Commits(r, {s})
          /\ UNCHANGED userRow
       \/ /\ slugRow[s] \in committed
          /\ Moves(r, "inserting company", "conflict")
          /\ UNCHANGED <<slugRow, userRow, committed, met>>
    /\ UNCHANGED <<input, answer>>

\* Waits while the slug is held by a row that is not committed.
InsertCompany(r) ==
    /\ pc[r] = "inserting company"
    /\ LET s == input[r].slug
       IN  \/ /\ slugRow[s] = None
              /\ Moves(r, "inserting company", "inserting admin")
              /\ slugRow' = [slugRow EXCEPT ![s] = r]
           \/ /\ slugRow[s] \in committed
              /\ Moves(r, "inserting company", "conflict")
              /\ UNCHANGED slugRow
    /\ UNCHANGED <<userRow, committed, input, answer, met>>

\* Faulty variant: an e-mail is in conflict as soon as anybody has inserted it.
InsertAdminHasty(r) ==
    /\ pc[r] = "inserting admin"
    /\ LET e == input[r].email
       IN  \/ /\ userRow[e] = Nobody
              /\ Moves(r, "inserting admin", "committing")
              /\ userRow' = [userRow EXCEPT ![e] = User(r, input[r].slug)]
              /\ UNCHANGED <<slugRow, committed>>
           \/ /\ userRow[e] # Nobody
              /\ Moves(r, "inserting admin", "conflict")
              /\ RollbackOf(r)
    /\ UNCHANGED <<input, answer, met>>

\* Likewise for the e-mail; a conflict takes the company back.
InsertAdmin(r) ==
    /\ pc[r] = "inserting admin"
    /\ LET e == input[r].email
       IN  \/ /\ userRow[e] = Nobody
              /\ Moves(r, "inserting admin", "committing")
              /\ userRow' = [userRow EXCEPT ![e] = User(r, input[r].slug)]
              /\ UNCHANGED <<slugRow, committed>>
           \/ /\ userRow[e].by \in committed
              /\ Moves(r, "inserting admin", "conflict")
              /\ RollbackOf(r)
    /\ UNCHANGED <<input, answer, met>>

\* The answer of PostgreSQL may be lost when the commit is not.
CommitCompany(r) ==
    /\ \E to \in {"created", "failed"} : Moves(r, "committing", to)
    /\ Commits(r, {input[r].slug, input[r].email})
    /\ UNCHANGED <<slugRow, userRow, input, answer>>

(***************************************************************************)
(* CreateCompanyUser                                                       *)
(***************************************************************************)

CreateCompanyUser(r, s, e) == Arrives(r, "checking", s, e)

CheckCompany(r) ==
    /\ Moves(r, "checking",
             IF input[r].slug \in Companies THEN "inserting user" ELSE "not found")
    /\ UNCHANGED <<slugRow, userRow, committed, input, answer, met>>

\* One statement, which commits by itself.
InsertUser(r) ==
    /\ pc[r] = "inserting user"
    /\ LET e == input[r].email
       IN  \/ /\ userRow[e] = Nobody
              /\ \E to \in {"created", "failed"} : Moves(r, "inserting user", to)
              /\ userRow' = [userRow EXCEPT ![e] = User(r, input[r].slug)]
              /\ Commits(r, {e})
           \/ /\ userRow[e].by \in committed
              /\ Moves(r, "inserting user", "conflict")
              /\ UNCHANGED <<userRow, committed, met>>
    /\ UNCHANGED <<slugRow, input, answer>>

(***************************************************************************)
(* ListCompanies, and everything else                                      *)
(***************************************************************************)

ListCompanies(r) == Arrives(r, "listing", None, None)

\* The rows of ListCompanyUsers, counted in the list of companies.
UsersOf(s) == {e \in Employed : userRow[e].company = s}

ReadCompanies(r) ==
    /\ Moves(r, "listing", "listed")
    /\ answer' = [answer EXCEPT ![r] = [s \in Companies |-> Cardinality(UsersOf(s))]]
    /\ UNCHANGED <<slugRow, userRow, committed, input, met>>

\* Faulty variant: an error returns without the rollback of the user.
FailsHalf(r) ==
    /\ \E from \in Founding \cup Joining \cup Listing : Moves(r, from, "failed")
    /\ slugRow' = [s \in Slugs |-> IF slugRow[s] = r THEN None ELSE slugRow[s]]
    /\ UNCHANGED <<userRow, committed, input, answer, met>>

\* A statement fails, or the process stops: the deferred Rollback, or
\* PostgreSQL, takes back what is not committed.
Fails(r) ==
    /\ \E from \in Founding \cup Joining \cup Listing : Moves(r, from, "failed")
    /\ RollbackOf(r)
    /\ UNCHANGED <<input, answer, met>>

Steps(r) == InsertCompany(r) \/ InsertAdmin(r) \/ CommitCompany(r)
            \/ CheckCompany(r) \/ InsertUser(r) \/ ReadCompanies(r)

\* Nobody has anything left to ask.
Quiet ==
    /\ \A r \in Requests : pc[r] \in Ended
    /\ UNCHANGED vars

Next ==
    \/ \E r \in Requests :
          \/ \E s \in Slugs, e \in Emails : CreateCompany(r, s, e)
          \/ \E s \in Slugs \cup {None}, e \in Emails : CreateCompanyUser(r, s, e)
          \/ ListCompanies(r)
          \/ Steps(r) \/ Fails(r)
    \/ Quiet

\* PostgreSQL answers every statement that does not wait.
Fairness == \A r \in Requests : WF_vars(Steps(r))

Spec == Init /\ [][Next]_vars /\ Fairness

(***************************************************************************)
(* Properties                                                              *)
(***************************************************************************)

\* "registro ja existente": whoever is told so asked for a slug or an e-mail
\* that was there, committed, since it arrived; a row another transaction took
\* back is no reason.
ConflictsAreReal ==
    \A r \in Requests : pc[r] = "conflict" =>
        met[r] \cap {input[r].slug, input[r].email} # {}

\* No list ever shows a company before its first user, or after a failure
\* between the two.
ListsAreWhole == \A r \in Requests, s \in Slugs : s \in DOMAIN answer[r] => answer[r][s] > 0

\* Nobody waits for ever: a company's transaction takes its slug before its
\* e-mail, and who waits for a slug holds nothing.
EveryRequestEnds == \A r \in Requests : pc[r] # "idle" ~> pc[r] \in Ended

\* Seen through the committed rows, companies appear with their users.
Directory == INSTANCE CompanyDirectory WITH
    companies <- Companies,
    employer <- [e \in Emails |-> IF e \in Employed THEN userRow[e].company ELSE None]

ImplementsDirectory == Directory!Spec
=============================================================================
