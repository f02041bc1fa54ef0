--------------------------- MODULE CompanyAccounts ---------------------------
(***************************************************************************)
(* The users of one company: collaborators are created, updated and        *)
(* deleted by administrators, users log in and change their passwords, and *)
(* sessions live on without a look at the table until they expire.         *)
(*                                                                         *)
(* Every handler reads a row in one statement and writes in another, with  *)
(* nothing held in between; Update writes back all it has read, and a new  *)
(* password in a second statement.                                         *)
(***************************************************************************)
EXTENDS Naturals, FiniteSets

CONSTANTS
    Users,        \* ids
    Emails, Passwords, Roles, Rates,
    Asks,         \* bodies of Update that are tried
    Requests,     \* requests that may be served at the same time
    Life,         \* ticks a token lasts
    Founded,      \* the users there are at first, made by CreateCompanyUser
    None,         \* an absent row or field
    MaxEdits      \* bound: requests other than logins, and suspensions

\* The CHECK on users.role, and the roles normalizeCollaboratorRole yields.
UserRoles == {"admin", "gestor_trafego", "traffic_manager", "copywriter", "editor",
              "closer", "gestor_projetos", "analyst"}
collaboratorRoles == {"copywriter", "editor", "gestor_trafego", "desenvolvedor", "closer"}

RowsWith(roles) ==
    [email : Emails, password : Passwords, role : roles, min : Rates, max : Rates,
     status : {"active", "inactive"}, active : BOOLEAN]
Row == RowsWith(Roles \cap UserRoles)
Draft == RowsWith(Roles)

\* A field that is not in the body is None.
Ask == [email : Emails \cup {None}, password : Passwords \cup {None},
        role : Roles \cup {None}, min : Rates \cup {None}, max : Rates \cup {None},
        status : {"active", "inactive", None}]

ASSUME CompanyAssumption ==
    /\ Roles \subseteq collaboratorRoles \cup UserRoles
    /\ Rates \subseteq Nat
    /\ Life \in Nat /\ MaxEdits \in Nat
    /\ DOMAIN Founded \subseteq Users
    /\ \A u \in DOMAIN Founded : Founded[u] \in Row /\ Founded[u].min <= Founded[u].max
    /\ \A u, w \in DOMAIN Founded : Founded[u].email = Founded[w].email => u = w
    /\ Asks \subseteq Ask
    /\ None \notin Users /\ None \notin Emails /\ None \notin Passwords
    /\ None \notin Roles /\ None \notin Rates /\ None \notin {"active", "inactive"}
    /\ None \notin Draft /\ None \notin Ask

VARIABLES
    users,     \* the table
    open,      \* the company is active
    pc,        \* pc[r]: where request r is
    body,      \* body[r]: what it brought
    found,     \* found[r]: the user it is about
    read,      \* read[r]: the row it has read, or is to insert
    age,       \* age[r]: ticks since its token was signed
    edits,     \* bounded counter
    \* --- history, read by no guard
    seen,      \* seen[r]: every <<user, row>> of the table since r arrived
    touched    \* touched[r]: columns others have changed since r read

vars == <<users, open, pc, body, found, read, age, edits, seen, touched>>
historyVars == <<seen, touched>>

InFlight == {"logging in", "recording", "changing", "replacing", "updating", "writing",
             "resetting", "creating"}
Ended == {"done", "refused", "conflict", "role check", "rates check"}
Columns == {"email", "password", "role", "min", "max", "status", "active"}

Body(e, p, n, a) == [email |-> e, password |-> p, next |-> n, ask |-> a]
NoBody == Body(None, None, None, None)

Existing == {u \in Users : users[u] # None}

Init ==
    /\ users = [u \in Users |-> IF u \in DOMAIN Founded THEN Founded[u] ELSE None]
    /\ open = TRUE
    /\ pc = [r \in Requests |-> "idle"]
    /\ body = [r \in Requests |-> NoBody]
    /\ found = [r \in Requests |-> None]
    /\ read = [r \in Requests |-> None]
    /\ age = [r \in Requests |-> 0]
    /\ edits = 0
    /\ seen = [r \in Requests |-> {}]
    /\ touched = [r \in Requests |-> {}]

(***************************************************************************)
(* Building blocks                                                         *)
(***************************************************************************)

Moves(r, from, to) ==
    /\ pc[r] = from
    /\ pc' = [pc EXCEPT ![r] = to]

Arrives(r, first, b, u) ==
    /\ Moves(r, "idle", first)
    /\ body' = [body EXCEPT ![r] = b]
    /\ found' = [found EXCEPT ![r] = u]
    /\ seen' = [seen EXCEPT ![r] = {<<w, users[w]>> : w \in Existing}]
    /\ touched' = [touched EXCEPT ![r] = {}]
    /\ UNCHANGED <<users, open, age>>

Counted ==
    /\ edits < MaxEdits
    /\ edits' = edits + 1

\* A statement that leaves the row of u as given, and who sees it.
Writes(u, row) ==
    /\ users' = [users EXCEPT ![u] = row]
    /\ seen' = [q \in Requests |-> seen[q] \cup {<<u, row>>}]
    /\ touched' = [q \in Requests |->
                     IF found[q] = u /\ users[u] # None
                     THEN touched[q] \cup {c \in Columns : users[u][c] # row[c]}
                     ELSE touched[q]]

EmailTaken(u, e) == \E w \in Existing \ {u} : users[w].email = e

\* What the table says to a row for u.
Verdict(u, row) == CASE row.role \notin UserRoles -> "role check"
                     [] row.role \in UserRoles /\ row.max < row.min -> "rates check"
                     [] OTHER -> IF EmailTaken(u, row.email) THEN "conflict" ELSE "stored"

(***************************************************************************)
(* LoginCompanyUser                                                        *)
(***************************************************************************)

LoginArrives(r, e, p) ==
    /\ Arrives(r, "logging in", Body(e, p, None, None), None)
    /\ UNCHANGED <<read, edits>>

\* Faulty variant: status is not looked at, nor is active.
VouchesByPassword(row, p) == row.password = p

\* The row has a password, it is this one, and nobody has been sent away.
Vouches(row, p) == row.active /\ row.status = "active" /\ row.password = p

\* The e-mail is unique, so there is one row to find at most.
LoginReads(r) ==
    /\ \/ \E u \in Existing :
             /\ users[u].email = body[r].email
             /\ open /\ Vouches(users[u], body[r].password)
             /\ Moves(r, "logging in", "recording")
             /\ found' = [found EXCEPT ![r] = u]
             /\ read' = [read EXCEPT ![r] = users[u]]
       \/ /\ \A u \in Existing :
                users[u].email = body[r].email =>
                   ~open \/ ~Vouches(users[u], body[r].password)
          /\ Moves(r, "logging in", "refused")
          /\ UNCHANGED <<found, read>>
    /\ UNCHANGED <<users, open, body, age, edits, historyVars>>

\* last_login_at is written; the token says what was read before.
LoginRecords(r) ==
    /\ Moves(r, "recording", "session")
    /\ age' = [age EXCEPT ![r] = 0]
    /\ UNCHANGED <<users, open, body, found, read, edits, historyVars>>

\* A request that brings the token is let in, and its user and role are those
\* of the claims.
Usable(r) == pc[r] = "session" /\ age[r] < Life

\* Faulty variant: a token that is used is renewed.
TickRenewing ==
    /\ \E r \in Requests : Usable(r)
    /\ age' = [r \in Requests |-> IF Usable(r) THEN 0 ELSE age[r]]
    /\ UNCHANGED <<users, open, pc, body, found, read, edits, historyVars>>

Tick ==
    /\ \E r \in Requests : Usable(r)
    /\ age' = [r \in Requests |-> IF Usable(r) THEN age[r] + 1 ELSE age[r]]
    /\ UNCHANGED <<users, open, pc, body, found, read, edits, historyVars>>

(***************************************************************************)
(* ChangeCompanyUserPassword                                               *)
(***************************************************************************)

ChangeArrives(r, u, p, n) ==
    /\ Counted
    /\ Arrives(r, "changing", Body(None, p, n, None), u)
    /\ UNCHANGED read

\* Faulty variant: the current password is not compared.
ChangeReadsUnchecked(r) ==
    /\ pc[r] = "changing"
    /\ \/ /\ users[found[r]].password # body[r].next
          /\ Moves(r, "changing", "replacing")
       \/ /\ users[found[r]].password = body[r].next
          /\ Moves(r, "changing", "refused")
    /\ UNCHANGED <<users, open, body, found, read, age, edits, historyVars>>

ChangeReads(r) ==
    /\ pc[r] = "changing"
    /\ LET row == users[found[r]]
           good == Vouches(row, body[r].password) /\ row.password # body[r].next
       IN  \/ good /\ Moves(r, "changing", "replacing")
           \/ ~good /\ Moves(r, "changing", "refused")
    /\ UNCHANGED <<users, open, body, found, read, age, edits, historyVars>>

\* The statement does not look at the row again.
SetsPassword(r, from, p) ==
    /\ Moves(r, from, "done")
    /\ Writes(found[r], [users[found[r]] EXCEPT !.password = p])
    /\ UNCHANGED <<open, body, found, read, age, edits>>

ChangeWrites(r) == SetsPassword(r, "replacing", body[r].next)

(***************************************************************************)
(* Collaborators: Create, Update, Delete                                   *)
(***************************************************************************)

\* A new id; the handler has checked the rates.
CreateArrives(r, u, row) ==
    /\ Counted
    /\ u \notin Existing /\ u \notin {found[q] : q \in Requests}
    /\ row.role \in collaboratorRoles /\ row.min <= row.max /\ row.active
    /\ Arrives(r, "creating", NoBody, u)
    /\ read' = [read EXCEPT ![r] = row]

CreateWrites(r) ==
    /\ pc[r] = "creating"
    /\ LET verdict == Verdict(found[r], read[r])
       IN  \/ /\ verdict # "stored"
              /\ Moves(r, "creating", verdict)
              /\ UNCHANGED <<users, historyVars>>
           \/ /\ verdict = "stored"
              /\ Moves(r, "creating", "done")
              /\ Writes(found[r], read[r])
    /\ UNCHANGED <<open, body, found, read, age, edits>>

UpdateArrives(r, u, a) ==
    /\ Counted
    /\ Arrives(r, "updating", Body(None, None, None, a), u)
    /\ UNCHANGED read

Pick(asked, else) == IF asked # None THEN asked ELSE else

\* Faulty variant: a status that is not asked for is normalised too.
WrittenNormalised(now, row, a) ==
    [email |-> Pick(a.email, now.email), password |-> now.password,
     role |-> Pick(a.role, row.role),
     min |-> Pick(a.min, row.min), max |-> Pick(a.max, row.max),
     status |-> Pick(a.status, "active"), active |-> now.active]

\* Faulty variant: the rates are written only if they are asked for.
WrittenPartly(now, row, a) ==
    [email |-> Pick(a.email, now.email), password |-> now.password,
     role |-> Pick(a.role, row.role),
     min |-> Pick(a.min, now.min), max |-> Pick(a.max, now.max),
     status |-> Pick(a.status, row.status), active |-> now.active]

\* What the UPDATE makes of the row as it is now: what was asked, else what was
\* read, but for the e-mail, which is written only if asked for, and for the
\* columns it does not name.
Written(now, row, a) ==
    [email |-> Pick(a.email, now.email), password |-> now.password,
     role |-> Pick(a.role, row.role),
     min |-> Pick(a.min, row.min), max |-> Pick(a.max, row.max),
     status |-> Pick(a.status, row.status), active |-> now.active]

\* The SELECT and the check of the rates.
UpdateReads(r) ==
    /\ pc[r] = "updating"
    /\ LET row == users[found[r]]
           a == body[r].ask
           good == Pick(a.min, row.min) <= Pick(a.max, row.max)
       IN  /\ \/ good /\ Moves(r, "updating", "writing")
              \/ ~good /\ Moves(r, "updating", "refused")
           /\ read' = [read EXCEPT ![r] = row]
    /\ touched' = [touched EXCEPT ![r] = {}]
    /\ UNCHANGED <<users, open, body, found, age, edits, seen>>

UpdateWrites(r) ==
    /\ pc[r] = "writing"
    /\ LET u == found[r]
           row == Written(users[u], read[r], body[r].ask)
           verdict == Verdict(u, row)
       IN  \/ /\ verdict # "stored"
              /\ Moves(r, "writing", verdict)
              /\ UNCHANGED <<users, historyVars>>
           \/ /\ verdict = "stored"
              /\ Moves(r, "writing",
                       IF body[r].ask.password = None THEN "done" ELSE "resetting")
              /\ Writes(u, row)
    /\ UNCHANGED <<open, body, found, read, age, edits>>

UpdateResets(r) == SetsPassword(r, "resetting", body[r].ask.password)

\* One statement.
Delete(u) ==
    /\ Counted
    /\ users[u].role \in collaboratorRoles
    /\ Writes(u, [users[u] EXCEPT !.status = "inactive", !.active = FALSE])
    /\ UNCHANGED <<open, pc, body, found, read, age>>

(***************************************************************************)
(* Everything else                                                         *)
(***************************************************************************)

\* A statement fails, a password is too short, the process ends: what has
\* been written stays.
Fails(r) ==
    /\ \E from \in InFlight : Moves(r, from, "refused")
    /\ UNCHANGED <<users, open, body, found, read, age, edits, historyVars>>

\* Answered, or logged out.
Leaves(r) ==
    /\ pc[r] \in Ended \cup {"session"}
    /\ pc' = [pc EXCEPT ![r] = "idle"]
    /\ body' = [body EXCEPT ![r] = NoBody]
    /\ found' = [found EXCEPT ![r] = None]
    /\ read' = [read EXCEPT ![r] = None]
    /\ age' = [age EXCEPT ![r] = 0]
    /\ seen' = [seen EXCEPT ![r] = {}]
    /\ touched' = [touched EXCEPT ![r] = {}]
    /\ UNCHANGED <<users, open, edits>>

\* No code does: somebody with access to the database.
Suspend ==
    /\ Counted
    /\ open /\ open' = FALSE
    /\ UNCHANGED <<users, pc, body, found, read, age, historyVars>>

Next ==
    \/ \E r \in Requests, e \in Emails, p \in Passwords : LoginArrives(r, e, p)
    \/ \E r \in Requests, u \in Existing, p, n \in Passwords : ChangeArrives(r, u, p, n)
    \/ \E r \in Requests, u \in Users, row \in Draft :
          CreateArrives(r, u, row)
    \/ \E r \in Requests, u \in Existing, a \in Asks : UpdateArrives(r, u, a)
    \/ \E r \in Requests :
          \/ LoginReads(r) \/ LoginRecords(r)
          \/ ChangeReads(r) \/ ChangeWrites(r)
          \/ CreateWrites(r)
          \/ UpdateReads(r) \/ UpdateWrites(r) \/ UpdateResets(r)
          \/ Fails(r) \/ Leaves(r)
    \/ \E u \in Existing : Delete(u)
    \/ Tick \/ Suspend

\* Time passes, and a login that has begun gets an answer from PostgreSQL.
Fairness ==
    /\ WF_vars(Tick)
    /\ \A r \in Requests : WF_vars(LoginReads(r) \/ LoginRecords(r))

Spec == Init /\ [][Next]_vars /\ Fairness

(***************************************************************************)
(* Properties                                                              *)
(***************************************************************************)

TypeOK ==
    /\ users \in [Users -> Row \cup {None}]
    /\ open \in BOOLEAN
    /\ pc \in [Requests -> InFlight \cup Ended \cup {"idle", "session"}]
    /\ body \in [Requests -> [email : Emails \cup {None}, password : Passwords \cup {None},
                              next : Passwords \cup {None}, ask : Ask \cup {None}]]
    /\ found \in [Requests -> Users \cup {None}]
    /\ read \in [Requests -> Draft \cup {None}]
    /\ age \in [Requests -> 0 .. Life]
    /\ edits \in 0 .. MaxEdits
    /\ seen \in [Requests -> SUBSET (Users \X Row)]
    /\ touched \in [Requests -> SUBSET Columns]

Knew(p, row) == row.password = p /\ row.active /\ row.status = "active"

\* A session speaks for a user whose row had the e-mail and the password of
\* the login, and was active, all at one moment since the login arrived; its
\* claims are of that moment, whatever Updates, Deletes, changes of password
\* and exchanges of e-mails came between the two statements.
SessionsAreVouched ==
    \A r \in Requests : pc[r] \in {"recording", "session"} =>
        /\ <<found[r], read[r]>> \in seen[r]
        /\ read[r].email = body[r].email
        /\ Knew(body[r].password, read[r])

\* No two users share an e-mail, so that a login finds one row at most.
EmailsAreUnique ==
    \A u, w \in Existing : users[u].email = users[w].email => u = w

\* Update checks the rates it merges from body and row, and writes both: the
\* CHECK of the table never has to refuse it, however updates overlap.
RatesCheckNeverFires ==
    /\ \A r \in Requests : pc[r] # "rates check"
    /\ \A u \in Existing : users[u].min <= users[u].max

\* A password is replaced by an administrator's Update that asks for it, or by
\* a change whose sender knew a password the user had, while active, since the
\* change arrived.  It need not be the one that is replaced: a reset in between
\* is lost.
PasswordsAreVouched ==
    [][\A u \in Existing : users'[u].password # users[u].password =>
          \E r \in Requests :
             /\ found[r] = u /\ pc'[r] = "done"
             /\ \/ pc[r] = "resetting" /\ users'[u].password = body[r].ask.password
                \/ /\ pc[r] = "replacing" /\ users'[u].password = body[r].next
                   /\ \E s \in seen[r] : s[1] = u /\ Knew(body[r].password, s[2])
      ]_vars

Asked(a, c) == CASE c = "email"  -> a.email
                 [] c = "role"   -> a.role
                 [] c = "min"    -> a.min
                 [] c = "max"    -> a.max
                 [] c = "status" -> a.status
                 [] OTHER        -> None

\* Update changes a column to what was asked for, or else takes back what
\* somebody else has changed since it read the row: the lost update, and
\* nothing more than it.
UpdatesLoseOnlyOverlaps ==
    [][\A r \in Requests : pc[r] = "writing" /\ pc'[r] \in {"done", "resetting"} =>
          LET u == found[r] IN
          \A c \in Columns : users'[u][c] # users[u][c] =>
             \/ c \in touched[r]
             \/ users'[u][c] = Asked(body[r].ask, c)]_vars

\* A user who stays deleted, or whose company stays suspended, is without a
\* usable session at last: nothing makes a deleted user active again, and the
\* tokens signed before run out.
SentAwayAtLast ==
    \A u \in Users :
        <>[](u \in Existing /\ (~open \/ ~users[u].active))
            => <>[](\A r \in Requests : ~(Usable(r) /\ found[r] = u))

\* "Delete (soft delete)": a deleted user stays inactive until an Update asks
\* for another status.  It does not: an Update that has read the row before
\* writes its status back, and the next sync pays a user who cannot log in.
DeletedStayInactive ==
    [][\A u \in Existing :
          /\ ~users[u].active /\ users[u].status = "inactive"
          /\ users'[u].status = "active"
          => \E r \in Requests : pc[r] = "writing" /\ found[r] = u /\ body[r].ask.status = "active"
      ]_vars

=============================================================================
