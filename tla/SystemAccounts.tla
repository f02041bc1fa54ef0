--------------------------- MODULE SystemAccounts ---------------------------
(***************************************************************************)
(* The accounts of the system's own administrators: the setup of the first *)
(* one, their logins and the command that creates or resets one.           *)
(*                                                                         *)
(* Requests run at the same time, each statement in a transaction of its   *)
(* own: a setup counts the rows, then inserts one; a login reads a row,    *)
(* then records the login and signs a session.  Whatever a request has     *)
(* read may have changed when it writes.                                   *)
(***************************************************************************)
EXTENDS Naturals, FiniteSets

CONSTANTS
    Emails,       \* normalised e-mails
    Passwords,    \* of eight characters or more; a hash stands for one of them
    Requests,     \* requests that may be served at the same time
    None,         \* a row that does not exist, a field of an idle request
    MaxCommands   \* bound: runs of create-system-user and deactivations

ASSUME SystemAssumption ==
    /\ MaxCommands \in Nat
    /\ None \notin Emails \cup Passwords \cup [password : Passwords, active : BOOLEAN]

VARIABLES
    systemUsers,  \* the table, by its unique e-mail
    request,      \* request[r]: where r is, and what its body says
    commands,     \* bounded counter
    \* --- history, read by no guard
    held,         \* held[r]: rows of its e-mail since r arrived
    late,         \* late[r]: somebody was registered when r arrived
    founders      \* e-mails inserted by a setup

vars == <<systemUsers, request, commands, held, late, founders>>

Row == [password : Passwords, active : BOOLEAN]

Waiting == {"counting", "inserting", "reading", "recording"}
Ended == {"session", "closed", "conflict", "refused"}

At(where, e, p) == [pc |-> where, email |-> e, password |-> p]
Idle == At("idle", None, None)

Registered == {e \in Emails : systemUsers[e] # None}

\* The rows an e-mail has.
RowsOf(e) == {systemUsers[e]} \ {None}

Init ==
    /\ systemUsers = [e \in Emails |-> None]
    /\ request = [r \in Requests |-> Idle]
    /\ commands = 0
    /\ held = [r \in Requests |-> {}]
    /\ late = [r \in Requests |-> FALSE]
    /\ founders = {}

Moves(r, from, to) ==
    /\ request[r].pc = from
    /\ request' = [request EXCEPT ![r] = At(to, request[r].email, request[r].password)]

\* The statement that leaves the row of e as given, and who sees it.
Writes(e, row) ==
    /\ systemUsers' = [systemUsers EXCEPT ![e] = row]
    /\ held' = [q \in Requests |->
                  IF request[q].email = e THEN held[q] \cup {row} ELSE held[q]]

Arrives(r, first, e, p) ==
    /\ request[r].pc = "idle"
    /\ request' = [request EXCEPT ![r] = At(first, e, p)]
    /\ held' = [held EXCEPT ![r] = RowsOf(e)]
    /\ late' = [late EXCEPT ![r] = Registered # {}]
    /\ UNCHANGED <<systemUsers, commands, founders>>

(***************************************************************************)
(* SetupInitialSystemUser                                                  *)
(***************************************************************************)

SetupArrives(r, e, p) == Arrives(r, "counting", e, p)

\* BootstrapStatus, the normalisation and the hash.
SetupCounts(r) ==
    /\ \/ Registered = {} /\ Moves(r, "counting", "inserting")
       \/ Registered # {} /\ Moves(r, "counting", "closed")
    /\ UNCHANGED <<systemUsers, commands, held, late, founders>>

\* Faulty variant: ON CONFLICT DO UPDATE, as in the command.
SetupUpserts(r) ==
    LET e == request[r].email IN
    /\ Moves(r, "inserting", "recording")
    /\ Writes(e, [password |-> request[r].password, active |-> TRUE])
    /\ founders' = founders \cup {e}
    /\ UNCHANGED <<commands, late>>

SetupInserts(r) ==
    LET e == request[r].email IN
    /\ Moves(r, "inserting", "recording")
    /\ systemUsers[e] = None
    /\ Writes(e, [password |-> request[r].password, active |-> TRUE])
    /\ founders' = founders \cup {e}
    /\ UNCHANGED <<commands, late>>

\* The unique violation.
SetupConflicts(r) ==
    /\ Moves(r, "inserting", "conflict")
    /\ systemUsers[request[r].email] # None
    /\ UNCHANGED <<systemUsers, commands, held, late, founders>>

(***************************************************************************)
(* LoginSystem                                                             *)
(***************************************************************************)

LoginArrives(r, e, p) == Arrives(r, "reading", e, p)

Vouches(row, p) == row.active /\ row.password = p

\* Faulty variant: an inactive row will do.
GoodWhenInactive(r) ==
    \E row \in RowsOf(request[r].email) : row.password = request[r].password

\* There is a row, it is active and the password matches.
Good(r) == \E row \in RowsOf(request[r].email) : Vouches(row, request[r].password)

LoginReads(r) ==
    /\ request[r].pc = "reading"
    /\ \/ Good(r) /\ Moves(r, "reading", "recording")
       \/ ~Good(r) /\ Moves(r, "reading", "refused")
    /\ UNCHANGED <<systemUsers, commands, held, late, founders>>

(***************************************************************************)
(* What both end with                                                      *)
(***************************************************************************)

\* last_login_at is written whatever the row has become; issueSystemSession.
Records(r) ==
    /\ Moves(r, "recording", "session")
    /\ UNCHANGED <<systemUsers, commands, held, late, founders>>

\* A statement fails, the body is no good, the process ends: what has been
\* written stays.
Fails(r) ==
    /\ \E from \in Waiting : Moves(r, from, "refused")
    /\ UNCHANGED <<systemUsers, commands, held, late, founders>>

Returns(r) ==
    /\ request[r].pc \in Ended
    /\ request' = [request EXCEPT ![r] = Idle]
    /\ UNCHANGED <<systemUsers, commands, held, late, founders>>

(***************************************************************************)
(* The command line and the database                                       *)
(***************************************************************************)

\* Faulty variant: the row keeps no password.
CreateSystemUserWithoutHash(e, p) ==
    /\ commands < MaxCommands
    /\ commands' = commands + 1
    /\ Writes(e, [password |-> None, active |-> TRUE])
    /\ UNCHANGED <<request, late, founders>>

\* create-system-user: one upsert.
CreateSystemUser(e, p) ==
    /\ commands < MaxCommands
    /\ commands' = commands + 1
    /\ Writes(e, [password |-> p, active |-> TRUE])
    /\ UNCHANGED <<request, late, founders>>

\* No code does: somebody with access to the database.
Deactivate(e) ==
    /\ commands < MaxCommands
    /\ systemUsers[e] # None
    /\ commands' = commands + 1
    /\ Writes(e, [password |-> systemUsers[e].password, active |-> FALSE])
    /\ UNCHANGED <<request, late, founders>>

Next ==
    \/ \E r \in Requests, e \in Emails, p \in Passwords :
          SetupArrives(r, e, p) \/ LoginArrives(r, e, p)
    \/ \E r \in Requests :
          \/ SetupCounts(r) \/ SetupInserts(r) \/ SetupConflicts(r)
          \/ LoginReads(r)
          \/ Records(r) \/ Fails(r) \/ Returns(r)
    \/ \E e \in Emails, p \in Passwords : CreateSystemUser(e, p)
    \/ \E e \in Emails : Deactivate(e)

Spec == Init /\ [][Next]_vars

(***************************************************************************)
(* Properties                                                              *)
(***************************************************************************)

TypeOK ==
    /\ systemUsers \in [Emails -> Row \cup {None}]
    /\ request \in [Requests -> [pc : Waiting \cup Ended \cup {"idle"},
                                 email : Emails \cup {None},
                                 password : Passwords \cup {None}]]
    /\ \A r \in Requests : request[r].pc # "idle" =>
          request[r].email \in Emails /\ request[r].password \in Passwords
    /\ commands \in 0 .. MaxCommands
    /\ held \in [Requests -> SUBSET Row]
    /\ late \in [Requests -> BOOLEAN]
    /\ founders \subseteq Registered

\* A session, and the login it is about to record, belongs to an e-mail whose
\* row was active and had the password of the request at some moment since
\* the request arrived: what LoginSystem read may be stale, never made up.
SessionsAreVouched ==
    \A r \in Requests : request[r].pc \in {"recording", "session"} =>
        \E row \in held[r] : Vouches(row, request[r].password)

\* SetupInitialSystemUser is closed to a request that arrives when somebody
\* is registered, however the other requests and the command interleave.
SetupStaysClosed ==
    \A r \in Requests : late[r] => request[r].pc # "inserting"

\* A setup never touches a row that exists: the password of a system user
\* changes by the command only, so that of two setups with the same e-mail
\* the one that was answered with a session is the one that holds.
SetupsKeepOthers ==
    [][\A e \in Emails :
          /\ systemUsers[e] # None
          /\ \E r \in Requests : request[r].pc = "inserting" /\ request'[r].pc # "inserting"
          => systemUsers'[e] = systemUsers[e]]_vars

\* "o usuario principal do sistema ja foi configurado": setups make one user.
\* They do not: two that count before either inserts both insert.
OneInitialUser == Cardinality(founders) <= 1

=============================================================================
