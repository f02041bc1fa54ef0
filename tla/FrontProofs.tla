----------------------------- MODULE FrontProofs -----------------------------
(***************************************************************************)
(* Proofs about the single requests of MCFront: about SystemAccounts, for  *)
(* any number of e-mails, requests and runs of the command, about          *)
(* UtmifyCalls, for any number of calls, retries and ticks, about Portal,  *)
(* for any ads, dashboards, roles and days, and about Routing, for any     *)
(* companies and roles (RoutingProofs).  They end in theorems of MCSpec,   *)
(* with the constants as they are there.                                   *)
(***************************************************************************)
EXTENDS MCFront, FiniteSetTheorems, TLAPS

(***************************************************************************)
(* SystemAccounts                                                          *)
(***************************************************************************)

ReqState == [pc : Waiting \cup Ended \cup {"idle"},
             email : Emails \cup {None},
             password : Passwords \cup {None}]

\* A request under way knows the row its e-mail has now.
HeldIsCurrent ==
    \A r \in Requests, e \in Emails :
        /\ request[r].pc # "idle" /\ request[r].email = e
        /\ systemUsers[e] # None
        => systemUsers[e] \in held[r]

\* Nobody is ever unregistered.
LateMeansRegistered == \A r \in Requests : late[r] => Registered # {}

IInv ==
    /\ TypeOK
    /\ HeldIsCurrent
    /\ LateMeansRegistered
    /\ SessionsAreVouched
    /\ SetupStaysClosed

(***************************************************************************)
(* Facts about the building blocks of the actions                          *)
(***************************************************************************)

LEMMA RowNotNone == \A row \in Row : row # None
  BY SystemAssumption DEF Row

\* A request that moves keeps its body.
LEMMA MovesFacts ==
  ASSUME TypeOK, NEW r \in Requests, NEW from, NEW to \in Waiting \cup Ended,
         from # "idle", Moves(r, from, to)
  PROVE  /\ request[r].pc = from
         /\ request[r].email \in Emails /\ request[r].password \in Passwords
         /\ request'[r] = At(to, request[r].email, request[r].password)
         /\ \A q \in Requests \ {r} : request'[q] = request[q]
         /\ \A q \in Requests : request'[q].email = request[q].email
                             /\ request'[q].password = request[q].password
         /\ request' \in [Requests -> ReqState]
         /\ \A q \in Requests : request'[q].pc # "idle" =>
               request'[q].email \in Emails /\ request'[q].password \in Passwords
  BY DEF TypeOK, Moves, At, ReqState

\* What a statement that writes a row leaves behind.
LEMMA WritesFacts ==
  ASSUME TypeOK, NEW e \in Emails, NEW row \in Row, Writes(e, row)
  PROVE  /\ systemUsers' \in [Emails -> Row \cup {None}]
         /\ held' \in [Requests -> SUBSET Row]
         /\ Registered \subseteq Registered' /\ e \in Registered'
         /\ systemUsers'[e] = row
         /\ \A f \in Emails \ {e} : systemUsers'[f] = systemUsers[f]
         /\ \A q \in Requests : held[q] \subseteq held'[q]
         /\ \A q \in Requests : request[q].email = e => row \in held'[q]
  BY RowNotNone DEF TypeOK, Writes, Registered

LEMMA NewRow == \A p \in Passwords, a \in BOOLEAN : [password |-> p, active |-> a] \in Row
  BY DEF Row

LEMMA RowsOfFacts ==
  ASSUME TypeOK, NEW e \in Emails
  PROVE  /\ RowsOf(e) \subseteq Row
         /\ systemUsers[e] # None => systemUsers[e] \in RowsOf(e)
         /\ \A row \in RowsOf(e) : row = systemUsers[e] /\ systemUsers[e] # None
  BY DEF TypeOK, RowsOf

(***************************************************************************)
(* The inductive invariant                                                 *)
(***************************************************************************)

LEMMA InitIInv == Init => IInv
  BY SystemAssumption DEF Init, IInv, TypeOK, HeldIsCurrent, LateMeansRegistered,
     SessionsAreVouched, SetupStaysClosed, Registered, Idle, At

LEMMA ArrivesKeeps ==
  ASSUME IInv, NEW r \in Requests, NEW first \in {"counting", "reading"},
         NEW e \in Emails, NEW p \in Passwords, Arrives(r, first, e, p)
  PROVE  IInv'
<1>1. /\ request'[r] = At(first, e, p)
      /\ \A q \in Requests \ {r} : request'[q] = request[q] /\ held'[q] = held[q]
                                /\ late'[q] = late[q]
      /\ held'[r] = RowsOf(e) /\ late'[r] = (Registered # {})
      /\ UNCHANGED <<systemUsers, commands, founders>>
  BY DEF IInv, TypeOK, Arrives
<1>2. Registered' = Registered
  BY <1>1 DEF Registered
<1>3. TypeOK'
  <2>1. request' \in [Requests -> ReqState]
    BY DEF IInv, TypeOK, Arrives, At, ReqState, Waiting
  <2>2. held' \in [Requests -> SUBSET Row] /\ late' \in [Requests -> BOOLEAN]
    BY RowsOfFacts DEF IInv, TypeOK, Arrives
  <2>3. \A q \in Requests : request'[q].pc # "idle" =>
           request'[q].email \in Emails /\ request'[q].password \in Passwords
    BY <1>1 DEF IInv, TypeOK, At
  <2> QED BY <1>1, <1>2, <2>1, <2>2, <2>3 DEF IInv, TypeOK, ReqState
<1>4. HeldIsCurrent'
  BY <1>1, RowsOfFacts DEF IInv, HeldIsCurrent, At
<1>5. LateMeansRegistered'
  BY <1>1, <1>2 DEF IInv, LateMeansRegistered
<1>6. SessionsAreVouched'
  BY <1>1 DEF IInv, SessionsAreVouched, At, Vouches
<1>7. SetupStaysClosed'
  BY <1>1 DEF IInv, SetupStaysClosed, At
<1> QED BY <1>3, <1>4, <1>5, <1>6, <1>7 DEF IInv

\* A request moves and writes nothing: what is left to show is that it may
\* stand where it has arrived.
LEMMA MovingKeeps ==
  ASSUME IInv, NEW r \in Requests, NEW from, NEW to \in Waiting \cup Ended,
         from # "idle", Moves(r, from, to),
         UNCHANGED <<systemUsers, commands, held, late, founders>>,
         to \in {"recording", "session"} =>
            \E row \in held[r] : Vouches(row, request[r].password),
         to = "inserting" => ~late[r]
  PROVE  IInv'
<1>1. TypeOK BY DEF IInv
<1>2. /\ request[r].pc = from
      /\ request'[r] = At(to, request[r].email, request[r].password)
      /\ \A q \in Requests \ {r} : request'[q] = request[q]
      /\ \A q \in Requests : request'[q].email = request[q].email
                          /\ request'[q].password = request[q].password
      /\ request' \in [Requests -> ReqState]
      /\ \A q \in Requests : request'[q].pc # "idle" =>
            request'[q].email \in Emails /\ request'[q].password \in Passwords
  BY <1>1, MovesFacts
<1>3. TypeOK'
  BY <1>1, <1>2 DEF TypeOK, Registered, ReqState
<1>4. HeldIsCurrent'
  BY <1>2 DEF IInv, HeldIsCurrent
<1>5. LateMeansRegistered'
  BY DEF IInv, LateMeansRegistered, Registered
<1>6. SessionsAreVouched'
  <2> SUFFICES ASSUME NEW q \in Requests, request'[q].pc \in {"recording", "session"}
               PROVE  \E row \in held'[q] : Vouches(row, request'[q].password)
    BY DEF SessionsAreVouched, Vouches
  <2>1. CASE q = r
    BY <2>1, <1>2 DEF At, Vouches
  <2>2. CASE q # r
    BY <2>2, <1>2 DEF IInv, SessionsAreVouched, Vouches
  <2> QED BY <2>1, <2>2
<1>7. SetupStaysClosed'
  BY <1>2 DEF IInv, SetupStaysClosed, At
<1> QED BY <1>3, <1>4, <1>5, <1>6, <1>7 DEF IInv

\* The command and the operator: a row is written, nobody moves.
LEMMA WritingKeeps ==
  ASSUME IInv, NEW e \in Emails, NEW row \in Row, Writes(e, row),
         commands' \in 0 .. MaxCommands,
         UNCHANGED <<request, late, founders>>
  PROVE  IInv'
<1>1. TypeOK BY DEF IInv
<1>2. /\ systemUsers' \in [Emails -> Row \cup {None}]
      /\ held' \in [Requests -> SUBSET Row]
      /\ Registered \subseteq Registered' /\ e \in Registered'
      /\ systemUsers'[e] = row
      /\ \A f \in Emails \ {e} : systemUsers'[f] = systemUsers[f]
      /\ \A q \in Requests : held[q] \subseteq held'[q]
      /\ \A q \in Requests : request[q].email = e => row \in held'[q]
  BY <1>1, WritesFacts
<1>3. TypeOK' BY <1>1, <1>2 DEF TypeOK
<1>4. HeldIsCurrent' BY <1>2 DEF IInv, HeldIsCurrent
<1>5. LateMeansRegistered' BY <1>2 DEF IInv, LateMeansRegistered
<1>6. SessionsAreVouched' BY <1>2 DEF IInv, SessionsAreVouched, Vouches
<1>7. SetupStaysClosed' BY DEF IInv, SetupStaysClosed
<1> QED BY <1>3, <1>4, <1>5, <1>6, <1>7 DEF IInv

LEMMA SetupInsertsKeeps ==
  ASSUME IInv, NEW r \in Requests, SetupInserts(r)
  PROVE  IInv'
<1> DEFINE e == request[r].email
           row == [password |-> request[r].password, active |-> TRUE]
<1>1. TypeOK /\ Moves(r, "inserting", "recording") BY DEF IInv, SetupInserts
<1>2. "recording" \in Waiting \cup Ended BY DEF Waiting
<1>3. /\ request[r].pc = "inserting"
      /\ e \in Emails /\ request[r].password \in Passwords
      /\ request'[r] = At("recording", e, request[r].password)
      /\ \A q \in Requests \ {r} : request'[q] = request[q]
      /\ \A q \in Requests : request'[q].email = request[q].email
                          /\ request'[q].password = request[q].password
      /\ request' \in [Requests -> ReqState]
      /\ \A q \in Requests : request'[q].pc # "idle" =>
            request'[q].email \in Emails /\ request'[q].password \in Passwords
  BY <1>1, <1>2, MovesFacts
<1>4. row \in Row BY <1>3, NewRow
<1>5. Writes(e, row) BY DEF SetupInserts
<1>6. /\ systemUsers' \in [Emails -> Row \cup {None}]
      /\ held' \in [Requests -> SUBSET Row]
      /\ Registered \subseteq Registered' /\ e \in Registered'
      /\ systemUsers'[e] = row
      /\ \A f \in Emails \ {e} : systemUsers'[f] = systemUsers[f]
      /\ \A q \in Requests : held[q] \subseteq held'[q]
      /\ \A q \in Requests : request[q].email = e => row \in held'[q]
  BY <1>1, <1>3, <1>4, <1>5, WritesFacts
<1>7. founders' = founders \cup {e} /\ UNCHANGED <<commands, late>>
  BY DEF SetupInserts
<1>8. row.password = request[r].password /\ row.active OBVIOUS
<1> HIDE DEF e, row
<1>9. TypeOK'
  BY <1>1, <1>3, <1>6, <1>7 DEF TypeOK, ReqState
<1>10. HeldIsCurrent'
  <2> SUFFICES ASSUME NEW q \in Requests, NEW f \in Emails, request'[q].pc # "idle",
                      request'[q].email = f, systemUsers'[f] # None
               PROVE  systemUsers'[f] \in held'[q]
    BY DEF HeldIsCurrent
  <2>1. request[q].email = f /\ request[q].pc # "idle" BY <1>3
  <2> QED BY <2>1, <1>6 DEF IInv, HeldIsCurrent
<1>11. LateMeansRegistered' BY <1>6, <1>7 DEF IInv, LateMeansRegistered
<1>12. SessionsAreVouched'
  <2> SUFFICES ASSUME NEW q \in Requests, request'[q].pc \in {"recording", "session"}
               PROVE  \E w \in held'[q] : Vouches(w, request'[q].password)
    BY DEF SessionsAreVouched, Vouches
  <2>1. CASE q = r
    BY <2>1, <1>3, <1>6, <1>8 DEF Vouches, e
  <2>2. CASE q # r
    BY <2>2, <1>3, <1>6 DEF IInv, SessionsAreVouched, Vouches
  <2> QED BY <2>1, <2>2
<1>13. SetupStaysClosed'
  BY <1>3, <1>7 DEF IInv, SetupStaysClosed, At
<1> QED BY <1>9, <1>10, <1>11, <1>12, <1>13 DEF IInv

LEMMA NextIInv == IInv /\ [Next]_vars => IInv'
<1> SUFFICES ASSUME IInv, [Next]_vars PROVE IInv'
  OBVIOUS
<1> USE DEF Waiting, Ended
<1>1. ASSUME NEW r \in Requests, NEW e \in Emails, NEW p \in Passwords,
             SetupArrives(r, e, p) \/ LoginArrives(r, e, p)
      PROVE  IInv'
  BY <1>1, ArrivesKeeps DEF SetupArrives, LoginArrives
<1>2. ASSUME NEW r \in Requests, SetupCounts(r) PROVE IInv'
  <2>1. CASE Registered = {} /\ Moves(r, "counting", "inserting")
    <3>1. ~late[r] BY <2>1 DEF IInv, LateMeansRegistered
    <3> QED BY <1>2, <2>1, <3>1, MovingKeeps DEF SetupCounts
  <2>2. CASE Moves(r, "counting", "closed")
    BY <1>2, <2>2, MovingKeeps DEF SetupCounts
  <2> QED BY <1>2, <2>1, <2>2 DEF SetupCounts
<1>3. ASSUME NEW r \in Requests, SetupInserts(r) PROVE IInv'
  BY <1>3, SetupInsertsKeeps
<1>4. ASSUME NEW r \in Requests, SetupConflicts(r) PROVE IInv'
  BY <1>4, MovingKeeps DEF SetupConflicts
<1>5. ASSUME NEW r \in Requests, LoginReads(r) PROVE IInv'
  <2>1. CASE Good(r) /\ Moves(r, "reading", "recording")
    <3>1. request[r].email \in Emails /\ request[r].pc = "reading"
      BY <1>5 DEF LoginReads, IInv, TypeOK
    <3>2. PICK row \in RowsOf(request[r].email) : Vouches(row, request[r].password)
      BY <2>1 DEF Good
    <3>3. row \in held[r]
      BY <3>1, <3>2, RowsOfFacts DEF IInv, HeldIsCurrent
    <3> QED BY <1>5, <2>1, <3>2, <3>3, MovingKeeps DEF LoginReads
  <2>2. CASE Moves(r, "reading", "refused")
    BY <1>5, <2>2, MovingKeeps DEF LoginReads
  <2> QED BY <1>5, <2>1, <2>2 DEF LoginReads
<1>6. ASSUME NEW r \in Requests, Records(r) PROVE IInv'
  <2>1. request[r].pc = "recording" BY <1>6 DEF Records, Moves
  <2>2. \E row \in held[r] : Vouches(row, request[r].password)
    BY <2>1 DEF IInv, SessionsAreVouched
  <2> QED BY <1>6, <2>2, MovingKeeps DEF Records
<1>7. ASSUME NEW r \in Requests, Fails(r) PROVE IInv'
  <2>1. PICK from \in Waiting : Moves(r, from, "refused") BY <1>7 DEF Fails
  <2> QED BY <1>7, <2>1, MovingKeeps DEF Fails
<1>8. ASSUME NEW r \in Requests, Returns(r) PROVE IInv'
  <2>1. /\ request'[r] = Idle
        /\ \A q \in Requests \ {r} : request'[q] = request[q]
        /\ request' \in [Requests -> ReqState]
        /\ UNCHANGED <<systemUsers, commands, held, late, founders>>
    BY <1>8 DEF Returns, IInv, TypeOK, ReqState, Idle, At
  <2>2. Idle.pc = "idle" BY DEF Idle, At
  <2>3. TypeOK' BY <2>1, <2>2 DEF IInv, TypeOK, ReqState, Registered
  <2>4. HeldIsCurrent' BY <2>1, <2>2 DEF IInv, HeldIsCurrent
  <2>5. LateMeansRegistered' BY <2>1 DEF IInv, LateMeansRegistered, Registered
  <2>6. SessionsAreVouched' BY <2>1, <2>2 DEF IInv, SessionsAreVouched, Vouches
  <2>7. SetupStaysClosed' BY <2>1, <2>2 DEF IInv, SetupStaysClosed
  <2> QED BY <2>3, <2>4, <2>5, <2>6, <2>7 DEF IInv
<1>9. ASSUME NEW e \in Emails, NEW p \in Passwords, CreateSystemUser(e, p) PROVE IInv'
  <2>1. commands' \in 0 .. MaxCommands
    BY <1>9, SystemAssumption DEF CreateSystemUser, IInv, TypeOK
  <2> QED BY <1>9, <2>1, NewRow, WritingKeeps DEF CreateSystemUser
<1>10. ASSUME NEW e \in Emails, Deactivate(e) PROVE IInv'
  <2>1. commands' \in 0 .. MaxCommands
    BY <1>10, SystemAssumption DEF Deactivate, IInv, TypeOK
  <2>2. systemUsers[e].password \in Passwords
    BY <1>10 DEF Deactivate, IInv, TypeOK, Row
  <2> QED BY <1>10, <2>1, <2>2, NewRow, WritingKeeps DEF Deactivate
<1>11. CASE UNCHANGED vars
  BY <1>11 DEF vars, IInv, TypeOK, HeldIsCurrent, LateMeansRegistered,
     SessionsAreVouched, SetupStaysClosed, Registered, Vouches
<1> QED
  BY <1>1, <1>2, <1>3, <1>4, <1>5, <1>6, <1>7, <1>8, <1>9, <1>10, <1>11 DEF Next

LEMMA Invariance == Spec => []IInv
  BY InitIInv, NextIInv, PTL DEF Spec


\* Every session is vouched for by a row its e-mail had while it was asked.
THEOREM Vouched == Spec => []SessionsAreVouched
  BY Invariance, PTL DEF IInv

\* Setup is closed to whoever comes after the first system user.
THEOREM SetupClosed == Spec => []SetupStaysClosed
  BY Invariance, PTL DEF IInv

\* The tables, requests and histories have their types.
THEOREM SystemTyped == Spec => []TypeOK
  BY Invariance, PTL DEF IInv

\* No setup changes a row that exists.
THEOREM SetupsKeepOthersHolds == Spec => SetupsKeepOthers
<1>1. IInv /\ [Next]_vars =>
        [\A e \in Emails :
            /\ systemUsers[e] # None
            /\ \E r \in Requests : request[r].pc = "inserting" /\ request'[r].pc # "inserting"
            => systemUsers'[e] = systemUsers[e]]_vars
  <2> SUFFICES ASSUME IInv, Next, NEW e \in Emails, systemUsers[e] # None,
                      NEW q \in Requests, request[q].pc = "inserting",
                      request'[q].pc # "inserting"
               PROVE  systemUsers'[e] = systemUsers[e]
    BY DEF vars
  <2>1. ASSUME NEW r \in Requests, SetupInserts(r) PROVE systemUsers'[e] = systemUsers[e]
    BY <2>1 DEF SetupInserts, Writes, IInv, TypeOK
  <2>2. ASSUME NEW f \in Emails, NEW p \in Passwords, CreateSystemUser(f, p) PROVE FALSE
    BY <2>2 DEF CreateSystemUser
  <2>3. ASSUME NEW f \in Emails, Deactivate(f) PROVE FALSE
    BY <2>3 DEF Deactivate
  <2> QED
    BY <2>1, <2>2, <2>3 DEF Next, SetupArrives, LoginArrives, Arrives, SetupCounts,
       SetupConflicts, LoginReads, Records, Fails, Returns
<1> QED BY <1>1, Invariance, PTL DEF Spec, SetupsKeepOthers

(***************************************************************************)
(* UtmifyCalls: how long a call takes                                      *)
(***************************************************************************)

CallState == [pc : {"idle", "asking", "waiting"} \cup Utmify!Ended, tools : 0 .. 2,
              attempt : Nat, timer : Nat, age : Nat]

CallsTyped ==
    /\ call \in [Calls -> CallState]
    /\ phase \in 0 .. Window - 1
    /\ served \in Nat

\* What n refused requests and the waits after them take.
Refused(n) == n * (RequestTicks + 1)

\* c is as old as what it has asked for allows.
InTime(c) ==
    LET k == call[c]
        before == IF c \in LookUps /\ k.tools = 1 THEN Utmify!ToolTicks ELSE 0
    IN  /\ k.pc = "idle" => k.age = 0 /\ (k.tools = 2 <=> c \in LookUps)
        /\ k.pc \in {"idle", "asking", "waiting"} =>
              k.tools \in {1, 2} /\ (k.tools = 2 => c \in LookUps)
        /\ k.pc \in {"asking", "waiting"} /\ c \in Jobs => k.age <= Deadline
        /\ k.pc = "asking" =>
              /\ k.attempt <= MaxRetries /\ k.timer <= RequestTicks
              /\ k.age <= before + Refused(k.attempt) + k.timer
        /\ k.pc = "waiting" =>
              /\ k.attempt < MaxRetries /\ k.timer <= 1
              /\ k.age <= before + Refused(k.attempt) + RequestTicks + k.timer

\* The arithmetic of attempts.
LEMMA RefusedFacts ==
    ASSUME NEW n \in Nat
    PROVE  /\ Refused(n) \in Nat /\ Utmify!ToolTicks \in Nat
           /\ Refused(0) = 0
           /\ Refused(n + 1) = Refused(n) + RequestTicks + 1
           /\ n <= MaxRetries => Refused(n) + RequestTicks <= Utmify!ToolTicks
           /\ n < MaxRetries => Refused(n) + RequestTicks + 1 <= Utmify!ToolTicks
<1>1. /\ Refused(n) \in Nat /\ Refused(0) = 0
      /\ Refused(n + 1) = Refused(n) + RequestTicks + 1
    BY TimesAssumption DEF Refused
<1>2. Utmify!ToolTicks = Refused(MaxRetries) + RequestTicks /\ Utmify!ToolTicks \in Nat
    BY TimesAssumption DEF Refused, Utmify!ToolTicks
<1>3. ASSUME NEW a \in Nat, NEW b \in Nat, a <= b PROVE Refused(a) <= Refused(b)
  <2>1. PICK d \in Nat : b = a + d
    <3>1. b - a \in Nat /\ b = a + (b - a)
        BY <1>3
    <3> QED
        BY <3>1
  <2>2. (a + d) * (RequestTicks + 1)
            = a * (RequestTicks + 1) + d * (RequestTicks + 1)
      BY TimesAssumption
  <2>3. /\ d * (RequestTicks + 1) \in Nat
        /\ a * (RequestTicks + 1) \in Nat
      BY TimesAssumption
  <2> QED
      BY <2>1, <2>2, <2>3 DEF Refused
<1>4. n <= MaxRetries => Refused(n) <= Refused(MaxRetries)
    BY <1>3, TimesAssumption
<1>5. n < MaxRetries => Refused(n + 1) <= Refused(MaxRetries)
    BY <1>3, TimesAssumption
<1>6. RequestTicks \in Nat /\ Refused(MaxRetries) \in Nat
    BY TimesAssumption DEF Refused
<1> QED
    BY <1>1, <1>2, <1>4, <1>5, <1>6

(***************************************************************************)
(* Types                                                                   *)
(***************************************************************************)

PCs == {"idle", "asking", "waiting"} \cup Utmify!Ended

\* A call that moves is the only one that does.
LEMMA MoveFacts ==
    ASSUME CallsTyped, NEW c \in Calls, NEW pc \in PCs, NEW tools \in 0 .. 2,
           NEW attempt \in Nat, Utmify!Moves(c, pc, tools, attempt)
    PROVE  /\ call' \in [Calls -> CallState]
           /\ call'[c].pc = pc /\ call'[c].tools = tools /\ call'[c].attempt = attempt
           /\ call'[c].timer = 0 /\ call'[c].age = call[c].age
           /\ \A d \in Calls : d # c => call'[d] = call[d]
<1>1. call[c] \in CallState
    BY DEF CallsTyped
<1>2. call' = [call EXCEPT ![c] = Utmify!State(pc, tools, attempt, 0, call[c].age)]
    BY DEF Utmify!Moves
<1>3. Utmify!State(pc, tools, attempt, 0, call[c].age) \in CallState
    BY <1>1 DEF Utmify!State, CallState, PCs
<1>4. call' \in [Calls -> CallState]
    BY <1>2, <1>3 DEF CallsTyped
<1>5. call'[c] = Utmify!State(pc, tools, attempt, 0, call[c].age)
    BY <1>2 DEF CallsTyped
<1>6. \A d \in Calls : d # c => call'[d] = call[d]
    BY <1>2 DEF CallsTyped
<1> QED
    BY <1>4, <1>5, <1>6 DEF Utmify!State

\* What a state of a call is made of.
LEMMA CallFacts ==
    ASSUME CallsTyped, NEW c \in Calls
    PROVE  /\ call[c].pc \in PCs /\ call[c].tools \in 0 .. 2
           /\ call[c].attempt \in Nat /\ call[c].timer \in Nat /\ call[c].age \in Nat
    BY DEF CallsTyped, CallState, PCs

\* A call that is as it was is in time as it was.
LEMMA StaysInTime ==
    ASSUME NEW d \in Calls, call'[d] = call[d], InTime(d)
    PROVE  InTime(d)'
    BY DEF InTime

\* A call that is not asking, waiting or idle is in time.
LEMMA EndedInTime ==
    ASSUME NEW c \in Calls, call'[c].pc \in Utmify!Ended
    PROVE  InTime(c)'
    BY DEF InTime, Utmify!Ended

AllInTime == CallsTyped /\ \A c \in Calls : InTime(c)

\* Every call begins in time.
LEMMA InitInTime == Utmify!Init \/ Crowded!Init => AllInTime
<1> SUFFICES ASSUME Utmify!Init \/ Crowded!Init PROVE AllInTime
    OBVIOUS
<1>1. ASSUME NEW c \in Calls PROVE Utmify!Idle(c) \in CallState
    BY DEF Utmify!Idle, Utmify!State, CallState
<1>2. CallsTyped
    BY <1>1, TimesAssumption DEF CallsTyped, Utmify!Init, Crowded!Init, Utmify!Idle, Crowded!Idle,
       Utmify!State, Crowded!State
<1>3. ASSUME NEW c \in Calls PROVE InTime(c)
  <2>1. call[c] = Utmify!Idle(c)
      BY DEF Utmify!Init, Crowded!Init, Utmify!Idle, Crowded!Idle, Utmify!State, Crowded!State
  <2> QED
      BY <2>1 DEF Utmify!Idle, Utmify!State, InTime
<1> QED
    BY <1>2, <1>3 DEF AllInTime

\* What one call does changes nothing for the others.
LEMMA OthersStayInTime ==
    ASSUME AllInTime, NEW c \in Calls, InTime(c)', CallsTyped',
           \A d \in Calls : d # c => call'[d] = call[d]
    PROVE  AllInTime'
<1>1. ASSUME NEW d \in Calls PROVE InTime(d)'
  <2>1. CASE d = c
      BY <2>1
  <2>2. CASE d # c
      BY <2>2, StaysInTime DEF AllInTime
  <2> QED
      BY <2>1, <2>2
<1> QED
    BY <1>1 DEF AllInTime

LEMMA BeginInTime ==
    ASSUME AllInTime, NEW c \in Calls, Utmify!Begin(c)
    PROVE  AllInTime'
<1>1. CallsTyped /\ InTime(c)
    BY DEF AllInTime
<1>2. /\ call[c].pc \in PCs /\ call[c].tools \in 0 .. 2
      /\ call[c].attempt \in Nat /\ call[c].timer \in Nat /\ call[c].age \in Nat
    BY <1>1, CallFacts
<1>3. call[c].pc = "idle" /\ UNCHANGED <<phase, served>>
    BY DEF Utmify!Begin
<1>4. PICK pc \in {"asking", "failed"} : Utmify!Moves(c, pc, call[c].tools, 0)
    BY DEF Utmify!Begin
<1>5. /\ call' \in [Calls -> CallState]
      /\ call'[c].pc = pc /\ call'[c].tools = call[c].tools /\ call'[c].attempt = 0
      /\ call'[c].timer = 0 /\ call'[c].age = call[c].age
      /\ \A d \in Calls : d # c => call'[d] = call[d]
    BY <1>1, <1>2, <1>4, MoveFacts DEF PCs, Utmify!Ended
<1>6. CallsTyped'
    BY <1>1, <1>3, <1>5 DEF CallsTyped
<1>7. InTime(c)'
  <2>1. /\ call[c].age = 0 /\ call[c].tools \in {1, 2}
        /\ call[c].tools = 2 => c \in LookUps
      BY <1>1, <1>3 DEF InTime
  <2>2. Refused(0) = 0 /\ Utmify!ToolTicks \in Nat
      BY RefusedFacts
  <2>3. MaxRetries \in Nat /\ RequestTicks \in Nat /\ Deadline \in Nat
      BY TimesAssumption
  <2> QED
      BY <1>5, <2>1, <2>2, <2>3 DEF InTime
<1> QED
    BY <1>1, <1>5, <1>6, <1>7, OthersStayInTime

\* One tool has been served: the next one's time begins, or the call ends.
LEMMA ServedInTime ==
    ASSUME AllInTime, NEW c \in Calls, Utmify!Served(c)
    PROVE  AllInTime'
<1>1. CallsTyped /\ InTime(c)
    BY DEF AllInTime
<1>2. /\ call[c].pc \in PCs /\ call[c].tools \in 0 .. 2
      /\ call[c].attempt \in Nat /\ call[c].timer \in Nat /\ call[c].age \in Nat
    BY <1>1, CallFacts
<1>3. call[c].pc = "asking" /\ served' \in Nat /\ phase' = phase
    BY <1>1 DEF Utmify!Served, CallsTyped
<1>4. \/ call[c].tools = 1 /\ Utmify!Moves(c, "answered", 0, 0)
      \/ call[c].tools = 2 /\ Utmify!Moves(c, "asking", 1, 0)
    BY DEF Utmify!Served
<1>5. CASE call[c].tools = 1 /\ Utmify!Moves(c, "answered", 0, 0)
  <2>1. /\ call' \in [Calls -> CallState] /\ call'[c].pc = "answered"
        /\ \A d \in Calls : d # c => call'[d] = call[d]
    <3>1. "answered" \in PCs /\ 0 \in 0 .. 2 /\ 0 \in Nat
        BY DEF PCs, Utmify!Ended
    <3> QED
        BY <1>1, <1>5, <3>1, MoveFacts
  <2>2. CallsTyped'
      BY <1>1, <1>3, <2>1 DEF CallsTyped
  <2>3. InTime(c)'
      BY <2>1, EndedInTime DEF Utmify!Ended
  <2> QED
      BY <2>1, <2>2, <2>3, OthersStayInTime
<1>6. CASE call[c].tools = 2 /\ Utmify!Moves(c, "asking", 1, 0)
  <2>1. /\ call' \in [Calls -> CallState]
        /\ call'[c].pc = "asking" /\ call'[c].tools = 1 /\ call'[c].attempt = 0
        /\ call'[c].timer = 0 /\ call'[c].age = call[c].age
        /\ \A d \in Calls : d # c => call'[d] = call[d]
    <3>1. "asking" \in PCs /\ 1 \in 0 .. 2 /\ 0 \in Nat
        BY DEF PCs
    <3> QED
        BY <1>1, <1>6, <3>1, MoveFacts
  <2>2. CallsTyped'
      BY <1>1, <1>3, <2>1 DEF CallsTyped
  <2>3. /\ c \in LookUps /\ call[c].attempt <= MaxRetries /\ call[c].timer <= RequestTicks
        /\ call[c].age <= 0 + Refused(call[c].attempt) + call[c].timer
        /\ c \in Jobs => call[c].age <= Deadline
      BY <1>1, <1>3, <1>6 DEF InTime
  <2>4. /\ Refused(call[c].attempt) \in Nat /\ Utmify!ToolTicks \in Nat /\ Refused(0) = 0
        /\ call[c].attempt <= MaxRetries =>
              Refused(call[c].attempt) + RequestTicks <= Utmify!ToolTicks
      BY <1>2, RefusedFacts
  <2>5. MaxRetries \in Nat /\ RequestTicks \in Nat /\ Deadline \in Nat
      BY TimesAssumption
  <2>6. call[c].age <= Utmify!ToolTicks
      BY <1>2, <2>3, <2>4, <2>5
  <2>7. InTime(c)'
      BY <1>2, <2>1, <2>3, <2>4, <2>5, <2>6 DEF InTime
  <2> QED
      BY <2>1, <2>2, <2>7, OthersStayInTime
<1> QED
    BY <1>4, <1>5, <1>6

\* What ends a call leaves the others as they were.
LEMMA EndsLeaveTime ==
    ASSUME AllInTime, NEW c \in Calls, NEW pc \in Utmify!Ended, NEW tools \in 0 .. 2,
           Utmify!Moves(c, pc, tools, call[c].attempt), phase' = phase, served' \in Nat
    PROVE  AllInTime'
<1>1. CallsTyped
    BY DEF AllInTime
<1>2. call[c].attempt \in Nat
    BY <1>1, CallFacts
<1>3. /\ call' \in [Calls -> CallState] /\ call'[c].pc = pc
      /\ \A d \in Calls : d # c => call'[d] = call[d]
    BY <1>1, <1>2, MoveFacts DEF PCs
<1>4. CallsTyped'
    BY <1>1, <1>3 DEF CallsTyped
<1>5. InTime(c)'
    BY <1>3, EndedInTime
<1> QED
    BY <1>3, <1>4, <1>5, OthersStayInTime

LEMMA FailsInTime ==
    ASSUME AllInTime, NEW c \in Calls, Utmify!Fails(c)
    PROVE  AllInTime'
<1>1. served' \in Nat /\ phase' = phase
    BY DEF Utmify!Fails, AllInTime, CallsTyped
<1>2. Utmify!Moves(c, "failed", 0, call[c].attempt)
    BY DEF Utmify!Fails
<1>3. "failed" \in Utmify!Ended /\ 0 \in 0 .. 2
    BY DEF Utmify!Ended
<1> QED
    BY <1>1, <1>2, <1>3, EndsLeaveTime

LEMMA ExpiresInTime ==
    ASSUME AllInTime, NEW c \in Calls, Utmify!Expires(c)
    PROVE  AllInTime'
<1>1. served' \in Nat /\ phase' = phase
    BY DEF Utmify!Expires, AllInTime, CallsTyped
<1>2. Utmify!Moves(c, "expired", 0, call[c].attempt)
    BY DEF Utmify!Expires
<1>3. "expired" \in Utmify!Ended /\ 0 \in 0 .. 2
    BY DEF Utmify!Ended
<1> QED
    BY <1>1, <1>2, <1>3, EndsLeaveTime

\* A refused request waits, unless its attempt was the last.
LEMMA LimitedInTime ==
    ASSUME AllInTime, NEW c \in Calls, Utmify!Limited(c)
    PROVE  AllInTime'
<1>1. CallsTyped /\ InTime(c)
    BY DEF AllInTime
<1>2. /\ call[c].pc \in PCs /\ call[c].tools \in 0 .. 2
      /\ call[c].attempt \in Nat /\ call[c].timer \in Nat /\ call[c].age \in Nat
    BY <1>1, CallFacts
<1>3. call[c].pc = "asking" /\ served' \in Nat /\ phase' = phase
    BY <1>1 DEF Utmify!Limited, CallsTyped
<1>4. CASE Utmify!LastAttempt(c)
  <2>1. Utmify!Moves(c, "gave up", call[c].tools, call[c].attempt)
      BY <1>4 DEF Utmify!Limited
  <2> QED
      BY <1>2, <1>3, <2>1, EndsLeaveTime DEF Utmify!Ended
<1>5. CASE ~Utmify!LastAttempt(c)
  <2>1. Utmify!Moves(c, "waiting", call[c].tools, call[c].attempt)
      BY <1>5 DEF Utmify!Limited
  <2>2. /\ call' \in [Calls -> CallState]
        /\ call'[c].pc = "waiting" /\ call'[c].tools = call[c].tools
        /\ call'[c].attempt = call[c].attempt
        /\ call'[c].timer = 0 /\ call'[c].age = call[c].age
        /\ \A d \in Calls : d # c => call'[d] = call[d]
      BY <1>1, <1>2, <2>1, MoveFacts DEF PCs
  <2>3. CallsTyped'
      BY <1>1, <1>3, <2>2 DEF CallsTyped
  <2>4. call[c].attempt # MaxRetries
      BY <1>5 DEF Utmify!LastAttempt
  <2>5. Refused(call[c].attempt) \in Nat /\ Utmify!ToolTicks \in Nat
      BY <1>2, RefusedFacts
  <2>6. MaxRetries \in Nat /\ RequestTicks \in Nat /\ Deadline \in Nat
      BY TimesAssumption
  <2>7. InTime(c)'
      BY <1>1, <1>2, <1>3, <2>2, <2>4, <2>5, <2>6 DEF InTime
  <2> QED
      BY <2>2, <2>3, <2>7, OthersStayInTime
<1> QED
    BY <1>4, <1>5

LEMMA AsksAgainInTime ==
    ASSUME AllInTime, NEW c \in Calls, Utmify!AsksAgain(c)
    PROVE  AllInTime'
<1>1. CallsTyped /\ InTime(c)
    BY DEF AllInTime
<1>2. /\ call[c].pc \in PCs /\ call[c].tools \in 0 .. 2
      /\ call[c].attempt \in Nat /\ call[c].timer \in Nat /\ call[c].age \in Nat
    BY <1>1, CallFacts
<1>3. call[c].pc = "waiting" /\ served' \in Nat /\ phase' = phase
    BY <1>1 DEF Utmify!AsksAgain, CallsTyped
<1>4. Utmify!Moves(c, "asking", call[c].tools, call[c].attempt + 1)
    BY DEF Utmify!AsksAgain
<1>5. /\ call' \in [Calls -> CallState]
      /\ call'[c].pc = "asking" /\ call'[c].tools = call[c].tools
      /\ call'[c].attempt = call[c].attempt + 1
      /\ call'[c].timer = 0 /\ call'[c].age = call[c].age
      /\ \A d \in Calls : d # c => call'[d] = call[d]
    BY <1>1, <1>2, <1>4, MoveFacts DEF PCs
<1>6. CallsTyped'
    BY <1>1, <1>3, <1>5 DEF CallsTyped
<1>7. /\ Refused(call[c].attempt) \in Nat /\ Utmify!ToolTicks \in Nat
      /\ Refused(call[c].attempt + 1) = Refused(call[c].attempt) + RequestTicks + 1
    BY <1>2, RefusedFacts
<1>8. MaxRetries \in Nat /\ RequestTicks \in Nat /\ Deadline \in Nat
    BY TimesAssumption
<1>9. InTime(c)'
    BY <1>1, <1>2, <1>3, <1>5, <1>7, <1>8 DEF InTime
<1> QED
    BY <1>5, <1>6, <1>9, OthersStayInTime

\* Time goes on.
LEMMA TickFacts ==
    ASSUME CallsTyped, Utmify!Tick
    PROVE  /\ CallsTyped'
           /\ \A c \in Calls :
                IF call[c].pc \in {"asking", "waiting"}
                THEN /\ call'[c].pc = call[c].pc /\ call'[c].tools = call[c].tools
                     /\ call'[c].attempt = call[c].attempt
                     /\ call'[c].timer = call[c].timer + 1 /\ call'[c].age = call[c].age + 1
                ELSE call'[c] = call[c]
<1>1. \A c \in Calls : call'[c] = IF call[c].pc \in {"asking", "waiting"}
                                  THEN [call[c] EXCEPT !.timer = @ + 1, !.age = @ + 1]
                                  ELSE call[c]
    BY DEF Utmify!Tick
<1>2. ASSUME NEW c \in Calls
      PROVE  /\ call'[c] \in CallState
             /\ IF call[c].pc \in {"asking", "waiting"}
                THEN /\ call'[c].pc = call[c].pc /\ call'[c].tools = call[c].tools
                     /\ call'[c].attempt = call[c].attempt
                     /\ call'[c].timer = call[c].timer + 1 /\ call'[c].age = call[c].age + 1
                ELSE call'[c] = call[c]
  <2>1. call[c] \in CallState
      BY DEF CallsTyped
  <2>2. call'[c] = IF call[c].pc \in {"asking", "waiting"}
                   THEN [call[c] EXCEPT !.timer = call[c].timer + 1, !.age = call[c].age + 1]
                   ELSE call[c]
      BY <1>1
  <2>3. CASE call[c].pc \in {"asking", "waiting"}
    <3>1. call'[c] = [call[c] EXCEPT !.timer = call[c].timer + 1, !.age = call[c].age + 1]
        BY <2>2, <2>3
    <3>2. call[c].timer + 1 \in Nat /\ call[c].age + 1 \in Nat
        BY <2>1 DEF CallState
    <3> QED
        BY <2>1, <2>3, <3>1, <3>2 DEF CallState
  <2>4. CASE call[c].pc \notin {"asking", "waiting"}
      BY <2>1, <2>2, <2>4
  <2> QED
      BY <2>3, <2>4
<1>3. call' = [c \in Calls |-> call'[c]]
    BY DEF Utmify!Tick
<1>4. call' \in [Calls -> CallState]
    BY <1>2, <1>3
<1>5. phase' \in 0 .. Window - 1 /\ served' \in Nat
  <2>1. phase \in Nat /\ Window \in Nat \ {0} /\ served \in Nat
      BY TimesAssumption DEF CallsTyped
  <2>2. phase' = (phase + 1) % Window /\ (served' = 0 \/ served' = served)
      BY DEF Utmify!Tick
  <2> QED
      BY <2>1, <2>2
<1> QED
    BY <1>2, <1>4, <1>5 DEF CallsTyped

LEMMA TickInTime ==
    ASSUME AllInTime, Utmify!Tick
    PROVE  AllInTime'
<1>1. CallsTyped
    BY DEF AllInTime
<1>2. ASSUME NEW c \in Calls PROVE InTime(c)'
  <2>1. /\ call[c].pc \in PCs /\ call[c].tools \in 0 .. 2
        /\ call[c].attempt \in Nat /\ call[c].timer \in Nat /\ call[c].age \in Nat
      BY <1>1, CallFacts
  <2>2. InTime(c)
      BY DEF AllInTime
  <2>3. CASE call[c].pc \notin {"asking", "waiting"}
    <3>1. call'[c] = call[c]
        BY <1>1, <2>3, TickFacts
    <3> QED
        BY <2>2, <3>1, StaysInTime
  <2>4. CASE call[c].pc \in {"asking", "waiting"}
    <3>1. /\ call'[c].pc = call[c].pc /\ call'[c].tools = call[c].tools
          /\ call'[c].attempt = call[c].attempt
          /\ call'[c].timer = call[c].timer + 1 /\ call'[c].age = call[c].age + 1
        BY <1>1, <2>4, TickFacts
    <3>2. ~Utmify!Due(c)
        BY DEF Utmify!Tick
    <3>3. /\ MaxRetries \in Nat /\ RequestTicks \in Nat /\ Deadline \in Nat
          /\ Refused(call[c].attempt) \in Nat /\ Utmify!ToolTicks \in Nat
        BY <2>1, RefusedFacts, TimesAssumption
    <3>4. c \in Jobs => call[c].age < Deadline
        BY <2>1, <2>4, <3>2, <3>3 DEF Utmify!Due, Utmify!ContextDone
    <3>5. /\ call[c].pc = "asking" => call[c].timer < RequestTicks
          /\ call[c].pc = "waiting" => call[c].timer < 1
        BY <2>1, <3>2, <3>3 DEF Utmify!Due
    <3>6. call'[c].pc # "idle"
        BY <2>4, <3>1
    <3> QED
        BY <2>1, <2>2, <2>4, <3>1, <3>3, <3>4, <3>5, <3>6 DEF InTime
  <2> QED
      BY <2>3, <2>4
<1>3. CallsTyped'
    BY <1>1, TickFacts
<1> QED
    BY <1>2, <1>3 DEF AllInTime

\* Every step keeps every call in time.
LEMMA NextInTime == AllInTime /\ [Utmify!Next]_callVars => AllInTime'
<1> SUFFICES ASSUME AllInTime, [Utmify!Next]_callVars PROVE AllInTime'
    OBVIOUS
<1>1. CASE UNCHANGED callVars
    BY <1>1 DEF callVars, AllInTime, CallsTyped, InTime
<1>2. CASE Utmify!Tick
    BY <1>2, TickInTime
<1>3. CASE \E c \in Calls : Utmify!Begin(c) \/ Utmify!Served(c) \/ Utmify!Fails(c) \/ Utmify!Limited(c)
                            \/ Utmify!AsksAgain(c) \/ Utmify!Expires(c)
    BY <1>3, BeginInTime, ServedInTime, FailsInTime, LimitedInTime, AsksAgainInTime,
       ExpiresInTime
<1> QED
    BY <1>1, <1>2, <1>3 DEF Utmify!Next

\* What is in time ends in time.
LEMMA InTimeEnds == AllInTime => Utmify!EndsInTime
<1> SUFFICES ASSUME AllInTime, NEW c \in Calls, call[c].pc \in {"asking", "waiting"}
             PROVE  call[c].age <= IF c \in Jobs THEN Deadline
                                   ELSE IF c \in LookUps THEN 2 * Utmify!ToolTicks ELSE Utmify!ToolTicks
    BY DEF Utmify!EndsInTime
<1>1. InTime(c) /\ CallsTyped
    BY DEF AllInTime
<1>2. /\ call[c].pc \in PCs /\ call[c].tools \in 0 .. 2
      /\ call[c].attempt \in Nat /\ call[c].timer \in Nat /\ call[c].age \in Nat
    BY <1>1, CallFacts
<1>3. /\ MaxRetries \in Nat /\ RequestTicks \in Nat /\ Deadline \in Nat
    BY TimesAssumption
<1>4. /\ Refused(call[c].attempt) \in Nat /\ Utmify!ToolTicks \in Nat
      /\ call[c].attempt <= MaxRetries =>
            Refused(call[c].attempt) + RequestTicks <= Utmify!ToolTicks
      /\ call[c].attempt < MaxRetries =>
            Refused(call[c].attempt) + RequestTicks + 1 <= Utmify!ToolTicks
    BY <1>2, RefusedFacts
<1>5. c \in Jobs => call[c].age <= Deadline
    BY <1>1 DEF InTime
<1>6. call[c].age <= (IF c \in LookUps THEN Utmify!ToolTicks ELSE 0) + Utmify!ToolTicks
    BY <1>1, <1>2, <1>3, <1>4 DEF InTime
<1> QED
    BY <1>2, <1>4, <1>5, <1>6

(***************************************************************************)
(* A burst                                                                 *)
(***************************************************************************)

OnTheWay == {"idle", "asking", "waiting"}

\* What is left to ask.
Work == {w \in Asked : call[w[1]].pc \in OnTheWay /\ w[2] <= call[w[1]].tools}
Left == Cardinality(Work)

\* The window that has begun has room for all of it.
Calm == Left + served <= Quota

\* Nobody has tried more often than the window has ticks, and whoever has been
\* refused was so because Utmify has served all it serves.
PatientOf(c) ==
    /\ call[c].pc = "asking" /\ call[c].attempt > 0 => served = Quota
    /\ call[c].pc = "waiting" => served = Quota
    /\ call[c].pc = "asking" => call[c].attempt <= phase
    /\ call[c].pc = "waiting" => call[c].attempt + call[c].timer <= phase

Patient == \A c \in Calls : PatientOf(c)

BurstInv ==
    /\ AllInTime
    /\ served <= Quota /\ Left + served <= 2 * Quota
    /\ Calm \/ Patient
    /\ Utmify!OutlastsTheLimit

LEMMA WorkFinite == IsFiniteSet(Work) /\ Left \in Nat /\ Left <= Cardinality(Asked)
<1>1. Work \subseteq Asked
    BY DEF Work
<1>2. IsFiniteSet(Asked)
    BY BurstAssumption
<1>3. IsFiniteSet(Work) /\ Cardinality(Work) <= Cardinality(Asked)
    BY <1>1, <1>2, FS_Subset
<1> QED
    BY <1>3, FS_CardinalityType DEF Left

\* What is left grows smaller with the work, and by one with a piece of it.
LEMMA LessLeft ==
    ASSUME Work' \subseteq Work
    PROVE  Left' \in Nat /\ Left' <= Left
<1>1. IsFiniteSet(Work)
    BY WorkFinite
<1>2. IsFiniteSet(Work') /\ Cardinality(Work') <= Cardinality(Work)
    BY <1>1, FS_Subset
<1> QED
    BY <1>2, FS_CardinalityType DEF Left

LEMMA OneLessLeft ==
    ASSUME NEW w \in Work, Work' \subseteq Work \ {w}
    PROVE  Left' \in Nat /\ Left' + 1 <= Left
<1>1. IsFiniteSet(Work)
    BY WorkFinite
<1>2. IsFiniteSet(Work \ {w}) /\ Cardinality(Work \ {w}) = Cardinality(Work) - 1
    BY <1>1, FS_RemoveElement
<1>3. IsFiniteSet(Work') /\ Cardinality(Work') <= Cardinality(Work \ {w})
    BY <1>2, FS_Subset
<1>4. Cardinality(Work) \in Nat /\ Cardinality(Work') \in Nat
    BY <1>1, <1>3, FS_CardinalityType
<1> QED
    BY <1>2, <1>3, <1>4 DEF Left

\* Who is on the way has something left to ask.
LEMMA SomethingLeft ==
    ASSUME BurstInv, NEW c \in Calls, call[c].pc \in OnTheWay
    PROVE  <<c, call[c].tools>> \in Work /\ Left >= 1
<1>1. InTime(c)
    BY DEF BurstInv, AllInTime
<1>2. call[c].tools \in {1, 2} /\ (call[c].tools = 2 => c \in LookUps)
    BY <1>1 DEF InTime, OnTheWay
<1>3. <<c, call[c].tools>> \in Asked
    BY <1>2 DEF Asked
<1>4. <<c, call[c].tools>> \in Work
    BY <1>2, <1>3 DEF Work
<1>5. Work # {} /\ IsFiniteSet(Work) /\ Left \in Nat
    BY <1>4, WorkFinite
<1>6. Left # 0
    BY <1>5, FS_EmptySet DEF Left
<1> QED
    BY <1>4, <1>5, <1>6

\* The work of the others is as it was.
LEMMA WorkOfOthers ==
    ASSUME NEW c \in Calls, \A d \in Calls : d # c => call'[d] = call[d],
           NEW w \in Work', w[1] # c
    PROVE  w \in Work
<1>1. w \in Asked /\ w[1] \in Calls
    BY BurstAssumption DEF Work, Asked
<1>2. call'[w[1]] = call[w[1]]
    BY <1>1
<1> QED
    BY <1>1, <1>2 DEF Work

\* A call that asks for no more than before adds nothing to what is left.
LEMMA NoMoreWork ==
    ASSUME NEW c \in Calls, \A d \in Calls : d # c => call'[d] = call[d],
           call[c].pc \in OnTheWay, call'[c].tools = call[c].tools
    PROVE  Work' \subseteq Work
<1> SUFFICES ASSUME NEW w \in Work' PROVE w \in Work
    OBVIOUS
<1>1. CASE w[1] # c
    BY <1>1, WorkOfOthers
<1>2. CASE w[1] = c
    BY <1>2 DEF Work
<1> QED
    BY <1>1, <1>2

\* A call that has ended has nothing left, and one that has been served has one
\* thing less.
LEMMA LessWork ==
    ASSUME CallsTyped, NEW c \in Calls, \A d \in Calls : d # c => call'[d] = call[d],
           call[c].pc \in OnTheWay,
           \/ call'[c].pc \in Utmify!Ended
           \/ call[c].tools = 2 /\ call'[c].tools = 1
    PROVE  Work' \subseteq Work \ {<<c, call[c].tools>>}
<1> SUFFICES ASSUME NEW w \in Work' PROVE w \in Work \ {<<c, call[c].tools>>}
    OBVIOUS
<1>1. CASE w[1] # c
    BY <1>1, WorkOfOthers
<1>2. CASE w[1] = c
  <2>1. call'[c].pc \in OnTheWay /\ w[2] <= call'[c].tools /\ w \in Asked
      BY <1>2 DEF Work
  <2>2. call'[c].pc \notin Utmify!Ended
      BY <2>1 DEF OnTheWay, Utmify!Ended
  <2>3. call[c].tools = 2 /\ call'[c].tools = 1
      BY <2>2
  <2>4. w[2] \in {1, 2}
      BY <2>1 DEF Asked
  <2>5. w[2] = 1
      BY <2>1, <2>3, <2>4
  <2>6. w[2] <= call[c].tools /\ w # <<c, 2>>
      BY <2>3, <2>5
  <2> QED
      BY <1>2, <2>1, <2>3, <2>6 DEF Work
<1> QED
    BY <1>1, <1>2

\* What no step of a call may do: to take more than is there.
LEMMA RoomKept ==
    ASSUME BurstInv, AllInTime', Utmify!OutlastsTheLimit', Left' \in Nat,
           served' <= Quota, Left' + served' <= Left + served, Calm \/ Patient'
    PROVE  BurstInv'
<1>1. Left \in Nat /\ served \in Nat /\ served' \in Nat /\ Quota \in Nat
    BY WorkFinite, TimesAssumption DEF BurstInv, AllInTime, CallsTyped
<1>2. Left + served <= 2 * Quota
    BY DEF BurstInv
<1>3. Left' + served' <= 2 * Quota
    BY <1>1, <1>2 DEF Left
<1>4. Left + served <= Quota => Left' + served' <= Quota
    BY <1>1 DEF Left
<1>5. Calm => Calm'
    BY <1>4 DEF Calm
<1> QED
    BY <1>3, <1>5 DEF BurstInv

\* Nor does a step of another call make a call less patient.
LEMMA PatientOthers ==
    ASSUME BurstInv, NEW d \in Calls, PatientOf(d), call'[d] = call[d], phase' = phase,
           served' = served \/ served # Quota
    PROVE  PatientOf(d)'
<1>1. CASE served' = served
    BY <1>1 DEF PatientOf
<1>2. CASE served # Quota
    BY <1>2 DEF PatientOf
<1> QED
    BY <1>1, <1>2

\* Nobody has given up who had not, but whoever takes this step.
LEMMA NobodyElseGivesUp ==
    ASSUME BurstInv, NEW c \in Calls, call'[c].pc # "gave up",
           \A d \in Calls : d # c => call'[d] = call[d]
    PROVE  Utmify!OutlastsTheLimit'
    BY DEF BurstInv, Utmify!OutlastsTheLimit

\* There is room for whoever asks in a calm window.
LEMMA CalmServes ==
    ASSUME BurstInv, Calm, NEW c \in Calls, call[c].pc \in OnTheWay
    PROVE  served < Quota
<1>1. Left >= 1
    BY SomethingLeft
<1>2. Left \in Nat /\ served \in Nat /\ Quota \in Nat
    BY WorkFinite, TimesAssumption DEF BurstInv, AllInTime, CallsTyped
<1> QED
    BY <1>1, <1>2 DEF Calm

LEMMA BeginInBurst ==
    ASSUME BurstInv, NEW c \in Calls, Utmify!Begin(c)
    PROVE  BurstInv'
<1>1. AllInTime /\ AllInTime' /\ CallsTyped /\ phase \in Nat
    BY BeginInTime DEF BurstInv, AllInTime, CallsTyped
<1>2. /\ call[c].pc \in PCs /\ call[c].tools \in 0 .. 2
    BY <1>1, CallFacts
<1>3. call[c].pc = "idle" /\ phase' = phase /\ served' = served
    BY DEF Utmify!Begin
<1>4. PICK pc \in {"asking", "failed"} : Utmify!Moves(c, pc, call[c].tools, 0)
    BY DEF Utmify!Begin
<1>5. /\ call'[c].pc = pc /\ call'[c].tools = call[c].tools /\ call'[c].attempt = 0
      /\ \A d \in Calls : d # c => call'[d] = call[d]
    BY <1>1, <1>2, <1>4, MoveFacts DEF PCs, Utmify!Ended
<1>6. Work' \subseteq Work
    BY <1>3, <1>5, NoMoreWork DEF OnTheWay
<1>7. Left' \in Nat /\ Left' + served' <= Left + served
  <2>1. Left' \in Nat /\ Left' <= Left
      BY <1>6, LessLeft
  <2> QED
      BY <1>1, <1>3, <2>1, WorkFinite DEF CallsTyped, Left
<1>8. Utmify!OutlastsTheLimit'
    BY <1>4, <1>5, NobodyElseGivesUp
<1>9. ASSUME Patient PROVE Patient'
  <2>1. PatientOf(c)'
      BY <1>1, <1>3, <1>5 DEF PatientOf
  <2>2. ASSUME NEW d \in Calls PROVE PatientOf(d)'
      BY <1>3, <1>5, <1>9, <2>1, PatientOthers DEF Patient
  <2> QED
      BY <2>2 DEF Patient
<1>10. served' <= Quota
    BY <1>3 DEF BurstInv
<1>11. Calm \/ Patient'
    BY <1>9 DEF BurstInv
<1> QED
    BY <1>1, <1>7, <1>8, <1>10, <1>11, RoomKept

\* A request that Utmify serves is one thing less to ask.
LEMMA ServedInBurst ==
    ASSUME BurstInv, NEW c \in Calls, Utmify!Served(c)
    PROVE  BurstInv'
<1>1. AllInTime /\ AllInTime' /\ CallsTyped /\ phase \in Nat
    BY ServedInTime DEF BurstInv, AllInTime, CallsTyped
<1>2. served \in Nat /\ Quota \in Nat /\ Left \in Nat
    BY <1>1, WorkFinite, TimesAssumption DEF CallsTyped
<1>3. call[c].pc = "asking" /\ served < Quota /\ phase' = phase /\ served' = served + 1
    BY DEF Utmify!Served
<1>4. /\ \/ call'[c].pc = "answered"
         \/ call'[c].pc = "asking" /\ call[c].tools = 2 /\ call'[c].tools = 1
            /\ call'[c].attempt = 0
      /\ \A d \in Calls : d # c => call'[d] = call[d]
  <2>1. /\ "answered" \in PCs /\ "asking" \in PCs
        /\ 0 \in 0 .. 2 /\ 1 \in 0 .. 2 /\ 0 \in Nat
      BY DEF PCs, Utmify!Ended
  <2>2. CASE call[c].tools = 1 /\ Utmify!Moves(c, "answered", 0, 0)
      BY <1>1, <2>1, <2>2, MoveFacts
  <2>3. CASE call[c].tools = 2 /\ Utmify!Moves(c, "asking", 1, 0)
      BY <1>1, <2>1, <2>3, MoveFacts
  <2> QED
      BY <2>2, <2>3 DEF Utmify!Served
<1>5. Work' \subseteq Work \ {<<c, call[c].tools>>}
    BY <1>1, <1>3, <1>4, LessWork DEF OnTheWay, Utmify!Ended
<1>6. <<c, call[c].tools>> \in Work
    BY <1>3, SomethingLeft DEF OnTheWay
<1>7. Left' \in Nat /\ Left' + 1 <= Left
    BY <1>5, <1>6, OneLessLeft
<1>8. Left' + served' <= Left + served
    BY <1>2, <1>3, <1>7 DEF Left
<1>9. Utmify!OutlastsTheLimit'
    BY <1>4, NobodyElseGivesUp
<1>10. ASSUME Patient PROVE Patient'
  <2>1. PatientOf(c)'
      BY <1>1, <1>3, <1>4 DEF PatientOf
  <2>2. served # Quota
      BY <1>2, <1>3
  <2>3. ASSUME NEW d \in Calls PROVE PatientOf(d)'
      BY <1>3, <1>4, <1>10, <2>1, <2>2, PatientOthers DEF Patient
  <2> QED
      BY <2>3 DEF Patient
<1>11. served' <= Quota
    BY <1>2, <1>3
<1>12. Calm \/ Patient'
    BY <1>10 DEF BurstInv
<1> QED
    BY <1>1, <1>7, <1>8, <1>9, <1>11, <1>12, RoomKept

\* What ends a call, served or not.
LEMMA EndsInBurst ==
    ASSUME BurstInv, AllInTime', NEW c \in Calls,
           call[c].pc \in OnTheWay, NEW pc \in {"failed", "expired"},
           Utmify!Moves(c, pc, 0, call[c].attempt), phase' = phase,
           served' = served \/ (served < Quota /\ served' = served + 1)
    PROVE  BurstInv'
<1>1. AllInTime /\ CallsTyped /\ phase \in Nat
    BY DEF BurstInv, AllInTime, CallsTyped
<1>2. served \in Nat /\ Quota \in Nat /\ Left \in Nat
    BY <1>1, WorkFinite, TimesAssumption DEF CallsTyped
<1>3. call'[c].pc = pc /\ \A d \in Calls : d # c => call'[d] = call[d]
  <2>1. pc \in PCs
      BY Zenon DEF PCs, Utmify!Ended
  <2>3. 0 \in 0 .. 2
      OBVIOUS
  <2>2. call[c].attempt \in Nat
      BY <1>1, CallFacts
  <2> QED
      BY <1>1, <2>1, <2>2, <2>3, MoveFacts
<1>4. Work' \subseteq Work \ {<<c, call[c].tools>>}
    BY <1>1, <1>3, LessWork DEF Utmify!Ended
<1>5. <<c, call[c].tools>> \in Work
    BY SomethingLeft
<1>6. Left' \in Nat /\ Left' + 1 <= Left
    BY <1>4, <1>5, OneLessLeft
<1>7. Left' + served' <= Left + served
    BY <1>2, <1>6 DEF Left
<1>8. Utmify!OutlastsTheLimit'
    BY <1>3, NobodyElseGivesUp
<1>9. ASSUME Patient PROVE Patient'
  <2>1. PatientOf(c)'
      BY <1>3 DEF PatientOf
  <2>2. served' = served \/ served # Quota
      BY <1>2
  <2>3. ASSUME NEW d \in Calls PROVE PatientOf(d)'
      BY <1>3, <1>9, <2>1, <2>2, PatientOthers DEF Patient
  <2> QED
      BY <2>3 DEF Patient
<1>10. served' <= Quota
    BY <1>2 DEF BurstInv
<1>11. Calm \/ Patient'
    BY <1>9 DEF BurstInv
<1> QED
    BY <1>6, <1>7, <1>8, <1>10, <1>11, RoomKept

LEMMA FailsInBurst ==
    ASSUME BurstInv, NEW c \in Calls, Utmify!Fails(c)
    PROVE  BurstInv'
<1>1. AllInTime'
    BY FailsInTime DEF BurstInv
<1>2. /\ call[c].pc \in OnTheWay /\ phase' = phase
      /\ Utmify!Moves(c, "failed", 0, call[c].attempt)
      /\ served' = served \/ (served < Quota /\ served' = served + 1)
    BY DEF Utmify!Fails, OnTheWay
<1> QED
    BY <1>1, <1>2, EndsInBurst

LEMMA ExpiresInBurst ==
    ASSUME BurstInv, NEW c \in Calls, Utmify!Expires(c)
    PROVE  BurstInv'
<1>1. AllInTime'
    BY ExpiresInTime DEF BurstInv
<1>2. /\ call[c].pc \in OnTheWay /\ phase' = phase
      /\ Utmify!Moves(c, "expired", 0, call[c].attempt)
      /\ served' = served
    BY DEF Utmify!Expires, OnTheWay
<1> QED
    BY <1>1, <1>2, EndsInBurst

\* Whoever is refused has an attempt left: the window has no room for what is
\* left, so that nobody has tried more often than it has ticks.
LEMMA LimitedInBurst ==
    ASSUME BurstInv, NEW c \in Calls, Utmify!Limited(c)
    PROVE  BurstInv'
<1>1. AllInTime /\ AllInTime' /\ CallsTyped
    BY LimitedInTime DEF BurstInv, AllInTime
<1>2. /\ call[c].pc \in PCs /\ call[c].tools \in 0 .. 2 /\ call[c].attempt \in Nat
    BY <1>1, CallFacts
<1>3. /\ call[c].pc = "asking" /\ phase' = phase /\ served' = served
      /\ served = Quota /\ served \in Nat
    BY <1>1 DEF Utmify!Limited, CallsTyped
<1>4. ~Calm
  <2>1. SUFFICES ASSUME Calm PROVE FALSE
      OBVIOUS
  <2>2. served < Quota
      BY <1>3, <2>1, CalmServes DEF OnTheWay
  <2> QED
      BY <1>3, <2>2
<1>5. Patient
    BY <1>4 DEF BurstInv
<1>6. call[c].attempt <= phase
    BY <1>3, <1>5 DEF Patient, PatientOf
<1>7. ~Utmify!LastAttempt(c)
  <2>1. phase \in 0 .. Window - 1 /\ Window \in Nat /\ MaxRetries \in Nat
      BY <1>1, TimesAssumption DEF CallsTyped
  <2>2. Window <= MaxRetries
      BY BurstAssumption
  <2> QED
      BY <1>2, <1>6, <2>1, <2>2 DEF Utmify!LastAttempt
<1>8. Utmify!Moves(c, "waiting", call[c].tools, call[c].attempt)
    BY <1>7 DEF Utmify!Limited
<1>9. /\ call'[c].pc = "waiting" /\ call'[c].tools = call[c].tools
      /\ call'[c].attempt = call[c].attempt /\ call'[c].timer = 0
      /\ \A d \in Calls : d # c => call'[d] = call[d]
  <2>1. "waiting" \in PCs
      BY DEF PCs
  <2> QED
      BY <1>1, <1>2, <1>8, <2>1, MoveFacts
<1>10. Left' \in Nat /\ Left' <= Left
  <2>1. Work' \subseteq Work
      BY <1>3, <1>9, NoMoreWork DEF OnTheWay
  <2> QED
      BY <2>1, LessLeft
<1>11. Left' + served' <= Left + served
    BY <1>3, <1>10, WorkFinite DEF Left
<1>12. Patient'
  <2>1. PatientOf(c)'
    <3>1. phase \in Nat
        BY <1>1 DEF CallsTyped
    <3> QED
        BY <1>2, <1>3, <1>6, <1>9, <3>1 DEF PatientOf
  <2>2. ASSUME NEW d \in Calls PROVE PatientOf(d)'
      BY <1>3, <1>5, <1>9, <2>1, PatientOthers DEF Patient
  <2> QED
      BY <2>2 DEF Patient
<1>13. Utmify!OutlastsTheLimit'
    BY <1>9, NobodyElseGivesUp
<1>14. served' <= Quota
    BY <1>3 DEF BurstInv
<1> QED
    BY <1>1, <1>10, <1>11, <1>12, <1>13, <1>14, RoomKept

LEMMA AsksAgainInBurst ==
    ASSUME BurstInv, NEW c \in Calls, Utmify!AsksAgain(c)
    PROVE  BurstInv'
<1>1. AllInTime /\ AllInTime' /\ CallsTyped
    BY AsksAgainInTime DEF BurstInv, AllInTime
<1>2. /\ call[c].pc \in PCs /\ call[c].tools \in 0 .. 2
      /\ call[c].attempt \in Nat /\ call[c].timer \in Nat
    BY <1>1, CallFacts
<1>3. /\ call[c].pc = "waiting" /\ call[c].timer >= 1 /\ phase' = phase /\ served' = served
      /\ served \in Nat /\ phase \in Nat
    BY <1>1 DEF Utmify!AsksAgain, CallsTyped
<1>4. Utmify!Moves(c, "asking", call[c].tools, call[c].attempt + 1)
    BY DEF Utmify!AsksAgain
<1>5. /\ call'[c].pc = "asking" /\ call'[c].tools = call[c].tools
      /\ call'[c].attempt = call[c].attempt + 1
      /\ \A d \in Calls : d # c => call'[d] = call[d]
  <2>1. "asking" \in PCs /\ call[c].attempt + 1 \in Nat
      BY <1>2 DEF PCs
  <2> QED
      BY <1>1, <1>2, <1>4, <2>1, MoveFacts
<1>6. Left' \in Nat /\ Left' <= Left
  <2>1. Work' \subseteq Work
      BY <1>3, <1>5, NoMoreWork DEF OnTheWay
  <2> QED
      BY <2>1, LessLeft
<1>7. Left' + served' <= Left + served
    BY <1>3, <1>6, WorkFinite DEF Left
<1>8. ASSUME Patient PROVE Patient'
  <2>1. PatientOf(c)'
    <3>1. PatientOf(c)
        BY <1>8 DEF Patient
    <3> QED
        BY <1>2, <1>3, <1>5, <3>1 DEF PatientOf
  <2>2. ASSUME NEW d \in Calls PROVE PatientOf(d)'
      BY <1>3, <1>5, <1>8, <2>1, PatientOthers DEF Patient
  <2> QED
      BY <2>2 DEF Patient
<1>9. Utmify!OutlastsTheLimit'
    BY <1>5, NobodyElseGivesUp
<1>10. served' <= Quota /\ (Calm \/ Patient')
    BY <1>3, <1>8 DEF BurstInv
<1> QED
    BY <1>1, <1>6, <1>7, <1>9, <1>10, RoomKept

\* If anybody was refused in a window, it has served all it serves, and what is
\* left fits into the next.
LEMMA TickInBurst ==
    ASSUME BurstInv, Utmify!Tick
    PROVE  BurstInv'
<1>1. AllInTime /\ AllInTime' /\ CallsTyped
    BY TickInTime DEF BurstInv, AllInTime
<1>2. \A c \in Calls :
          IF call[c].pc \in {"asking", "waiting"}
          THEN /\ call'[c].pc = call[c].pc /\ call'[c].tools = call[c].tools
               /\ call'[c].attempt = call[c].attempt
               /\ call'[c].timer = call[c].timer + 1 /\ call'[c].age = call[c].age + 1
          ELSE call'[c] = call[c]
    BY <1>1, TickFacts
<1>3. \A c \in Calls : call'[c].pc = call[c].pc /\ call'[c].tools = call[c].tools
    BY <1>2
<1>4. Utmify!OutlastsTheLimit'
    BY <1>3 DEF BurstInv, Utmify!OutlastsTheLimit
<1>5. Work' \subseteq Work
  <2> SUFFICES ASSUME NEW w \in Work' PROVE w \in Work
      OBVIOUS
  <2>1. w \in Asked /\ w[1] \in Calls
      BY BurstAssumption DEF Work, Asked
  <2> QED
      BY <1>3, <2>1 DEF Work
<1>6. Left' \in Nat /\ Left' <= Left /\ Left \in Nat
    BY <1>5, LessLeft, WorkFinite
<1>7. /\ served \in Nat /\ Quota \in Nat /\ phase \in 0 .. Window - 1 /\ Window \in Nat \ {0}
      /\ served <= Quota
    BY <1>1, TimesAssumption DEF CallsTyped, BurstInv
<1>8. /\ phase' = (phase + 1) % Window
      /\ served' = IF phase' = 0 THEN 0 ELSE served
    BY DEF Utmify!Tick
<1>9. phase' = 0 \/ (phase' = phase + 1 /\ phase' # 0)
    BY <1>7, <1>8
<1>10. served' <= Quota /\ served' <= served /\ served' \in Nat
    BY <1>7, <1>8
<1>11. Left' + served' <= Left + served
    BY <1>6, <1>7, <1>10 DEF Left
<1>12. CASE Calm
    BY <1>1, <1>4, <1>6, <1>10, <1>11, <1>12, RoomKept
<1>13. CASE ~Calm /\ (served # Quota \/ phase' # 0)
  <2>1. Patient
      BY <1>13 DEF BurstInv
  <2>2. ASSUME NEW c \in Calls PROVE PatientOf(c)'
    <3>1. PatientOf(c) /\ call[c].attempt \in Nat /\ call[c].timer \in Nat
        BY <1>1, <2>1, CallFacts DEF Patient
    <3>2. CASE call[c].pc \notin {"asking", "waiting"}
        BY <1>3, <3>2 DEF PatientOf
    <3>3. CASE call[c].pc \in {"asking", "waiting"} /\ phase' # 0
      <4>1. phase' = phase + 1 /\ served' = served
          BY <1>8, <1>9, <3>3
      <4>2. /\ call'[c].pc = call[c].pc /\ call'[c].attempt = call[c].attempt
            /\ call'[c].timer = call[c].timer + 1
          BY <1>2, <3>3
      <4> QED
          BY <1>7, <3>1, <4>1, <4>2 DEF PatientOf
    <3>4. CASE call[c].pc \in {"asking", "waiting"} /\ phase' = 0
      <4>1. served # Quota
          BY <1>13, <3>4
      <4>2. call[c].pc = "asking" /\ call[c].attempt = 0
          BY <3>1, <3>4, <4>1 DEF PatientOf
      <4>3. call'[c].pc = "asking" /\ call'[c].attempt = 0
          BY <1>2, <4>2
      <4> QED
          BY <3>4, <4>3 DEF PatientOf
    <3> QED
        BY <3>2, <3>3, <3>4
  <2>3. Patient'
      BY <2>2 DEF Patient
  <2> QED
      BY <1>1, <1>4, <1>6, <1>10, <1>11, <2>3, RoomKept
<1>14. CASE served = Quota /\ phase' = 0
  <2>1. served' = 0
      BY <1>8, <1>14
  <2>2. Left + Quota <= 2 * Quota
      BY <1>14 DEF BurstInv
  <2>3. Left' + served' <= Quota /\ Left' + served' <= 2 * Quota
      BY <1>6, <1>7, <2>1, <2>2 DEF Left
  <2>4. Calm'
      BY <2>3 DEF Calm
  <2> QED
      BY <1>1, <1>4, <1>10, <2>3, <2>4 DEF BurstInv
<1> QED
    BY <1>12, <1>13, <1>14

LEMMA InitInBurst == Utmify!Init => BurstInv
<1> SUFFICES ASSUME Utmify!Init PROVE BurstInv
    OBVIOUS
<1>1. AllInTime
    BY InitInTime
<1>2. \A c \in Calls : call[c].pc = "idle"
    BY DEF Utmify!Init, Utmify!Idle, Utmify!State
<1>3. Utmify!OutlastsTheLimit /\ Patient
    BY <1>2 DEF Utmify!OutlastsTheLimit, Patient, PatientOf
<1>4. served = 0 /\ Quota \in Nat
    BY TimesAssumption, BurstAssumption DEF Utmify!Init
<1>5. Left \in Nat /\ Left <= Cardinality(Asked) /\ Cardinality(Asked) <= 2 * Quota
    BY WorkFinite, BurstAssumption
<1>6. Left <= 2 * Quota
  <2>1. Cardinality(Asked) \in Nat
      BY FS_CardinalityType, BurstAssumption
  <2> QED
      BY <1>4, <1>5, <2>1 DEF Left
<1>7. served <= Quota /\ Left + served <= 2 * Quota
    BY <1>4, <1>5, <1>6 DEF Left
<1> QED
    BY <1>1, <1>3, <1>7 DEF BurstInv

\* Every step of a burst keeps what is left within two windows.
LEMMA NextInBurst == BurstInv /\ [Utmify!Next]_callVars => BurstInv'
<1> SUFFICES ASSUME BurstInv, [Utmify!Next]_callVars PROVE BurstInv'
    OBVIOUS
<1>1. CASE UNCHANGED callVars
  <2>1. call' = call /\ phase' = phase /\ served' = served
      BY <1>1 DEF callVars
  <2>2. Work' = Work
      BY <2>1 DEF Work
  <2>3. Left' = Left
      BY <2>2 DEF Left
  <2>4. Calm' = Calm /\ Patient' = Patient /\ Utmify!OutlastsTheLimit' = Utmify!OutlastsTheLimit
      BY <2>1, <2>3 DEF Calm, Patient, PatientOf, Utmify!OutlastsTheLimit
  <2>5. AllInTime'
      BY <2>1 DEF BurstInv, AllInTime, CallsTyped, InTime
  <2>6. served' <= Quota /\ Left' + served' <= 2 * Quota
      BY <2>1, <2>3 DEF BurstInv
  <2>7. (Calm \/ Patient) /\ Utmify!OutlastsTheLimit
      BY DEF BurstInv
  <2> QED
      BY <2>4, <2>5, <2>6, <2>7 DEF BurstInv
<1>2. CASE Utmify!Tick
    BY <1>2, TickInBurst
<1>3. CASE \E c \in Calls : Utmify!Begin(c) \/ Utmify!Served(c) \/ Utmify!Fails(c) \/ Utmify!Limited(c)
                            \/ Utmify!AsksAgain(c) \/ Utmify!Expires(c)
    BY <1>3, BeginInBurst, ServedInBurst, FailsInBurst, LimitedInBurst, AsksAgainInBurst,
       ExpiresInBurst
<1> QED
    BY <1>1, <1>2, <1>3 DEF Utmify!Next

(***************************************************************************)
(* Sums over finite sets                                                   *)
(***************************************************************************)

\* Of some subsets of a finite set, one has none of the others in it.
LEMMA Least ==
    ASSUME NEW U, IsFiniteSet(U), NEW T, T \subseteq SUBSET U, T # {}
    PROVE  \E m \in T : \A t \in T : t \subseteq m => t = m
<1>1. \A t \in T : IsFiniteSet(t)
    BY FS_Subset
<1>2. T \subseteq FiniteSubsetsOf(U)
    BY <1>1 DEF FiniteSubsetsOf
<1>3. IsWellFoundedOn(StrictSubsetOrdering(U), FiniteSubsetsOf(U))
    BY FS_StrictSubsetOrderingWellFounded
<1>4. PICK m \in T : \A t \in T : <<t, m>> \notin StrictSubsetOrdering(U)
    BY <1>2, <1>3, WFMin
<1>5. \A t \in T : t \subseteq m => t = m
    BY <1>4 DEF StrictSubsetOrdering
<1> QED
    BY <1>5

Pick(s) == CHOOSE x \in s : TRUE

\* g adds f up, set by set.
Adds(f, g, U) ==
    g = [s \in SUBSET U |-> IF s = {} THEN 0 ELSE f[Pick(s)] + g[s \ {Pick(s)}]]

LEMMA PickIn == ASSUME NEW s, s # {} PROVE Pick(s) \in s
BY DEF Pick

\* Two of them agree wherever both are defined.
LEMMA Unique ==
    ASSUME NEW f, NEW g, NEW h, NEW A, NEW B, Adds(f, g, A), Adds(f, h, B),
           NEW U, U \subseteq A, U \subseteq B, IsFiniteSet(U)
    PROVE  g[U] = h[U]
<1> DEFINE T == {s \in SUBSET U : g[s] # h[s]}
<1> SUFFICES ASSUME T # {} PROVE FALSE
    OBVIOUS
<1>1. PICK m \in T : \A t \in T : t \subseteq m => t = m
  <2>1. T \subseteq SUBSET U
      OBVIOUS
  <2> HIDE DEF T
  <2> QED
      BY <2>1, Least
<1>2. m \in SUBSET A /\ m \in SUBSET B /\ g[m] # h[m]
    OBVIOUS
<1>3. CASE m = {}
    BY <1>2, <1>3 DEF Adds
<1>4. CASE m # {}
  <2>1. Pick(m) \in m
      BY <1>4, PickIn
  <2>2. g[m \ {Pick(m)}] = h[m \ {Pick(m)}]
      BY <1>1, <2>1
  <2>3. g[m] = f[Pick(m)] + g[m \ {Pick(m)}]
      BY <1>2, <1>4 DEF Adds
  <2>4. h[m] = f[Pick(m)] + h[m \ {Pick(m)}]
      BY <1>2, <1>4 DEF Adds
  <2> QED
      BY <1>2, <2>2, <2>3, <2>4
<1> QED
    BY <1>3, <1>4

\* There is such a function, for finite sets of numbers.
LEMMA Exists ==
    ASSUME NEW X, NEW f \in [X -> Nat], NEW U \in SUBSET X, IsFiniteSet(U)
    PROVE  \E g \in [SUBSET U -> Nat] : Adds(f, g, U)
<1> DEFINE HasSum(s) == \E g \in [SUBSET s -> Nat] : Adds(f, g, s)
           T == {s \in SUBSET U : ~HasSum(s)}
<1> SUFFICES ASSUME T # {} PROVE FALSE
    OBVIOUS
<1>1. PICK m \in T : \A t \in T : t \subseteq m => t = m
  <2>1. T \subseteq SUBSET U
      OBVIOUS
  <2> HIDE DEF T
  <2> QED
      BY <2>1, Least
<1> DEFINE G(s) == CHOOSE g \in [SUBSET s -> Nat] : Adds(f, g, s)
           rest(s) == s \ {Pick(s)}
           h == [s \in SUBSET m |-> IF s = {} THEN 0 ELSE f[Pick(s)] + G(rest(s))[rest(s)]]
<1>2. m \in SUBSET U /\ m \in SUBSET X /\ IsFiniteSet(m) /\ ~HasSum(m)
    BY FS_Subset
<1>3. ASSUME NEW s \in SUBSET m, s # m
      PROVE  G(s) \in [SUBSET s -> Nat] /\ Adds(f, G(s), s)
  <2>1. HasSum(s)
      BY <1>1, <1>2, <1>3
  <2> QED
      BY <2>1
<1>4. ASSUME NEW s \in SUBSET m, s # {}
      PROVE  Pick(s) \in s /\ rest(s) \in SUBSET m /\ rest(s) # m /\ rest(s) \subseteq s
    BY <1>4, PickIn
<1>5. ASSUME NEW s \in SUBSET m, s # m
      PROVE  h[s] = G(s)[s]
  <2>1. G(s) \in [SUBSET s -> Nat] /\ Adds(f, G(s), s)
      BY <1>3, <1>5
  <2>2. CASE s = {}
      BY <2>1, <2>2 DEF Adds
  <2>3. CASE s # {}
    <3>1. Pick(s) \in s /\ rest(s) \in SUBSET m /\ rest(s) # m /\ rest(s) \subseteq s
        BY <1>4, <2>3
    <3>2. G(s)[s] = f[Pick(s)] + G(s)[rest(s)]
        BY <2>1, <2>3 DEF Adds
    <3>3. Adds(f, G(rest(s)), rest(s)) /\ IsFiniteSet(rest(s))
      <4>1. IsFiniteSet(rest(s))
          BY <1>2, <3>1, FS_Subset
      <4> HIDE DEF G, rest
      <4> QED
          BY <1>3, <3>1, <4>1
    <3> HIDE DEF G, rest
    <3>4. G(s)[rest(s)] = G(rest(s))[rest(s)]
        BY <2>1, <3>1, <3>3, Unique
    <3>5. h[s] = f[Pick(s)] + G(rest(s))[rest(s)]
        BY <2>3
    <3> QED
        BY <3>2, <3>4, <3>5
  <2> QED
      BY <2>2, <2>3
<1>6. ASSUME NEW s \in SUBSET m, s # {}
      PROVE  h[s] = f[Pick(s)] + h[rest(s)]
  <2>1. h[s] = f[Pick(s)] + G(rest(s))[rest(s)]
      BY <1>6
  <2>2. h[rest(s)] = G(rest(s))[rest(s)]
      BY <1>4, <1>5, <1>6
  <2> QED
      BY <2>1, <2>2
<1>7. Adds(f, h, m)
  <2>1. h = [s \in SUBSET m |-> h[s]] /\ h[{}] = 0
      OBVIOUS
  <2> HIDE DEF h
  <2> QED
      BY <1>6, <2>1 DEF Adds
<1>8. h \in [SUBSET m -> Nat]
  <2>1. ASSUME NEW s \in SUBSET m, s # {}
        PROVE  f[Pick(s)] + G(rest(s))[rest(s)] \in Nat
    <3>1. rest(s) \in SUBSET m /\ rest(s) # m /\ Pick(s) \in X
        BY <1>2, <1>4, <2>1
    <3>2. G(rest(s)) \in [SUBSET rest(s) -> Nat]
        BY <1>3, <3>1
    <3> HIDE DEF G, rest
    <3>3. G(rest(s))[rest(s)] \in Nat /\ f[Pick(s)] \in Nat
        BY <3>1, <3>2
    <3> QED
        BY <3>3
  <2> HIDE DEF G, rest
  <2> QED
      BY <2>1
<1> HIDE DEF h
<1>9. HasSum(m)
    BY <1>7, <1>8
<1> QED
    BY <1>2, <1>9

\* g holds the sum of f over every subset of U.
Sums(f, g, U) ==
    /\ IsFiniteSet(U) /\ U \subseteq DOMAIN f /\ f \in [DOMAIN f -> Nat]
    /\ g \in [SUBSET U -> Nat] /\ Adds(f, g, U)

LEMMA SumsFacts ==
    ASSUME NEW f, NEW g, NEW U, Sums(f, g, U)
    PROVE  /\ IsFiniteSet(U)
           /\ \A x \in U : f[x] \in Nat
           /\ \A s \in SUBSET U : g[s] \in Nat
           /\ \A s \in SUBSET U : s # {} => g[s] = f[Pick(s)] + g[s \ {Pick(s)}]
           /\ g[{}] = 0
BY DEF Sums, Adds

\* What is picked first makes no difference.
LEMMA TakeAway ==
    ASSUME NEW f, NEW g, NEW U, Sums(f, g, U),
           NEW A \in SUBSET U, NEW a \in A
    PROVE  g[A] = f[a] + g[A \ {a}]
<1> DEFINE T == {s \in SUBSET U : \E x \in s : g[s] # f[x] + g[s \ {x}]}
<1> SUFFICES ASSUME T # {} PROVE FALSE
    BY DEF T
<1>1. PICK m \in T : \A t \in T : t \subseteq m => t = m
  <2>1. T \subseteq SUBSET U
      OBVIOUS
  <2>2. IsFiniteSet(U)
      BY SumsFacts
  <2> HIDE DEF T
  <2> QED
      BY <2>1, <2>2, Least
<1>2. PICK x \in m : g[m] # f[x] + g[m \ {x}]
    OBVIOUS
<1> DEFINE y == Pick(m)
           rest == m \ {x, y}
<1>3. m \in SUBSET U /\ y \in m
    BY <1>2, PickIn
<1>4. g[m] = f[y] + g[m \ {y}]
    BY <1>2, <1>3, SumsFacts
<1>5. x # y
    BY <1>2, <1>4
<1>6. g[m \ {y}] = f[x] + g[rest]
  <2>1. m \ {y} \in SUBSET U /\ m \ {y} # m /\ m \ {y} \subseteq m /\ x \in m \ {y}
      BY <1>3, <1>5
  <2>2. (m \ {y}) \ {x} = rest
      OBVIOUS
  <2>3. m \ {y} \notin T
      BY <1>1, <2>1
  <2> HIDE DEF y
  <2> QED
      BY <2>1, <2>2, <2>3
<1>7. g[m \ {x}] = f[y] + g[rest]
  <2>1. m \ {x} \in SUBSET U /\ m \ {x} # m /\ m \ {x} \subseteq m /\ y \in m \ {x}
      BY <1>3, <1>5
  <2>2. (m \ {x}) \ {y} = rest
      OBVIOUS
  <2>3. m \ {x} \notin T
      BY <1>1, <2>1
  <2> HIDE DEF y
  <2> QED
      BY <2>1, <2>2, <2>3
<1>8. f[x] \in Nat /\ f[y] \in Nat /\ g[rest] \in Nat
    BY <1>3, SumsFacts
<1> QED
    BY <1>2, <1>4, <1>6, <1>7, <1>8

\* Sums of sets that have nothing in common.
LEMMA Together ==
    ASSUME NEW f, NEW g, NEW U, Sums(f, g, U),
           NEW A \in SUBSET U, NEW B \in SUBSET U, A \cap B = {}
    PROVE  g[A \cup B] = g[A] + g[B]
<1> DEFINE T == {s \in SUBSET B : g[A \cup s] # g[A] + g[s]}
<1> SUFFICES ASSUME T # {} PROVE FALSE
    BY DEF T
<1>1. PICK m \in T : \A t \in T : t \subseteq m => t = m
  <2>1. T \subseteq SUBSET B /\ IsFiniteSet(B)
      BY FS_Subset, SumsFacts
  <2> HIDE DEF T
  <2> QED
      BY <2>1, Least
<1>2. m \in SUBSET B /\ m \in SUBSET U /\ g[A \cup m] # g[A] + g[m]
    OBVIOUS
<1>3. ASSUME m = {} PROVE FALSE
  <2>1. A \cup m = A
      BY <1>3
  <2>2. g[m] = 0 /\ g[A] \in Nat
      BY <1>3, SumsFacts
  <2>3. g[A \cup m] = g[A]
      BY <2>1
  <2> QED
      BY <1>2, <2>2, <2>3
<1>4. PICK x \in m : TRUE
    BY <1>3
<1>5. g[m] = f[x] + g[m \ {x}]
    BY <1>2, TakeAway
<1>6. g[A \cup m] = f[x] + g[A \cup (m \ {x})]
  <2>1. A \cup m \in SUBSET U /\ x \in A \cup m /\ (A \cup m) \ {x} = A \cup (m \ {x})
      BY <1>2
  <2> QED
      BY <2>1, TakeAway
<1>7. g[A \cup (m \ {x})] = g[A] + g[m \ {x}]
  <2>1. m \ {x} \in SUBSET B /\ m \ {x} \subseteq m /\ m \ {x} # m
      BY <1>2
  <2>2. m \ {x} \notin T
      BY <1>1, <2>1
  <2> QED
      BY <2>1, <2>2
<1>8. f[x] \in Nat /\ g[A] \in Nat /\ g[m \ {x}] \in Nat
    BY <1>2, SumsFacts
<1> QED
    BY <1>2, <1>5, <1>6, <1>7, <1>8

\* More rows, no smaller a sum.
LEMMA NoLess ==
    ASSUME NEW f, NEW g, NEW U, Sums(f, g, U),
           NEW A \in SUBSET U, NEW B \in SUBSET A
    PROVE  g[A] >= g[B]
<1>1. /\ A \ B \in SUBSET U /\ B \in SUBSET U
      /\ B \cap (A \ B) = {} /\ B \cup (A \ B) = A
    OBVIOUS
<1>2. g[A] = g[B] + g[A \ B]
    BY <1>1, Together
<1> QED
    BY <1>1, <1>2, SumsFacts

\* Total and SumOf are such sums.
LEMMA TotalIs ==
    ASSUME NEW f, NEW g, NEW U, Sums(f, g, U), NEW A \in SUBSET U,
           \A x \in A : f[x] = Earned[x[1]]
    PROVE  Pages!Total(A) = g[A]
<1> DEFINE Iter(h) ==
             [s \in SUBSET A |-> IF s = {} THEN 0 ELSE Earned[Pick(s)[1]] + h[s \ {Pick(s)}]]
           Sum(h) == [s \in SUBSET A |-> IF s = {} THEN 0 ELSE f[Pick(s)] + h[s \ {Pick(s)}]]
           IsIter(h) == h = Iter(h)
<1>1. Pages!Total(A) = (CHOOSE h : IsIter(h))[A]
    BY DEF Pages!Total, Pages!MapThenSumSet, Pages!MapThenFoldSet, Pick
<1>2. ASSUME NEW h PROVE IsIter(h) <=> Adds(f, h, A)
  <2>1. ASSUME NEW s \in SUBSET A, s # {}
        PROVE  Earned[Pick(s)[1]] = f[Pick(s)]
      BY <2>1, PickIn
  <2>2. Iter(h) = Sum(h)
      BY <2>1
  <2>3. Adds(f, h, A) <=> h = Sum(h)
      BY DEF Adds
  <2> HIDE DEF Iter, Sum
  <2> QED
      BY <2>2, <2>3
<1>3. \E h : Adds(f, h, A)
  <2>1. IsFiniteSet(A) /\ A \in SUBSET DOMAIN f /\ f \in [DOMAIN f -> Nat]
      BY FS_Subset DEF Sums
  <2> QED
      BY <2>1, Exists
<1> HIDE DEF IsIter
<1>4. IsIter(CHOOSE h : IsIter(h))
    BY <1>2, <1>3
<1>5. Adds(f, CHOOSE h : IsIter(h), A)
    BY <1>2, <1>4
<1>6. (CHOOSE h : IsIter(h))[A] = g[A]
    BY <1>5, SumsFacts, FS_Subset, Unique DEF Sums
<1> QED
    BY <1>1, <1>6

LEMMA SumOfIs ==
    ASSUME NEW points, NEW g, Sums(points, g, Period)
    PROVE  Pages!SumOf(points) = g[Period]
<1> DEFINE IsIter(h) ==
             h = [s \in SUBSET Period |->
                    IF s = {} THEN 0 ELSE points[Pick(s)] + h[s \ {Pick(s)}]]
<1>1. Pages!SumOf(points) = (CHOOSE h : IsIter(h))[Period]
    BY DEF Pages!SumOf, Pages!MapThenSumSet, Pages!MapThenFoldSet, Pick
<1>2. ASSUME NEW h PROVE IsIter(h) <=> Adds(points, h, Period)
    BY DEF Adds
<1> HIDE DEF IsIter
<1>3. IsIter(CHOOSE h : IsIter(h))
    BY <1>2 DEF Sums
<1>4. Adds(points, CHOOSE h : IsIter(h), Period)
    BY <1>2, <1>3
<1>5. (CHOOSE h : IsIter(h))[Period] = g[Period]
    BY <1>4, SumsFacts, Unique DEF Sums
<1> QED
    BY <1>1, <1>5

\* There are sums for any finite set.
LEMMA SumsExist ==
    ASSUME NEW X, NEW f \in [X -> Nat], IsFiniteSet(X)
    PROVE  \E g : Sums(f, g, X)
BY Exists DEF Sums

\* The sum of a table is the sum of the sums of its days.
LEMMA ByDay ==
    ASSUME NEW f, NEW g, NEW U, Sums(f, g, U), NEW A \in SUBSET U,
           \A x \in A : x[2] \in Period,
           NEW points, NEW h, Sums(points, h, Period),
           \A t \in Period : points[t] = g[{x \in A : x[2] = t}]
    PROVE  g[A] = h[Period]
<1> DEFINE Of(P) == {x \in A : x[2] \in P}
           T == {P \in SUBSET Period : g[Of(P)] # h[P]}
<1>1. T = {}
  <2> SUFFICES ASSUME T # {} PROVE FALSE
      OBVIOUS
  <2>1. PICK m \in T : \A t \in T : t \subseteq m => t = m
    <3>1. T \subseteq SUBSET Period /\ IsFiniteSet(Period)
        BY SumsFacts
    <3> HIDE DEF T
    <3> QED
        BY <3>1, Least
  <2>2. m \in SUBSET Period /\ g[Of(m)] # h[m]
      OBVIOUS
  <2>3. ASSUME m = {} PROVE FALSE
    <3>1. Of(m) = {}
        BY <2>3
    <3>2. g[{}] = 0 /\ h[{}] = 0
        BY SumsFacts
    <3> QED
        BY <2>2, <2>3, <3>1, <3>2
  <2>4. PICK t \in m : TRUE
      BY <2>3
  <2>5. m \ {t} \in SUBSET Period /\ m \ {t} \notin T
      BY <2>1, <2>2
  <2>6. g[Of(m \ {t})] = h[m \ {t}]
      BY <2>5
  <2>7. h[m] = points[t] + h[m \ {t}]
      BY <2>2, TakeAway
  <2>8. g[Of(m)] = g[{x \in A : x[2] = t}] + g[Of(m \ {t})]
    <3> DEFINE B == {x \in A : x[2] = t}
               C == Of(m \ {t})
    <3>1. B \in SUBSET U /\ C \in SUBSET U /\ B \cap C = {} /\ Of(m) = B \cup C
        OBVIOUS
    <3> HIDE DEF B, C, Of
    <3>2. g[B \cup C] = g[B] + g[C]
        BY <3>1, Together
    <3> QED
        BY <3>1, <3>2 DEF B, C
  <2>9. points[t] = g[{x \in A : x[2] = t}]
      BY <2>2
  <2> HIDE DEF Of
  <2> QED
      BY <2>2, <2>6, <2>7, <2>8, <2>9
<1>2. Of(Period) = A
    OBVIOUS
<1>3. Period \notin T
    BY <1>1
<1>4. g[Of(Period)] = h[Period]
    BY <1>3
<1> HIDE DEF Of
<1> QED
    BY <1>2, <1>4

(***************************************************************************)
(* Portal                                                                  *)
(***************************************************************************)

\* What is listed of an ad.
AdRow == [dashboard : Dashboards, role : PageRoles \cup {None}]

PagesTyped ==
    /\ utmify \in [Ads -> AdRow]
    /\ today \in Pages!Days
    /\ sync # None =>
          /\ sync.day \in Pages!Days
          /\ DOMAIN sync.listed \subseteq Ads
          /\ \A a \in DOMAIN sync.listed : sync.listed[a] \in AdRow
    /\ ads \in [Ads -> AdRow \cup {None}]
    /\ snapshots \subseteq Ads \X Pages!Days

\* Whatever is paid is paid for a day that has a snapshot.
Grounded ==
    /\ entries \subseteq Ads \X Pages!Days \X PageRoles
    /\ \A x \in entries : <<x[1], x[2]>> \in snapshots

IsPage ==
    page = [pc |-> page.pc, kind |-> page.kind, want |-> page.want,
               total |-> page.total, first |-> page.first, second |-> page.second,
               calm |-> page.calm]

\* What has been added up is what would be, unless something was committed.
StillTrue ==
    page.pc = "second" /\ page.kind = "me" /\ page.calm =>
        page.total = Pages!TotalCommission(page.want)

PagesInv ==
    /\ PagesTyped
    /\ Grounded
    /\ IsPage
    /\ StillTrue
    /\ Pages!TotalIsTheHistorys

\* Finitely many triples, of finite sets.
LEMMA TriplesFinite ==
    ASSUME NEW A, NEW B, NEW C, IsFiniteSet(A), IsFiniteSet(B), IsFiniteSet(C)
    PROVE  IsFiniteSet(A \X B \X C)
<1> DEFINE f == [p \in (A \X B) \X C |-> <<p[1][1], p[1][2], p[2]>>]
<1>1. IsFiniteSet((A \X B) \X C)
    BY FS_Product
<1>2. f \in Surjection((A \X B) \X C, A \X B \X C)
  <2>1. f \in [(A \X B) \X C -> A \X B \X C]
      OBVIOUS
  <2>2. ASSUME NEW t \in A \X B \X C
        PROVE  \E p \in (A \X B) \X C : f[p] = t
    <3>1. <<<<t[1], t[2]>>, t[3]>> \in (A \X B) \X C
        OBVIOUS
    <3>2. f[<<<<t[1], t[2]>>, t[3]>>] = t
        BY <3>1
    <3> QED
        BY <3>1, <3>2
  <2> HIDE DEF f
  <2> QED
      BY <2>1, <2>2 DEF Surjection
<1> QED
    BY <1>1, <1>2, FS_Surjection

LEMMA EntriesFinite ==
    ASSUME Grounded
    PROVE  IsFiniteSet(entries)
<1>1. IsFiniteSet(Pages!Days)
    BY PagesAssumption, FS_Interval DEF Pages!Days
<1>2. IsFiniteSet(Ads \X Pages!Days \X PageRoles)
    BY <1>1, TriplesFinite, PagesAssumption
<1> QED
    BY <1>2, FS_Subset DEF Grounded

\* There are sums of entries, and Total is one of them.
LEMMA EntrySums ==
    ASSUME Grounded
    PROVE  \E f, g : /\ Sums(f, g, entries)
                     /\ \A A \in SUBSET entries : Pages!Total(A) = g[A]
<1> DEFINE f == [x \in entries |-> Earned[x[1]]]
<1>1. f \in [entries -> Nat]
    BY PagesAssumption DEF Grounded
<1>2. \A x \in entries : f[x] = Earned[x[1]]
    OBVIOUS
<1> HIDE DEF f
<1>3. PICK g : Sums(f, g, entries)
    BY <1>1, EntriesFinite, SumsExist
<1>4. \A A \in SUBSET entries : Pages!Total(A) = g[A]
    BY <1>2, <1>3, TotalIs
<1> QED
    BY <1>3, <1>4

\* A day of the history has the entries of that day, each once.
LEMMA DayOfHistory ==
    ASSUME Grounded, NEW want, NEW t \in Period
    PROVE  {x \in Pages!Joined(want, t) : x[3] # None} = {x \in Pages!Commissions(want) : x[2] = t}
<1>1. ASSUME NEW x \in Pages!Joined(want, t), x[3] # None
      PROVE  x \in Pages!Commissions(want) /\ x[2] = t
  <2>1. PICK s \in Pages!Snapshots(want, t) :
           x \in IF Pages!EntriesOf(s) = {} THEN {<<s[1], s[2], None>>} ELSE Pages!EntriesOf(s)
      BY DEF Pages!Joined
  <2>2. x \in Pages!EntriesOf(s)
      BY <1>1, <2>1
  <2>3. x \in entries /\ x[1] = s[1] /\ x[2] = s[2] /\ s = <<x[1], x[2]>>
      BY <2>2 DEF Pages!EntriesOf
  <2>4. s \in snapshots /\ s[1] \in Pages!MyAds(want) /\ s[2] = t
      BY DEF Pages!Snapshots
  <2> QED
      BY <2>3, <2>4 DEF Pages!Commissions
<1>2. ASSUME NEW x \in Pages!Commissions(want), x[2] = t
      PROVE  x \in Pages!Joined(want, t) /\ x[3] # None
  <2>1. x \in entries /\ x[1] \in Pages!MyAds(want) /\ <<x[1], x[2]>> \in snapshots /\ x[3] \in PageRoles
      BY DEF Pages!Commissions, Grounded
  <2> DEFINE s == <<x[1], x[2]>>
  <2>2. s \in Pages!Snapshots(want, t)
      BY <1>2, <2>1 DEF Pages!Snapshots
  <2>3. x \in Pages!EntriesOf(s)
      BY <2>1 DEF Pages!EntriesOf
  <2> HIDE DEF s
  <2>4. x \in Pages!Joined(want, t)
      BY <2>2, <2>3 DEF Pages!Joined
  <2> QED
      BY <2>1, <2>4, PagesAssumption
<1> QED
    BY <1>1, <1>2

\* The two queries of Me count the same entries.
LEMMA HistoryAddsUp ==
    ASSUME Grounded, NEW want
    PROVE  Pages!TotalCommission(want) = Pages!SumOf([t \in Period |-> Pages!HistoryCommission(want, t)])
<1> DEFINE A == Pages!Commissions(want)
           points == [t \in Period |-> Pages!HistoryCommission(want, t)]
<1>1. PICK f, g : /\ Sums(f, g, entries)
                  /\ \A B \in SUBSET entries : Pages!Total(B) = g[B]
    BY EntrySums
<1>2. A \in SUBSET entries /\ \A x \in A : x[2] \in Period
    BY DEF Pages!Commissions
<1>3. ASSUME NEW t \in Period
      PROVE  points[t] = g[{x \in A : x[2] = t}] /\ points[t] \in Nat
  <2>1. points[t] = Pages!Total({x \in A : x[2] = t})
      BY DayOfHistory DEF Pages!HistoryCommission
  <2>2. {x \in A : x[2] = t} \in SUBSET entries
      BY <1>2
  <2> HIDE DEF A, points
  <2> QED
      BY <1>1, <2>1, <2>2, SumsFacts
<1>4. points \in [Period -> Nat]
    BY <1>3
<1> HIDE DEF A, points
<1>5. PICK h : Sums(points, h, Period)
    BY <1>4, PagesAssumption, SumsExist
<1>6. g[A] = h[Period]
    BY <1>1, <1>2, <1>3, <1>5, ByDay
<1>7. Pages!SumOf(points) = h[Period]
    BY <1>5, SumOfIs
<1>8. Pages!TotalCommission(want) = g[A]
    BY <1>1, <1>2 DEF Pages!TotalCommission, A
<1> QED
    BY <1>6, <1>7, <1>8 DEF points

\* An administrator is shown the same entries, and perhaps more.
LEMMA MonthCounts ==
    ASSUME Grounded
    PROVE  Pages!MonthlyShowsNoLess
<1> SUFFICES ASSUME NEW want \in Dashboards \cup {None}
             PROVE  IF \A x \in entries : \E role \in PageRoles : links[<<x[1], role>>] # None
                    THEN Pages!MonthlyCommission(want) = Pages!TotalCommission(want)
                    ELSE Pages!MonthlyCommission(want) >= Pages!TotalCommission(want)
    BY DEF Pages!MonthlyShowsNoLess
<1> DEFINE M == {x \in entries : /\ x[2] \in Period
                                 /\ want # None => ads[x[1]].dashboard = want}
           C == Pages!Commissions(want)
<1>1. M \in SUBSET entries /\ C \in SUBSET entries /\ C \in SUBSET M
    BY DEF Pages!Commissions, Pages!MyAds
<1>2. ASSUME \A x \in entries : \E role \in PageRoles : links[<<x[1], role>>] # None
      PROVE  M \subseteq C
  <2> SUFFICES ASSUME NEW x \in M PROVE x \in C
      OBVIOUS
  <2>1. x \in entries /\ x[1] \in Ads /\ x[2] \in Period /\ <<x[1], x[2]>> \in snapshots
      BY DEF Grounded
  <2>2. x[1] \in Pages!MyAds(want)
      BY <1>2, <2>1 DEF Pages!MyAds
  <2> QED
      BY <2>1, <2>2 DEF Pages!Commissions
<1>3. PICK f, g : /\ Sums(f, g, entries)
                  /\ \A B \in SUBSET entries : Pages!Total(B) = g[B]
    BY EntrySums
<1>4. Pages!MonthlyCommission(want) = Pages!Total(M) /\ Pages!TotalCommission(want) = Pages!Total(C)
    BY DEF Pages!MonthlyCommission, Pages!TotalCommission
<1> HIDE DEF M, C
<1>5. Pages!Total(M) = g[M] /\ Pages!Total(C) = g[C]
    BY <1>1, <1>3
<1>6. Pages!Total(M) >= Pages!Total(C)
    BY <1>1, <1>3, <1>5, NoLess
<1>7. M \subseteq C => M = C
    BY <1>1
<1> QED
    BY <1>2, <1>4, <1>6, <1>7

LEMMA InitPages == Pages!Init => PagesInv
<1> SUFFICES ASSUME Pages!Init PROVE PagesInv
    OBVIOUS
<1>1. PagesTyped
  <2>1. 1 \in Pages!Days
      BY PagesAssumption DEF Pages!Days
  <2> QED
      BY <2>1 DEF Pages!Init, PagesTyped, AdRow
<1>2. Grounded
    BY DEF Pages!Init, Grounded
<1>3. IsPage /\ StillTrue /\ Pages!TotalIsTheHistorys
    BY DEF Pages!Init, Pages!NoPage, IsPage, StillTrue, Pages!TotalIsTheHistorys, Pages!CalmPage
<1> QED
    BY <1>1, <1>2, <1>3 DEF PagesInv

\* The same tables have the same sums.
LEMMA SameTotal ==
    ASSUME UNCHANGED Pages!tables, NEW want
    PROVE  Pages!TotalCommission(want)' = Pages!TotalCommission(want)
<1>1. Pages!MyAds(want)' = Pages!MyAds(want)
    BY DEF Pages!MyAds, Pages!tables
<1>2. Pages!Commissions(want)' = Pages!Commissions(want)
    BY <1>1 DEF Pages!Commissions, Pages!tables
<1>3. Pages!TotalCommission(want)' = Pages!Total(Pages!Commissions(want)')
    BY DEF Pages!TotalCommission
<1> QED
    BY <1>2, <1>3 DEF Pages!TotalCommission

\* A step that leaves tables and pages alone.
LEMMA PagesStay ==
    ASSUME PagesInv, PagesTyped', UNCHANGED <<Pages!tables, page>>
    PROVE  PagesInv'
<1>1. Grounded' /\ IsPage'
    BY DEF PagesInv, Grounded, IsPage, Pages!tables
<1>2. \A want : Pages!TotalCommission(want)' = Pages!TotalCommission(want)
    BY SameTotal
<1>3. StillTrue' /\ Pages!TotalIsTheHistorys'
    BY <1>2 DEF PagesInv, StillTrue, Pages!TotalIsTheHistorys, Pages!CalmPage
<1> QED
    BY <1>1, <1>3 DEF PagesInv

\* A commit.
LEMMA PagesTold ==
    ASSUME PagesInv, PagesTyped', Grounded', Pages!Commits
    PROVE  PagesInv'
<1>1. /\ page'.pc = page.pc /\ page'.kind = page.kind
      /\ page'.want = page.want /\ page'.total = page.total
      /\ page'.first = page.first /\ page'.second = page.second
      /\ page'.calm <=> page.calm /\ page.pc # "second"
      /\ IsPage'
    BY DEF Pages!Commits, PagesInv, IsPage
<1>2. StillTrue'
    BY <1>1 DEF StillTrue
<1>3. Pages!TotalIsTheHistorys'
    BY <1>1 DEF PagesInv, Pages!TotalIsTheHistorys, Pages!CalmPage
<1> QED
    BY <1>1, <1>2, <1>3 DEF PagesInv

LEMMA SyncCommitsKeeps ==
    ASSUME PagesInv, Pages!SyncCommits
    PROVE  PagesInv'
<1> DEFINE paid == IF sync.hired THEN sync.listed ELSE Pages!Nothing
<1>1. /\ sync # None /\ sync' = None
      /\ entries' = entries \cup {<<x[1], sync.day, x[2]>> : x \in Pages!LinksOf(paid)}
      /\ ads' = [a \in Ads |-> IF a \in DOMAIN sync.listed THEN sync.listed[a] ELSE ads[a]]
      /\ snapshots' = snapshots \cup {<<a, sync.day>> : a \in DOMAIN sync.listed}
      /\ Pages!Commits
      /\ UNCHANGED Pages!world
    BY DEF Pages!SyncCommits
<1>2. /\ sync.day \in Pages!Days
      /\ DOMAIN sync.listed \subseteq Ads
      /\ \A a \in DOMAIN sync.listed : sync.listed[a] \in AdRow
    BY <1>1 DEF PagesInv, PagesTyped
<1>3. PagesTyped'
  <2>1. utmify' \in [Ads -> AdRow] /\ today' \in Pages!Days
      BY <1>1 DEF Pages!world, PagesInv, PagesTyped
  <2>2. ads' \in [Ads -> AdRow \cup {None}]
      BY <1>1, <1>2 DEF PagesInv, PagesTyped
  <2>3. snapshots' \subseteq Ads \X Pages!Days
      BY <1>1, <1>2 DEF PagesInv, PagesTyped
  <2> QED
      BY <1>1, <2>1, <2>2, <2>3 DEF PagesTyped, Pages!Days
<1>4. ASSUME NEW x \in Pages!LinksOf(paid)
      PROVE  x[1] \in DOMAIN sync.listed /\ x[2] \in PageRoles
  <2>1. PICK a \in DOMAIN paid : x = <<a, paid[a].role>> /\ paid[a].role # None
      BY DEF Pages!LinksOf
  <2>2. a \in DOMAIN sync.listed /\ paid[a] = sync.listed[a]
      BY <2>1 DEF Pages!Nothing
  <2> HIDE DEF paid
  <2> QED
      BY <1>2, <2>1, <2>2 DEF AdRow
<1>5. Grounded'
  <2>1. ASSUME NEW y \in entries'
        PROVE  y \in Ads \X Pages!Days \X PageRoles /\ <<y[1], y[2]>> \in snapshots'
    <3>1. CASE y \in entries
        BY <1>1, <3>1 DEF PagesInv, Grounded
    <3>2. CASE y \notin entries
      <4> HIDE DEF paid
      <4>1. PICK x \in Pages!LinksOf(paid) : y = <<x[1], sync.day, x[2]>>
          BY <1>1, <3>2
      <4> QED
          BY <1>1, <1>2, <1>4, <4>1
    <3> QED
        BY <3>1, <3>2
  <2> QED
      BY <2>1 DEF Grounded
<1> QED
    BY <1>1, <1>3, <1>5, PagesTold

LEMMA BackfillCommitsKeeps ==
    ASSUME PagesInv, Pages!BackfillCommits
    PROVE  PagesInv'
<1>1. /\ entries' = entries \cup {<<x[1], x[2], ads[x[1]].role>> :
                                    x \in {s \in snapshots : s[1] \in Pages!Matching}}
      /\ Pages!Commits
      /\ UNCHANGED <<Pages!world, sync, ads, snapshots>>
    BY DEF Pages!BackfillCommits
<1>2. PagesTyped'
    BY <1>1 DEF PagesInv, PagesTyped, Pages!world, Pages!Days
<1>3. Grounded'
  <2>1. ASSUME NEW y \in entries'
        PROVE  y \in Ads \X Pages!Days \X PageRoles /\ <<y[1], y[2]>> \in snapshots'
    <3>1. CASE y \in entries
        BY <1>1, <3>1 DEF PagesInv, Grounded
    <3>2. CASE y \notin entries
      <4>1. PICK x \in snapshots : x[1] \in Pages!Matching /\ y = <<x[1], x[2], ads[x[1]].role>>
          BY <1>1, <3>2
      <4>2. x \in Ads \X Pages!Days /\ ads[x[1]] \in AdRow /\ ads[x[1]].role # None
          BY <4>1 DEF PagesInv, PagesTyped, Pages!Matching
      <4>3. ads[x[1]].role \in PageRoles
          BY <4>2 DEF AdRow
      <4> QED
          BY <1>1, <4>1, <4>2, <4>3
    <3> QED
        BY <3>1, <3>2
  <2> QED
      BY <2>1 DEF Grounded
<1> QED
    BY <1>1, <1>2, <1>3, PagesTold

LEMMA FirstQueryKeeps ==
    ASSUME PagesInv, Pages!FirstQuery
    PROVE  PagesInv'
<1>1. /\ UNCHANGED <<Pages!world, sync, backfill, Pages!tables>>
      /\ page.pc = "first"
      /\ page'.pc = "second" /\ page'.kind = page.kind
      /\ page'.want = page.want
      /\ page.kind = "me" => page'.total = Pages!TotalCommission(page.want)
      /\ IsPage'
    BY DEF Pages!FirstQuery, PagesInv, IsPage
<1>2. PagesTyped' /\ Grounded'
    BY <1>1 DEF PagesInv, PagesTyped, Grounded, Pages!world, Pages!tables, Pages!Days
<1>3. \A want : Pages!TotalCommission(want)' = Pages!TotalCommission(want)
    BY <1>1, SameTotal
<1>4. StillTrue' /\ Pages!TotalIsTheHistorys'
    BY <1>1, <1>3 DEF StillTrue, Pages!TotalIsTheHistorys, Pages!CalmPage
<1> QED
    BY <1>1, <1>2, <1>4 DEF PagesInv

LEMMA SecondQueryKeeps ==
    ASSUME PagesInv, Pages!SecondQuery
    PROVE  PagesInv'
<1>1. /\ UNCHANGED <<Pages!world, sync, backfill, Pages!tables>>
      /\ page.pc = "second"
      /\ page'.pc = "shown" /\ page'.kind = page.kind
      /\ page'.want = page.want /\ page'.total = page.total
      /\ page'.calm = page.calm
      /\ page.kind = "me" =>
            page'.second = [t \in Period |-> Pages!HistoryCommission(page.want, t)]
      /\ IsPage'
    BY DEF Pages!SecondQuery, PagesInv, IsPage
<1>2. PagesTyped' /\ Grounded'
    BY <1>1 DEF PagesInv, PagesTyped, Grounded, Pages!world, Pages!tables, Pages!Days
<1>3. ASSUME page.kind = "me", page.calm
      PROVE  page.total = Pages!SumOf(page'.second)
  <2>1. page.total = Pages!TotalCommission(page.want)
      BY <1>1, <1>3 DEF PagesInv, StillTrue
  <2>2. Grounded
      BY DEF PagesInv
  <2> QED
      BY <1>1, <1>3, <2>1, <2>2, HistoryAddsUp
<1>4. Pages!SumOf(page.second)' = Pages!SumOf(page'.second)
    BY DEF Pages!SumOf, Pages!MapThenSumSet, Pages!MapThenFoldSet
<1>5. StillTrue' /\ Pages!TotalIsTheHistorys'
    BY <1>1, <1>3, <1>4 DEF StillTrue, Pages!TotalIsTheHistorys, Pages!CalmPage
<1> QED
    BY <1>1, <1>2, <1>5 DEF PagesInv

\* A page that begins, or is gone.
LEMMA NewPageKeeps ==
    ASSUME PagesInv, UNCHANGED <<Pages!world, sync, backfill, Pages!tables>>, IsPage',
           page'.pc \in {"none", "first"}
    PROVE  PagesInv'
<1>1. PagesTyped' /\ Grounded'
    BY DEF PagesInv, PagesTyped, Grounded, Pages!world, Pages!tables, Pages!Days
<1>2. StillTrue' /\ Pages!TotalIsTheHistorys'
    BY DEF StillTrue, Pages!TotalIsTheHistorys, Pages!CalmPage
<1> QED
    BY <1>1, <1>2 DEF PagesInv

LEMMA NextPages ==
    ASSUME PagesInv, [Pages!Next]_portalVars
    PROVE  PagesInv'
<1>1. CASE UNCHANGED portalVars
  <2>1. PagesTyped'
      BY <1>1 DEF PagesInv, PagesTyped, portalVars, Pages!world, Pages!tables, Pages!Days
  <2> QED
      BY <1>1, <2>1, PagesStay DEF portalVars, Pages!tables
<1>2. ASSUME NEW a \in Ads, Pages!Changes(a) PROVE PagesInv'
  <2>1. utmify' \in [Ads -> AdRow]
      BY <1>2 DEF Pages!Changes, PagesInv, PagesTyped, AdRow
  <2>2. PagesTyped'
      BY <1>2, <2>1 DEF Pages!Changes, PagesInv, PagesTyped, Pages!tables, Pages!Days
  <2> QED
      BY <1>2, <2>2, PagesStay DEF Pages!Changes
<1>3. CASE Pages!NextDay
  <2>1. today' \in Pages!Days
      BY <1>3, PagesAssumption DEF Pages!NextDay, PagesInv, PagesTyped, Pages!Days
  <2>2. PagesTyped'
      BY <1>3, <2>1 DEF Pages!NextDay, PagesInv, PagesTyped, Pages!tables, Pages!Days
  <2> QED
      BY <1>3, <2>2, PagesStay DEF Pages!NextDay
<1>4. CASE Pages!Create \/ Pages!BackfillLinks \/ Pages!BackfillFails
  <2>1. UNCHANGED <<utmify, today, sync, Pages!tables, page>>
      BY <1>4 DEF Pages!Create, Pages!BackfillLinks, Pages!BackfillFails, Pages!world
  <2>2. PagesTyped'
      BY <2>1 DEF PagesInv, PagesTyped, Pages!tables, Pages!Days
  <2> QED
      BY <2>1, <2>2, PagesStay
<1>5. ASSUME NEW d \in Dashboards, Pages!SyncReads(d) PROVE PagesInv'
  <2>1. /\ sync'.day = today
        /\ DOMAIN sync'.listed \subseteq Ads
        /\ \A a \in DOMAIN sync'.listed : sync'.listed[a] = utmify[a]
      BY <1>5 DEF Pages!SyncReads
  <2>2. PagesTyped'
      BY <1>5, <2>1 DEF Pages!SyncReads, PagesInv, PagesTyped, Pages!world, Pages!tables, Pages!Days
  <2> QED
      BY <1>5, <2>2, PagesStay DEF Pages!SyncReads
<1>6. CASE Pages!SyncFails
  <2>1. PagesTyped'
      BY <1>6 DEF Pages!SyncFails, PagesInv, PagesTyped, Pages!world, Pages!tables, Pages!Days
  <2> QED
      BY <1>6, <2>1, PagesStay DEF Pages!SyncFails
<1>7. CASE Pages!SyncCommits \/ Pages!BackfillCommits \/ Pages!FirstQuery \/ Pages!SecondQuery
    BY <1>7, SyncCommitsKeeps, BackfillCommitsKeeps, FirstQueryKeeps, SecondQueryKeeps
<1>8. ASSUME NEW kind, NEW want, Pages!Asks(kind, want) PROVE PagesInv'
  <2>1. IsPage' /\ page'.pc = "first"
      BY <1>8 DEF Pages!Asks, Pages!NoPage, IsPage
  <2> QED
      BY <1>8, <2>1, NewPageKeeps DEF Pages!Asks
<1>9. CASE Pages!Returns
  <2>1. IsPage' /\ page'.pc = "none"
      BY <1>9 DEF Pages!Returns, Pages!NoPage, IsPage
  <2> QED
      BY <1>9, <2>1, NewPageKeeps DEF Pages!Returns
<1> QED
    BY <1>1, <1>2, <1>3, <1>4, <1>5, <1>6, <1>7, <1>8, <1>9 DEF Pages!Next

(***************************************************************************)
(* The behaviours of MCFront                                               *)
(***************************************************************************)

R == INSTANCE RoutingProofs WITH
    Roles <- CompanyRoles, request <- routed, expired <- tokenExpired

allVars == <<part, vars, routingVars, portalVars, callVars>>

\* What the parts have to do with each other: each one's variables take its steps.
LEMMA PartsStep ==
    ASSUME [MCNext]_allVars
    PROVE  /\ part' = part
           /\ [Routes!Next]_routingVars
           /\ [Utmify!Next]_callVars
           /\ [Pages!Next]_portalVars
<1>1. CASE UNCHANGED allVars
    BY <1>1 DEF allVars
<1>2. CASE MCNext
    BY <1>2 DEF MCNext
<1> QED
    BY <1>1, <1>2

\* RoutingProofs speaks of the same router.
LEMMA SameRoutes ==
    /\ Routes!Init <=> R!Init
    /\ Routes!Next <=> R!Next
    /\ R!IdentityIsTheRequests => Routes!IdentityIsTheRequests
    /\ R!BehindItsGuards => Routes!BehindItsGuards
    /\ R!ServedWithoutPrefix => Routes!ServedWithoutPrefix
    BY DEF Routes!PublicEndpoints, R!PublicEndpoints, Routes!SystemEndpoints,
           R!SystemEndpoints, Routes!AdminEndpoints, R!AdminEndpoints,
           Routes!ScopedEndpoints, R!ScopedEndpoints, Routes!CompanyEndpoints,
           R!CompanyEndpoints, Routes!Endpoints, R!Endpoints, Routes!Prefixes,
           R!Prefixes, Routes!Claims, R!Claims, Routes!BadToken, R!BadToken,
           Routes!vars, R!vars, Routes!RequestRecord, R!RequestRecord,
           Routes!Slots, R!Slots, Routes!Stack, R!Stack, Routes!SlotAt,
           R!SlotAt, Routes!RegistrationAt, R!RegistrationAt, Routes!Matches,
           R!Matches, Routes!CollaboratorRoles, R!CollaboratorRoles,
           Routes!Authenticated, R!Authenticated, Routes!ScopeOf, R!ScopeOf,
           Routes!CompanyRefusal, R!CompanyRefusal, Routes!SystemRefusal,
           R!SystemRefusal, Routes!Init, R!Init, Routes!Expire, R!Expire,
           Routes!Meets, R!Meets, Routes!Skip, R!Skip, Routes!NotFound,
           R!NotFound, Routes!Refuse, R!Refuse, Routes!SystemGuard,
           R!SystemGuard, Routes!CompanyGuard, R!CompanyGuard, Routes!Me, R!Me,
           Routes!Handle, R!Handle, Routes!HandleScoped, R!HandleScoped,
           Routes!Next, R!Next, Routes!Handled, R!Handled,
           Routes!IdentityIsTheRequests, R!IdentityIsTheRequests,
           Routes!BehindItsGuards, R!BehindItsGuards, Routes!Suffices,
           R!Suffices, Routes!ServedWithoutPrefix, R!ServedWithoutPrefix

LEMMA RoutesInvariance == MCSpec => []R!RInv
<1>1. R!NoneIsNothing
    BY NoneAssumption DEF R!NoneIsNothing, R!ScopeRecord, R!Replies
<1>2. MCInit => R!RInv
  <2>1. MCInit => R!Init
      BY SameRoutes DEF MCInit
  <2> QED
      BY <1>1, <2>1, R!InitRouted
<1>3. R!RInv /\ [MCNext]_allVars => R!RInv'
  <2>1. ASSUME [MCNext]_allVars PROVE [R!Next]_(R!vars)
      BY <2>1, PartsStep, SameRoutes DEF routingVars, R!vars
  <2> QED
      BY <1>1, <2>1, R!NextRouted
<1> QED
    BY <1>2, <1>3, PTL DEF MCSpec, allVars

LEMMA CallsInvariance == MCSpec => []AllInTime
<1>1. MCInit => AllInTime
    BY InitInTime DEF MCInit
<1>2. AllInTime /\ [MCNext]_allVars => AllInTime'
    BY PartsStep, NextInTime
<1> QED
    BY <1>1, <1>2, PTL DEF MCSpec, allVars

LEMMA BurstInvariance == MCSpec => [](part = "calls" => BurstInv)
<1>1. MCInit => (part = "calls" => BurstInv)
    BY InitInBurst DEF MCInit
<1>2. (part = "calls" => BurstInv) /\ [MCNext]_allVars => (part = "calls" => BurstInv)'
    BY PartsStep, NextInBurst
<1> QED
    BY <1>1, <1>2, PTL DEF MCSpec, allVars

LEMMA PagesInvariance == MCSpec => []PagesInv
<1>1. MCInit => PagesInv
    BY InitPages DEF MCInit
<1>2. PagesInv /\ [MCNext]_allVars => PagesInv'
    BY PartsStep, NextPages
<1> QED
    BY <1>1, <1>2, PTL DEF MCSpec, allVars

(***************************************************************************)
(* Theorems of MCFront                                                     *)
(***************************************************************************)

\* A handler sees the identity of its own request, whatever it met on the way.
THEOREM IdentityIsAlwaysTheRequests == MCSpec => []IdentityIsTheRequests
<1>1. R!RInv => IdentityIsTheRequests
    BY R!IdentityFollows, SameRoutes DEF IdentityIsTheRequests
<1> QED
    BY <1>1, RoutesInvariance, PTL

\* Under every prefix a handler runs behind its group's guards.
THEOREM AlwaysBehindItsGuards == MCSpec => []BehindItsGuards
<1>1. R!RInv => BehindItsGuards
    BY SameRoutes DEF BehindItsGuards, R!RInv
<1> QED
    BY <1>1, RoutesInvariance, PTL

\* Whoever brings what an endpoint needs is served without a prefix, and in the
\* company group under any.
THEOREM AlwaysServedWithoutPrefix == MCSpec => []ServedWithoutPrefix
<1>1. R!RInv => ServedWithoutPrefix
    BY SameRoutes DEF ServedWithoutPrefix, R!RInv
<1> QED
    BY <1>1, RoutesInvariance, PTL

\* A call of Utmify ends within its context, or after all its attempts.
THEOREM CallsEndInTime == MCSpec => []EndsInTime
<1>1. AllInTime => EndsInTime
    BY InTimeEnds DEF EndsInTime
<1> QED
    BY <1>1, CallsInvariance, PTL

\* The retries of a burst that nobody else calls in outlast the rate limit.
THEOREM BurstsOutlastTheLimit == MCSpec => []OutlastsTheLimit
<1>1. (part = "calls" => BurstInv) => OutlastsTheLimit
    BY DEF OutlastsTheLimit, BurstInv
<1> QED
    BY <1>1, BurstInvariance, PTL

\* The total of a page on which nothing was committed between the two queries is
\* the sum of its history: both count each commission once, whatever links an ad
\* has.
THEOREM TotalIsAlwaysTheHistorys == MCSpec => []TotalIsTheHistorys
<1>1. PagesInv => TotalIsTheHistorys
    BY DEF PagesInv, TotalIsTheHistorys
<1> QED
    BY <1>1, PagesInvariance, PTL

\* An administrator is shown no less of a month than the collaborator, and as
\* much if no entry is without a link.
THEOREM MonthAlwaysShowsNoLess == MCSpec => []MonthlyShowsNoLess
<1>1. PagesInv => MonthlyShowsNoLess
  <2>1. Grounded => MonthlyShowsNoLess
      BY MonthCounts DEF MonthlyShowsNoLess
  <2> QED
      BY <2>1 DEF PagesInv
<1> QED
    BY <1>1, PagesInvariance, PTL
=============================================================================
