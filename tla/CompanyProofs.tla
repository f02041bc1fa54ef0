---------------------------- MODULE CompanyProofs ----------------------------
(***************************************************************************)
(* Proofs about CompanyAccounts, for any users, bodies and requests, and   *)
(* the theorems of MCCompany about CompanySetup that follow from           *)
(* CompanySetupProofs, for any requests, slugs and e-mails.                *)
(***************************************************************************)
EXTENDS MCCompany, TLAPS

RatesOrdered == \A u \in Existing : users[u].min <= users[u].max

\* What a request brought, has found and has read, wherever it is.
BodyOK(r) ==
    /\ pc[r] = "logging in" => body[r].email \in Emails /\ body[r].password \in Passwords
    /\ pc[r] \in {"changing", "replacing"} =>
          /\ found[r] \in Existing
          /\ body[r].password \in Passwords /\ body[r].next \in Passwords
    /\ pc[r] \in {"updating", "writing", "resetting"} =>
          /\ found[r] \in Existing
          /\ body[r].ask \in Ask
    /\ pc[r] = "resetting" => body[r].ask.password \in Passwords

ReadOK(r) ==
    /\ pc[r] = "writing" =>
          /\ read[r] \in Row
          /\ Pick(body[r].ask.min, read[r].min) <= Pick(body[r].ask.max, read[r].max)
    /\ pc[r] = "creating" =>
          /\ found[r] \in Users /\ read[r] \in Draft
          /\ read[r].min <= read[r].max
    /\ pc[r] # "rates check"

VouchedFor(r) ==
    /\ pc[r] \in {"recording", "session"} =>
          /\ <<found[r], read[r]>> \in seen[r]
          /\ read[r].email = body[r].email
          /\ Knew(body[r].password, read[r])
    /\ pc[r] = "replacing" =>
          \E s \in seen[r] : s[1] = found[r] /\ Knew(body[r].password, s[2])

\* A request under way has seen the rows as they are now.
SeesNow(r) == pc[r] # "idle" => \A u \in Existing : <<u, users[u]>> \in seen[r]

ReqInv(r) == BodyOK(r) /\ ReadOK(r) /\ VouchedFor(r) /\ SeesNow(r)

IInv ==
    /\ TypeOK
    /\ EmailsAreUnique
    /\ RatesOrdered
    /\ \A r \in Requests : ReqInv(r)

(***************************************************************************)
(* Facts about rows and the building blocks of the actions                 *)
(***************************************************************************)

LEMMA NoneIsNoRow == None \notin Row /\ None \notin Draft /\ Row \subseteq Draft
  BY CompanyAssumption DEF Row, Draft, RowsWith

LEMMA RowParts ==
  ASSUME NEW row \in Row
  PROVE  /\ row.email \in Emails /\ row.password \in Passwords
         /\ row.role \in Roles \cap UserRoles
         /\ row.min \in Rates /\ row.max \in Rates /\ row.min \in Nat /\ row.max \in Nat
         /\ row.status \in {"active", "inactive"} /\ row.active \in BOOLEAN
  BY CompanyAssumption DEF Row, RowsWith

LEMMA DraftIsRow == \A row \in Draft : row.role \in UserRoles => row \in Row
  BY DEF Row, Draft, RowsWith

LEMMA WithPassword ==
  ASSUME NEW row \in Row, NEW p \in Passwords
  PROVE  /\ [row EXCEPT !.password = p] \in Row
         /\ [row EXCEPT !.password = p].password = p
         /\ [row EXCEPT !.password = p].email = row.email
         /\ [row EXCEPT !.password = p].min = row.min
         /\ [row EXCEPT !.password = p].max = row.max
  BY DEF Row, RowsWith

LEMMA WithoutUser ==
  ASSUME NEW row \in Row
  PROVE  /\ [row EXCEPT !.status = "inactive", !.active = FALSE] \in Row
         /\ [row EXCEPT !.status = "inactive", !.active = FALSE].password = row.password
         /\ [row EXCEPT !.status = "inactive", !.active = FALSE].email = row.email
         /\ [row EXCEPT !.status = "inactive", !.active = FALSE].min = row.min
         /\ [row EXCEPT !.status = "inactive", !.active = FALSE].max = row.max
  BY DEF Row, RowsWith

AskParts(a) ==
    /\ a.email \in Emails \cup {None} /\ a.password \in Passwords \cup {None}
    /\ a.role \in Roles \cup {None} /\ a.min \in Rates \cup {None}
    /\ a.max \in Rates \cup {None} /\ a.status \in {"active", "inactive", None}

LEMMA AskFacts == \A a \in Ask : AskParts(a)
  BY DEF Ask, AskParts

LEMMA WrittenFacts ==
  ASSUME NEW now \in Row, NEW row \in Row, NEW a \in Ask
  PROVE  /\ Written(now, row, a) \in Draft
         /\ Written(now, row, a).password = now.password
         /\ Written(now, row, a).min = Pick(a.min, row.min)
         /\ Written(now, row, a).max = Pick(a.max, row.max)
<1>1. AskParts(a) BY AskFacts
<1>2. /\ now.email \in Emails /\ now.password \in Passwords /\ now.active \in BOOLEAN
      /\ row.role \in Roles /\ row.min \in Rates /\ row.max \in Rates
      /\ row.status \in {"active", "inactive"}
  BY DEF Row, RowsWith
<1>3. /\ Pick(a.email, now.email) \in Emails
      /\ Pick(a.role, row.role) \in Roles
      /\ Pick(a.min, row.min) \in Rates /\ Pick(a.max, row.max) \in Rates
      /\ Pick(a.status, row.status) \in {"active", "inactive"}
  BY <1>1, <1>2 DEF Pick, AskParts
<1> QED BY <1>2, <1>3 DEF Written, Draft, RowsWith

LEMMA ExistingFacts ==
  ASSUME TypeOK
  PROVE  /\ Existing \subseteq Users
         /\ \A u \in Existing : users[u] \in Row
         /\ \A u \in Users : users[u] \in Row => u \in Existing
  BY NoneIsNoRow DEF TypeOK, Existing

LEMMA WritesFacts ==
  ASSUME TypeOK, NEW u \in Users, NEW row \in Row, Writes(u, row)
  PROVE  /\ users' \in [Users -> Row \cup {None}]
         /\ users'[u] = row /\ \A w \in Users \ {u} : users'[w] = users[w]
         /\ Existing' = Existing \cup {u}
         /\ seen' \in [Requests -> SUBSET (Users \X Row)]
         /\ \A q \in Requests : seen'[q] = seen[q] \cup {<<u, row>>}
         /\ touched' \in [Requests -> SUBSET Columns]
  BY NoneIsNoRow DEF TypeOK, Writes, Existing

\* A row written over a user's leaves the table in order.
LEMMA TableKept ==
  ASSUME TypeOK, EmailsAreUnique, RatesOrdered, NEW u \in Users, NEW row \in Row,
         Writes(u, row), row.min <= row.max,
         \A w \in Existing \ {u} : users[w].email # row.email
  PROVE  EmailsAreUnique' /\ RatesOrdered'
<1>1. /\ users'[u] = row /\ \A w \in Users \ {u} : users'[w] = users[w]
      /\ Existing' = Existing \cup {u} /\ Existing \subseteq Users
  BY WritesFacts, ExistingFacts
<1> QED BY <1>1 DEF EmailsAreUnique, RatesOrdered

\* A request that stays where it is loses nothing by what others write.
LEMMA StillReqInv ==
  ASSUME NEW q \in Requests, ReqInv(q),
         pc'[q] = pc[q], body'[q] = body[q], found'[q] = found[q], read'[q] = read[q],
         Existing \subseteq Existing', seen[q] \subseteq seen'[q], SeesNow(q)'
  PROVE  ReqInv(q)'
<1>1. BodyOK(q)' BY DEF ReqInv, BodyOK
<1>2. ReadOK(q)' BY DEF ReqInv, ReadOK
<1>3. VouchedFor(q)' BY DEF ReqInv, VouchedFor
<1> QED BY <1>1, <1>2, <1>3 DEF ReqInv

Places == InFlight \cup Ended \cup {"idle", "session"}
Bodies == [email : Emails \cup {None}, password : Passwords \cup {None},
           next : Passwords \cup {None}, ask : Ask \cup {None}]

LEMMA NoBodyIsBody == NoBody \in Bodies
  BY DEF NoBody, Body, Bodies

\* A new request: what it brought must be fit for where it begins.
LEMMA ArrivesKeeps ==
  ASSUME IInv, NEW r \in Requests,
         NEW first \in {"logging in", "changing", "creating", "updating"},
         NEW b \in Bodies, NEW u \in Users \cup {None},
         Arrives(r, first, b, u),
         edits' \in 0 .. MaxEdits,
         read' \in [Requests -> Draft \cup {None}],
         \A q \in Requests \ {r} : read'[q] = read[q],
         BodyOK(r)', ReadOK(r)'
  PROVE  IInv'
<1>1. TypeOK BY DEF IInv
<1>2. /\ pc'[r] = first /\ pc' \in [Requests -> Places]
      /\ body' \in [Requests -> Bodies] /\ found' \in [Requests -> Users \cup {None}]
      /\ seen'[r] = {<<w, users[w]>> : w \in Existing}
      /\ touched' \in [Requests -> SUBSET Columns]
      /\ \A q \in Requests \ {r} :
            /\ pc'[q] = pc[q] /\ body'[q] = body[q] /\ found'[q] = found[q]
            /\ seen'[q] = seen[q]
      /\ UNCHANGED <<users, open, age>>
  BY <1>1 DEF TypeOK, Arrives, Moves, Places, Bodies, InFlight
<1>3. Existing' = Existing BY <1>2 DEF Existing
<1>4. seen' \in [Requests -> SUBSET (Users \X Row)]
  <2>1. \A w \in Existing : <<w, users[w]>> \in Users \X Row
    BY <1>1, ExistingFacts
  <2>2. {<<w, users[w]>> : w \in Existing} \subseteq Users \X Row
    BY <2>1
  <2> QED BY <1>1, <2>2 DEF TypeOK, Arrives
<1>5. TypeOK' BY <1>1, <1>2, <1>4 DEF TypeOK, Places, Bodies
<1>6. EmailsAreUnique' /\ RatesOrdered'
  BY <1>2, <1>3 DEF IInv, EmailsAreUnique, RatesOrdered
<1>7. ASSUME NEW q \in Requests PROVE ReqInv(q)'
  <2>1. CASE q = r
    <3>1. SeesNow(r)' BY <1>2, <1>3 DEF SeesNow
    <3>2. VouchedFor(r)' BY <1>2 DEF VouchedFor
    <3> QED BY <2>1, <3>1, <3>2 DEF ReqInv
  <2>2. CASE q # r
    <3>1. ReqInv(q) BY DEF IInv
    <3>2. SeesNow(q)' BY <2>2, <3>1, <1>2, <1>3 DEF ReqInv, SeesNow
    <3> QED BY <2>2, <3>1, <3>2, <1>2, <1>3, StillReqInv
  <2> QED BY <2>1, <2>2
<1> QED BY <1>5, <1>6, <1>7 DEF IInv

\* A request moves and writes nothing.
LEMMA MovingKeeps ==
  ASSUME IInv, NEW r \in Requests, NEW from \in Places \ {"idle"},
         NEW to \in Places \ {"idle"}, Moves(r, from, to),
         UNCHANGED <<users, open, body, edits, seen>>,
         age' \in [Requests -> 0 .. Life],
         touched' \in [Requests -> SUBSET Columns],
         found' \in [Requests -> Users \cup {None}],
         read' \in [Requests -> Draft \cup {None}],
         \A q \in Requests \ {r} : found'[q] = found[q] /\ read'[q] = read[q],
         BodyOK(r)', ReadOK(r)', VouchedFor(r)'
  PROVE  IInv'
<1>1. TypeOK BY DEF IInv
<1>2. /\ pc[r] # "idle" /\ pc' \in [Requests -> Places]
      /\ \A q \in Requests \ {r} : pc'[q] = pc[q]
  BY <1>1 DEF TypeOK, Moves, Places
<1>3. TypeOK' BY <1>1, <1>2 DEF TypeOK, Places
<1>4. Existing' = Existing BY DEF Existing
<1>5. EmailsAreUnique' /\ RatesOrdered'
  BY <1>4 DEF IInv, EmailsAreUnique, RatesOrdered
<1>6. ASSUME NEW q \in Requests PROVE ReqInv(q)'
  <2>1. ReqInv(q) BY DEF IInv
  <2>2. SeesNow(q)' BY <2>1, <1>2, <1>4 DEF ReqInv, SeesNow
  <2>3. CASE q = r BY <2>2, <2>3 DEF ReqInv
  <2>4. CASE q # r BY <2>1, <2>2, <2>4, <1>2, <1>4, StillReqInv
  <2> QED BY <2>3, <2>4
<1> QED BY <1>3, <1>5, <1>6 DEF IInv

\* A row is written, and whoever moves ends, or has a password left to set.
LEMMA WritingKeeps ==
  ASSUME IInv, NEW u \in Users, NEW row \in Row, Writes(u, row), row.min <= row.max,
         \A w \in Existing \ {u} : users[w].email # row.email,
         pc' \in [Requests -> Places],
         \A q \in Requests :
            \/ pc'[q] = pc[q]
            \/ pc[q] # "idle" /\ pc'[q] \in {"done", "resetting"} /\ BodyOK(q)',
         UNCHANGED <<open, body, found, read, age>>,
         edits' \in 0 .. MaxEdits
  PROVE  IInv'
<1>1. TypeOK BY DEF IInv
<1>2. /\ users' \in [Users -> Row \cup {None}]
      /\ users'[u] = row /\ \A w \in Users \ {u} : users'[w] = users[w]
      /\ Existing' = Existing \cup {u}
      /\ seen' \in [Requests -> SUBSET (Users \X Row)]
      /\ \A q \in Requests : seen'[q] = seen[q] \cup {<<u, row>>}
      /\ touched' \in [Requests -> SUBSET Columns]
  BY <1>1, WritesFacts
<1>3. TypeOK' BY <1>1, <1>2 DEF TypeOK, Places
<1>4. EmailsAreUnique' /\ RatesOrdered'
  BY <1>1, TableKept DEF IInv
<1>5. ASSUME NEW q \in Requests PROVE ReqInv(q)'
  <2>1. ReqInv(q) BY DEF IInv
  <2>2. SeesNow(q)'
    <3> SUFFICES ASSUME pc'[q] # "idle", NEW w \in Existing'
                 PROVE  <<w, users'[w]>> \in seen'[q]
      BY DEF SeesNow
    <3>1. pc[q] # "idle" OBVIOUS
    <3>2. CASE w = u BY <3>2, <1>2
    <3>3. CASE w # u
      <4>1. w \in Existing /\ users'[w] = users[w]
        BY <3>3, <1>1, <1>2, ExistingFacts
      <4> QED BY <3>1, <4>1, <2>1, <1>2 DEF ReqInv, SeesNow
    <3> QED BY <3>2, <3>3
  <2>3. CASE pc'[q] = pc[q]
    BY <2>1, <2>2, <2>3, <1>2, StillReqInv
  <2>4. CASE pc'[q] \in {"done", "resetting"} /\ BodyOK(q)'
    <3>1. ReadOK(q)' BY <2>4 DEF ReadOK
    <3>2. VouchedFor(q)' BY <2>4 DEF VouchedFor
    <3> QED BY <2>2, <2>4, <3>1, <3>2 DEF ReqInv
  <2> QED BY <2>3, <2>4
<1> QED BY <1>3, <1>4, <1>5 DEF IInv

LEMMA InitIInv == Init => IInv
<1> SUFFICES ASSUME Init PROVE IInv OBVIOUS
<1>1. \A u \in Users : users[u] = IF u \in DOMAIN Founded THEN Founded[u] ELSE None
  BY DEF Init
<1>2. \A u \in DOMAIN Founded : Founded[u] \in Row BY CompanyAssumption
<1>3. Existing = DOMAIN Founded
  BY <1>1, <1>2, NoneIsNoRow, CompanyAssumption DEF Existing
<1>4. users \in [Users -> Row \cup {None}] BY <1>1, <1>2 DEF Init
<1>5. TypeOK
  BY <1>4, NoBodyIsBody, CompanyAssumption DEF Init, TypeOK, Bodies
<1>6. EmailsAreUnique /\ RatesOrdered
  BY <1>1, <1>3, CompanyAssumption DEF EmailsAreUnique, RatesOrdered
<1>7. \A r \in Requests : ReqInv(r)
  BY DEF Init, ReqInv, BodyOK, ReadOK, VouchedFor, SeesNow
<1> QED BY <1>5, <1>6, <1>7 DEF IInv

LEMMA BodyParts ==
  ASSUME NEW e \in Emails \cup {None}, NEW p \in Passwords \cup {None},
         NEW n \in Passwords \cup {None}, NEW a \in Ask \cup {None}
  PROVE  /\ Body(e, p, n, a) \in Bodies
         /\ Body(e, p, n, a).email = e /\ Body(e, p, n, a).password = p
         /\ Body(e, p, n, a).next = n /\ Body(e, p, n, a).ask = a
  BY DEF Body, Bodies

LEMMA ArrivalsKeep ==
  ASSUME IInv, NEW r \in Requests
  PROVE  /\ \A e \in Emails, p \in Passwords : LoginArrives(r, e, p) => IInv'
         /\ \A u \in Existing, p, n \in Passwords : ChangeArrives(r, u, p, n) => IInv'
         /\ \A u \in Users, row \in Draft : CreateArrives(r, u, row) => IInv'
         /\ \A u \in Existing, a \in Asks : UpdateArrives(r, u, a) => IInv'
<1>1. TypeOK /\ Existing \subseteq Users BY ExistingFacts DEF IInv
<1>2. ASSUME Counted PROVE edits' \in 0 .. MaxEdits
  BY <1>1, <1>2, CompanyAssumption DEF Counted, TypeOK
<1>3. ASSUME NEW e \in Emails, NEW p \in Passwords, LoginArrives(r, e, p) PROVE IInv'
  <2>1. /\ Arrives(r, "logging in", Body(e, p, None, None), None)
        /\ UNCHANGED <<read, edits>>
    BY <1>3 DEF LoginArrives
  <2>7. /\ pc'[r] = "logging in" /\ body'[r] = Body(e, p, None, None) /\ found'[r] = None
         /\ Existing' = Existing
    BY <1>1, <2>1 DEF Arrives, Moves, TypeOK, Existing
  <2>6. /\ Body(e, p, None, None).email = e
        /\ Body(e, p, None, None).password = p
    BY DEF Body
  <2>8. body'[r].email = e /\ body'[r].password = p BY <2>6, <2>7, Zenon
  <2>2. BodyOK(r)' BY <2>7, <2>8 DEF BodyOK
  <2>3. ReadOK(r)' BY <2>7 DEF ReadOK
  <2> QED BY <1>1, <2>1, <2>2, <2>3, BodyParts, ArrivesKeeps DEF TypeOK
<1>4. ASSUME NEW u \in Existing, NEW p \in Passwords, NEW n \in Passwords,
             ChangeArrives(r, u, p, n)
      PROVE  IInv'
  <2>1. /\ Arrives(r, "changing", Body(None, p, n, None), u)
        /\ UNCHANGED read /\ Counted
    BY <1>4 DEF ChangeArrives
  <2>7. /\ pc'[r] = "changing" /\ body'[r] = Body(None, p, n, None) /\ found'[r] = u
         /\ Existing' = Existing
    BY <1>1, <2>1 DEF Arrives, Moves, TypeOK, Existing
  <2>2. BodyOK(r)' BY <2>7, BodyParts DEF BodyOK
  <2>3. ReadOK(r)' BY <2>7 DEF ReadOK
  <2> QED BY <1>1, <1>2, <2>1, <2>2, <2>3, BodyParts, ArrivesKeeps DEF TypeOK
<1>5. ASSUME NEW u \in Users, NEW row \in Draft, CreateArrives(r, u, row) PROVE IInv'
  <2>1. /\ Arrives(r, "creating", NoBody, u) /\ Counted
        /\ row.min <= row.max /\ read' = [read EXCEPT ![r] = row]
    BY <1>5 DEF CreateArrives
  <2>7. /\ pc'[r] = "creating" /\ body'[r] = NoBody /\ found'[r] = u
         /\ Existing' = Existing
    BY <1>1, <2>1 DEF Arrives, Moves, TypeOK, Existing
  <2>2. BodyOK(r)' BY <2>7 DEF BodyOK
  <2>3. ReadOK(r)' BY <1>1, <2>1, <2>7 DEF ReadOK, TypeOK
  <2>4. /\ read' \in [Requests -> Draft \cup {None}]
        /\ \A q \in Requests \ {r} : read'[q] = read[q]
    BY <1>1, <2>1 DEF TypeOK
  <2> QED BY <1>2, <2>1, <2>2, <2>3, <2>4, NoBodyIsBody, ArrivesKeeps
<1>6. ASSUME NEW u \in Existing, NEW a \in Asks, UpdateArrives(r, u, a) PROVE IInv'
  <2>1. /\ Arrives(r, "updating", Body(None, None, None, a), u)
        /\ UNCHANGED read /\ Counted
    BY <1>6 DEF UpdateArrives
  <2>7. /\ pc'[r] = "updating" /\ body'[r] = Body(None, None, None, a) /\ found'[r] = u
         /\ Existing' = Existing
    BY <1>1, <2>1 DEF Arrives, Moves, TypeOK, Existing
  <2>2. a \in Ask BY CompanyAssumption
  <2>8. body'[r].ask = a BY <2>2, <2>7, BodyParts
  <2>3. BodyOK(r)' BY <2>2, <2>7, <2>8 DEF BodyOK
  <2>4. ReadOK(r)' BY <2>7 DEF ReadOK
  <2> QED BY <1>1, <1>2, <2>1, <2>2, <2>3, <2>4, BodyParts, ArrivesKeeps DEF TypeOK
<1> QED BY <1>3, <1>4, <1>5, <1>6

\* A request that ends needs nothing more.
LEMMA EndingKeeps ==
  ASSUME IInv, NEW r \in Requests, NEW from \in InFlight,
         NEW to \in Ended \ {"rates check"}, Moves(r, from, to),
         UNCHANGED <<users, open, body, found, read, age, edits, historyVars>>
  PROVE  IInv'
<1>1. TypeOK BY DEF IInv
<1>2. pc'[r] = to BY <1>1 DEF TypeOK, Moves
<1>3. BodyOK(r)' /\ ReadOK(r)' /\ VouchedFor(r)'
  BY <1>2 DEF BodyOK, ReadOK, VouchedFor, Ended
<1>4. from \in Places \ {"idle"} /\ to \in Places \ {"idle"}
  BY DEF Places, InFlight, Ended
<1>5. UNCHANGED <<users, open, body, edits, seen>> /\ UNCHANGED <<found, read, age, touched>>
  BY DEF historyVars
<1> QED BY <1>1, <1>3, <1>4, <1>5, MovingKeeps DEF TypeOK

LEMMA LoginReadsKeeps ==
  ASSUME IInv, NEW r \in Requests, LoginReads(r)
  PROVE  IInv'
<1>1. TypeOK /\ ReqInv(r) BY DEF IInv
<1>2. UNCHANGED <<users, open, body, edits, seen>> /\ UNCHANGED <<age, touched>>
  BY DEF LoginReads, historyVars
<1>3. CASE Moves(r, "logging in", "refused") /\ UNCHANGED <<found, read>>
  BY <1>2, <1>3, EndingKeeps DEF InFlight, Ended, historyVars
<1>4. ASSUME NEW u \in Existing, users[u].email = body[r].email,
             Vouches(users[u], body[r].password), Moves(r, "logging in", "recording"),
             found' = [found EXCEPT ![r] = u], read' = [read EXCEPT ![r] = users[u]]
      PROVE  IInv'
  <2>1. u \in Users /\ users[u] \in Draft BY <1>1, ExistingFacts, NoneIsNoRow
  <2>2. /\ pc'[r] = "recording" /\ pc[r] = "logging in"
        /\ found'[r] = u /\ read'[r] = users[u]
        /\ found' \in [Requests -> Users \cup {None}]
        /\ read' \in [Requests -> Draft \cup {None}]
        /\ \A q \in Requests \ {r} : found'[q] = found[q] /\ read'[q] = read[q]
    BY <1>1, <1>4, <2>1 DEF TypeOK, Moves
  <2>3. BodyOK(r)' /\ ReadOK(r)' BY <2>2 DEF BodyOK, ReadOK
  <2>4. VouchedFor(r)'
    BY <1>1, <1>2, <1>4, <2>2 DEF VouchedFor, ReqInv, SeesNow, Vouches, Knew
  <2>5. "logging in" \in Places \ {"idle"} /\ "recording" \in Places \ {"idle"}
    BY DEF Places, InFlight
  <2> QED BY <1>1, <1>2, <1>4, <2>2, <2>3, <2>4, <2>5, MovingKeeps DEF TypeOK
<1> QED BY <1>3, <1>4 DEF LoginReads

LEMMA LoginRecordsKeeps ==
  ASSUME IInv, NEW r \in Requests, LoginRecords(r)
  PROVE  IInv'
<1>1. TypeOK /\ ReqInv(r) BY DEF IInv
<1>2. /\ UNCHANGED <<users, open, body, edits, seen>> /\ UNCHANGED <<found, read, touched>>
      /\ Moves(r, "recording", "session") /\ age' = [age EXCEPT ![r] = 0]
  BY DEF LoginRecords, historyVars
<1>3. /\ pc[r] = "recording" /\ pc'[r] = "session"
      /\ age' \in [Requests -> 0 .. Life]
  BY <1>1, <1>2, CompanyAssumption DEF TypeOK, Moves
<1>4. BodyOK(r)' /\ ReadOK(r)' BY <1>3 DEF BodyOK, ReadOK
<1>5. VouchedFor(r)' BY <1>1, <1>2, <1>3 DEF ReqInv, VouchedFor
<1>6. "recording" \in Places \ {"idle"} /\ "session" \in Places \ {"idle"}
  BY DEF Places, InFlight
<1> QED BY <1>1, <1>2, <1>3, <1>4, <1>5, <1>6, MovingKeeps DEF TypeOK

LEMMA ChangeReadsKeeps ==
  ASSUME IInv, NEW r \in Requests, ChangeReads(r)
  PROVE  IInv'
<1>1. TypeOK /\ ReqInv(r) BY DEF IInv
<1>2. /\ UNCHANGED <<users, open, body, edits, seen>>
      /\ UNCHANGED <<found, read, age, touched>> /\ pc[r] = "changing"
  BY DEF ChangeReads, historyVars
<1>3. CASE Moves(r, "changing", "refused")
  BY <1>2, <1>3, EndingKeeps DEF InFlight, Ended, historyVars
<1>4. CASE Vouches(users[found[r]], body[r].password) /\ Moves(r, "changing", "replacing")
  <2>1. pc'[r] = "replacing" /\ Existing' = Existing
    BY <1>1, <1>2, <1>4 DEF TypeOK, Moves, Existing
  <2>2. BodyOK(r)' BY <1>1, <1>2, <2>1 DEF ReqInv, BodyOK
  <2>3. ReadOK(r)' BY <2>1 DEF ReadOK
  <2>4. <<found[r], users[found[r]]>> \in seen[r] /\ Knew(body[r].password, users[found[r]])
    BY <1>1, <1>2, <1>4 DEF ReqInv, BodyOK, SeesNow, Vouches, Knew
  <2>5. VouchedFor(r)'
    <3> DEFINE s == <<found[r], users[found[r]]>>
    <3>1. s \in seen'[r] /\ s[1] = found'[r] /\ Knew(body'[r].password, s[2])
      BY <1>2, <2>4
    <3> QED BY <2>1, <3>1 DEF VouchedFor
  <2>6. "changing" \in Places \ {"idle"} /\ "replacing" \in Places \ {"idle"}
    BY DEF Places, InFlight
  <2> QED BY <1>1, <1>2, <1>4, <2>2, <2>3, <2>5, <2>6, MovingKeeps DEF TypeOK
<1> QED BY <1>3, <1>4 DEF ChangeReads

LEMMA SetsPasswordKeeps ==
  ASSUME IInv, NEW r \in Requests, NEW from \in {"replacing", "resetting"},
         NEW p \in Passwords, found[r] \in Existing, SetsPassword(r, from, p)
  PROVE  IInv'
<1> DEFINE u == found[r]
           row == [users[u] EXCEPT !.password = p]
<1>1. TypeOK /\ EmailsAreUnique /\ RatesOrdered BY DEF IInv
<1>2. u \in Users /\ users[u] \in Row BY <1>1, ExistingFacts
<1>3. row \in Row /\ row.email = users[u].email /\ row.min = users[u].min
      /\ row.max = users[u].max
  BY <1>2, WithPassword
<1>4. Writes(u, row) /\ Moves(r, from, "done")
      /\ UNCHANGED <<open, body, found, read, age, edits>>
  BY DEF SetsPassword
<1> HIDE DEF u, row
<1>5. row.min <= row.max BY <1>1, <1>3 DEF RatesOrdered, u
<1>6. \A w \in Existing \ {u} : users[w].email # row.email
  BY <1>1, <1>3 DEF EmailsAreUnique, u
<1>7. /\ pc' \in [Requests -> Places] /\ pc[r] = from /\ pc'[r] = "done"
      /\ \A q \in Requests \ {r} : pc'[q] = pc[q]
  BY <1>1, <1>4 DEF TypeOK, Moves, Places, Ended
<1>8. BodyOK(r)' BY <1>7 DEF BodyOK
<1>9. edits' \in 0 .. MaxEdits BY <1>1, <1>4 DEF TypeOK
<1> QED BY <1>2, <1>3, <1>4, <1>5, <1>6, <1>7, <1>8, <1>9, WritingKeeps

LEMMA VerdictFacts ==
  ASSUME TypeOK, NEW u \in Users, NEW row \in Draft
  PROVE  /\ Verdict(u, row) \in (Ended \ {"rates check"}) \cup {"rates check", "stored"}
         /\ row.min <= row.max => Verdict(u, row) # "rates check"
         /\ Verdict(u, row) = "stored" =>
               /\ row.role \in UserRoles /\ row.min <= row.max
               /\ \A w \in Existing \ {u} : users[w].email # row.email
<1>1. row.min \in Nat /\ row.max \in Nat
  BY CompanyAssumption DEF Draft, RowsWith
<1>2. row.min <= row.max \/ row.max < row.min BY <1>1
<1>3. ~(row.min <= row.max /\ row.max < row.min) BY <1>1
<1>4. CASE row.role \notin UserRoles
  BY <1>4 DEF Verdict, Ended
<1>5. CASE row.role \in UserRoles /\ row.max < row.min
  BY <1>3, <1>5 DEF Verdict, Ended
<1>6. CASE row.role \in UserRoles /\ row.min <= row.max
  BY <1>3, <1>6 DEF Verdict, Ended, EmailTaken
<1> QED BY <1>2, <1>4, <1>5, <1>6

LEMMA CreateWritesKeeps ==
  ASSUME IInv, NEW r \in Requests, CreateWrites(r)
  PROVE  IInv'
<1> DEFINE u == found[r]
           row == read[r]
<1>1. TypeOK /\ ReqInv(r) BY DEF IInv
<1>2. pc[r] = "creating" /\ UNCHANGED <<open, body, found, read, age, edits>>
  BY DEF CreateWrites
<1>3. u \in Users /\ row \in Draft /\ row.min <= row.max
  BY <1>1, <1>2 DEF ReqInv, ReadOK
<1>4. /\ Verdict(u, row) \in (Ended \ {"rates check"}) \cup {"rates check", "stored"}
      /\ Verdict(u, row) # "rates check"
      /\ Verdict(u, row) = "stored" =>
            /\ row.role \in UserRoles
            /\ \A w \in Existing \ {u} : users[w].email # row.email
  BY <1>1, <1>3, VerdictFacts
<1>5. CASE /\ Verdict(u, row) # "stored" /\ Moves(r, "creating", Verdict(u, row))
           /\ UNCHANGED <<users, historyVars>>
  BY <1>2, <1>4, <1>5, EndingKeeps DEF InFlight
<1>6. CASE Verdict(u, row) = "stored" /\ Moves(r, "creating", "done") /\ Writes(u, row)
  <2>1. row \in Row BY <1>3, <1>4, <1>6, DraftIsRow
  <2>2. /\ pc' \in [Requests -> Places] /\ pc'[r] = "done"
        /\ \A q \in Requests \ {r} : pc'[q] = pc[q]
    BY <1>1, <1>6 DEF TypeOK, Moves, Places, Ended
  <2>3. BodyOK(r)' BY <2>2 DEF BodyOK
  <2>4. edits' \in 0 .. MaxEdits BY <1>1, <1>2 DEF TypeOK
  <2> QED BY <1>2, <1>3, <1>4, <1>6, <2>1, <2>2, <2>3, <2>4, WritingKeeps
<1> QED BY <1>5, <1>6 DEF CreateWrites

LEMMA UpdateReadsKeeps ==
  ASSUME IInv, NEW r \in Requests, UpdateReads(r)
  PROVE  IInv'
<1> DEFINE row == users[found[r]]
           a == body[r].ask
           good == Pick(a.min, row.min) <= Pick(a.max, row.max)
<1>1. TypeOK /\ ReqInv(r) BY DEF IInv
<1>2. /\ pc[r] = "updating"
      /\ UNCHANGED <<users, open, body, found, age, edits, seen>>
      /\ read' = [read EXCEPT ![r] = row] /\ touched' = [touched EXCEPT ![r] = {}]
  BY DEF UpdateReads
<1>3. found[r] \in Existing /\ a \in Ask
  BY <1>1, <1>2 DEF ReqInv, BodyOK
<1>4. row \in Row /\ row \in Draft BY <1>1, <1>3, ExistingFacts, NoneIsNoRow
<1>5. /\ read' \in [Requests -> Draft \cup {None}] /\ read'[r] = row
      /\ \A q \in Requests \ {r} : read'[q] = read[q] /\ found'[q] = found[q]
      /\ touched' \in [Requests -> SUBSET Columns] /\ Existing' = Existing
  BY <1>1, <1>2, <1>4 DEF TypeOK, Existing
<1>6. ASSUME NEW to \in {"writing", "refused"}, Moves(r, "updating", to),
             to = "writing" => good
      PROVE  IInv'
  <2>1. pc'[r] = to BY <1>1, <1>6 DEF TypeOK, Moves
  <2>2. BodyOK(r)' BY <1>2, <1>3, <1>5, <2>1 DEF BodyOK
  <2>3. ReadOK(r)' BY <1>2, <1>4, <1>5, <1>6, <2>1 DEF ReadOK
  <2>4. VouchedFor(r)' BY <2>1 DEF VouchedFor
  <2>5. "updating" \in Places \ {"idle"} /\ to \in Places \ {"idle"}
    BY DEF Places, InFlight, Ended
  <2> QED BY <1>1, <1>2, <1>5, <1>6, <2>2, <2>3, <2>4, <2>5, MovingKeeps DEF TypeOK
<1> QED BY <1>6 DEF UpdateReads

LEMMA UpdateWritesKeeps ==
  ASSUME IInv, NEW r \in Requests, UpdateWrites(r)
  PROVE  IInv'
<1> DEFINE u == found[r]
           a == body[r].ask
           row == Written(users[u], read[r], a)
           next == IF a.password = None THEN "done" ELSE "resetting"
<1>1. TypeOK /\ ReqInv(r) BY DEF IInv
<1>2. pc[r] = "writing" /\ UNCHANGED <<open, body, found, read, age, edits>>
  BY DEF UpdateWrites
<1>3. /\ u \in Existing /\ a \in Ask /\ read[r] \in Row
      /\ Pick(a.min, read[r].min) <= Pick(a.max, read[r].max)
  BY <1>1, <1>2 DEF ReqInv, BodyOK, ReadOK
<1>4. u \in Users /\ users[u] \in Row BY <1>1, <1>3, ExistingFacts
<1>5. row \in Draft /\ row.min <= row.max BY <1>3, <1>4, WrittenFacts
<1>6. /\ Verdict(u, row) \in (Ended \ {"rates check"}) \cup {"rates check", "stored"}
      /\ Verdict(u, row) # "rates check"
      /\ Verdict(u, row) = "stored" =>
            /\ row.role \in UserRoles
            /\ \A w \in Existing \ {u} : users[w].email # row.email
  BY <1>1, <1>4, <1>5, VerdictFacts
<1>7. CASE /\ Verdict(u, row) # "stored" /\ Moves(r, "writing", Verdict(u, row))
           /\ UNCHANGED <<users, historyVars>>
  BY <1>2, <1>6, <1>7, EndingKeeps DEF InFlight
<1>8. CASE Verdict(u, row) = "stored" /\ Moves(r, "writing", next) /\ Writes(u, row)
  <2>1. row \in Row BY <1>5, <1>6, <1>8, DraftIsRow
  <2>2. AskParts(a) BY <1>3, AskFacts
  <2>3. /\ pc' \in [Requests -> Places] /\ pc'[r] = next
        /\ \A q \in Requests \ {r} : pc'[q] = pc[q]
    BY <1>1, <1>8 DEF TypeOK, Moves, Places, Ended, InFlight
  <2>4. Existing' = Existing \cup {u} BY <1>1, <1>4, <1>8, <2>1, WritesFacts
  <2>5. BodyOK(r)'
    <3>1. next = "resetting" => a.password \in Passwords BY <2>2 DEF AskParts
    <3>2. found'[r] = u /\ body'[r].ask = a BY <1>2
    <3>3. next \in {"done", "resetting"} OBVIOUS
    <3> HIDE DEF next
    <3> QED BY <1>3, <2>3, <2>4, <3>1, <3>2, <3>3 DEF BodyOK
  <2>6. edits' \in 0 .. MaxEdits BY <1>1, <1>2 DEF TypeOK
  <2>7. pc[r] # "idle" /\ pc'[r] \in {"done", "resetting"} BY <1>2, <2>3
  <2> HIDE DEF row, next
  <2> QED BY <1>2, <1>4, <1>5, <1>6, <1>8, <2>1, <2>3, <2>5, <2>6, <2>7, WritingKeeps
<1> QED BY <1>7, <1>8 DEF UpdateWrites

LEMMA DeleteKeeps ==
  ASSUME IInv, NEW u \in Existing, Delete(u)
  PROVE  IInv'
<1> DEFINE row == [users[u] EXCEPT !.status = "inactive", !.active = FALSE]
<1>1. TypeOK /\ EmailsAreUnique /\ RatesOrdered BY DEF IInv
<1>2. u \in Users /\ users[u] \in Row BY <1>1, ExistingFacts
<1>3. row \in Row /\ row.email = users[u].email /\ row.min = users[u].min
      /\ row.max = users[u].max
  BY <1>2, WithoutUser
<1>4. Writes(u, row) /\ UNCHANGED <<open, pc, body, found, read, age>> /\ Counted
  BY DEF Delete
<1> HIDE DEF row
<1>5. row.min <= row.max BY <1>1, <1>3 DEF RatesOrdered
<1>6. \A w \in Existing \ {u} : users[w].email # row.email
  BY <1>1, <1>3 DEF EmailsAreUnique
<1>7. edits' \in 0 .. MaxEdits BY <1>1, <1>4, CompanyAssumption DEF TypeOK, Counted
<1>8. pc' \in [Requests -> Places] BY <1>1, <1>4 DEF TypeOK, Places
<1> QED BY <1>2, <1>3, <1>4, <1>5, <1>6, <1>7, <1>8, WritingKeeps

\* Time passes, somebody leaves, the company is suspended.
LEMMA OtherStepsKeep ==
  ASSUME IInv, Tick \/ Suspend \/ (\E r \in Requests : Leaves(r)) \/ UNCHANGED vars
  PROVE  IInv'
<1>1. TypeOK BY DEF IInv
<1>2. users' = users /\ Existing' = Existing
  BY DEF Tick, Suspend, Leaves, vars, Existing
<1>3. EmailsAreUnique' /\ RatesOrdered'
  BY <1>2 DEF IInv, EmailsAreUnique, RatesOrdered
<1>4. TypeOK'
  <2>1. CASE Tick
    <3>1. age' \in [Requests -> 0 .. Life]
      BY <1>1, <2>1, CompanyAssumption DEF TypeOK, Tick, Usable
    <3> QED BY <1>1, <2>1, <3>1 DEF TypeOK, Tick, historyVars
  <2>2. CASE Suspend
    <3>1. open' \in BOOLEAN BY <2>2 DEF Suspend
    <3>2. edits' \in 0 .. MaxEdits
      BY <1>1, <2>2, CompanyAssumption DEF TypeOK, Suspend, Counted
    <3> QED BY <1>1, <2>2, <3>1, <3>2 DEF TypeOK, Suspend, historyVars
  <2>3. ASSUME NEW r \in Requests, Leaves(r) PROVE TypeOK'
    <3>1. body' \in [Requests -> Bodies]
      BY <1>1, <2>3, NoBodyIsBody DEF TypeOK, Leaves, Bodies
    <3>2. age' \in [Requests -> 0 .. Life]
      BY <1>1, <2>3, CompanyAssumption DEF TypeOK, Leaves
    <3> QED BY <1>1, <2>3, <3>1, <3>2 DEF TypeOK, Leaves, Bodies
  <2>4. CASE UNCHANGED vars BY <1>1, <2>4 DEF TypeOK, vars
  <2> QED BY <2>1, <2>2, <2>3, <2>4
<1>5. ASSUME NEW q \in Requests PROVE ReqInv(q)'
  <2>1. ReqInv(q) BY DEF IInv
  <2>2. CASE /\ pc'[q] = pc[q] /\ body'[q] = body[q] /\ found'[q] = found[q]
             /\ read'[q] = read[q] /\ seen'[q] = seen[q]
    <3>1. SeesNow(q)' BY <1>2, <2>1, <2>2 DEF ReqInv, SeesNow
    <3> QED BY <1>2, <2>1, <2>2, <3>1, StillReqInv
  <2>3. CASE pc'[q] = "idle"
    BY <2>3 DEF ReqInv, BodyOK, ReadOK, VouchedFor, SeesNow
  <2>4. \/ /\ pc'[q] = pc[q] /\ body'[q] = body[q] /\ found'[q] = found[q]
           /\ read'[q] = read[q] /\ seen'[q] = seen[q]
        \/ pc'[q] = "idle"
    BY <1>1 DEF TypeOK, Tick, Suspend, Leaves, vars, historyVars
  <2> QED BY <2>2, <2>3, <2>4
<1> QED BY <1>3, <1>4, <1>5 DEF IInv

LEMMA NextIInv == IInv /\ [Next]_vars => IInv'
<1> SUFFICES ASSUME IInv, [Next]_vars PROVE IInv'
  OBVIOUS
<1>1. ASSUME NEW r \in Requests, NEW e \in Emails, NEW p \in Passwords,
             LoginArrives(r, e, p)
      PROVE  IInv'
  BY <1>1, ArrivalsKeep
<1>2. ASSUME NEW r \in Requests, NEW u \in Existing, NEW p \in Passwords,
             NEW n \in Passwords, ChangeArrives(r, u, p, n)
      PROVE  IInv'
  BY <1>2, ArrivalsKeep
<1>3. ASSUME NEW r \in Requests, NEW u \in Users, NEW row \in Draft,
             CreateArrives(r, u, row)
      PROVE  IInv'
  BY <1>3, ArrivalsKeep
<1>4. ASSUME NEW r \in Requests, NEW u \in Existing, NEW a \in Asks,
             UpdateArrives(r, u, a)
      PROVE  IInv'
  BY <1>4, ArrivalsKeep
<1>5. ASSUME NEW r \in Requests, LoginReads(r) PROVE IInv'
  BY <1>5, LoginReadsKeeps
<1>6. ASSUME NEW r \in Requests, LoginRecords(r) PROVE IInv'
  BY <1>6, LoginRecordsKeeps
<1>7. ASSUME NEW r \in Requests, ChangeReads(r) PROVE IInv'
  BY <1>7, ChangeReadsKeeps
<1>8. ASSUME NEW r \in Requests, ChangeWrites(r) PROVE IInv'
  <2>1. pc[r] = "replacing" /\ SetsPassword(r, "replacing", body[r].next)
    BY <1>8 DEF ChangeWrites, SetsPassword, Moves
  <2>2. found[r] \in Existing /\ body[r].next \in Passwords
    BY <2>1 DEF IInv, ReqInv, BodyOK
  <2> QED BY <2>1, <2>2, SetsPasswordKeeps
<1>9. ASSUME NEW r \in Requests, CreateWrites(r) PROVE IInv'
  BY <1>9, CreateWritesKeeps
<1>10. ASSUME NEW r \in Requests, UpdateReads(r) PROVE IInv'
  BY <1>10, UpdateReadsKeeps
<1>11. ASSUME NEW r \in Requests, UpdateWrites(r) PROVE IInv'
  BY <1>11, UpdateWritesKeeps
<1>12. ASSUME NEW r \in Requests, UpdateResets(r) PROVE IInv'
  <2>1. pc[r] = "resetting" /\ SetsPassword(r, "resetting", body[r].ask.password)
    BY <1>12 DEF UpdateResets, SetsPassword, Moves
  <2>2. found[r] \in Existing /\ body[r].ask.password \in Passwords
    BY <2>1 DEF IInv, ReqInv, BodyOK
  <2> QED BY <2>1, <2>2, SetsPasswordKeeps
<1>13. ASSUME NEW r \in Requests, Fails(r) PROVE IInv'
  <2>1. PICK from \in InFlight : Moves(r, from, "refused") BY <1>13 DEF Fails
  <2> QED BY <1>13, <2>1, EndingKeeps DEF Fails, Ended
<1>14. ASSUME NEW u \in Existing, Delete(u) PROVE IInv'
  BY <1>14, DeleteKeeps
<1>15. CASE Tick \/ Suspend \/ (\E r \in Requests : Leaves(r)) \/ UNCHANGED vars
  BY <1>15, OtherStepsKeep
<1> QED
  BY <1>1, <1>2, <1>3, <1>4, <1>5, <1>6, <1>7, <1>8, <1>9, <1>10, <1>11, <1>12,
     <1>13, <1>14, <1>15 DEF Next

\* Whoever is being created is nobody's yet.
FreshIds ==
    \A r \in Requests : pc[r] = "creating" =>
        /\ found[r] \notin Existing
        /\ \A q \in Requests \ {r} : found[q] # found[r]

LEMMA InitFresh == Init => FreshIds
  BY DEF Init, FreshIds

\* One request moves to another place than "creating"; what it finds exists.
LEMMA FreshKept ==
  ASSUME TypeOK, FreshIds, NEW q \in Requests,
         pc'[q] # "creating" /\ \A r \in Requests \ {q} : pc'[r] = pc[r] /\ found'[r] = found[r],
         found'[q] \in {found[q], None} \cup Existing,
         Existing' \subseteq Existing \cup {found[q]},
         \A r \in Requests : pc[r] = "creating" => found[r] \in Users
  PROVE  FreshIds'
<1> SUFFICES ASSUME NEW r \in Requests, pc'[r] = "creating"
             PROVE  /\ found'[r] \notin Existing'
                    /\ \A x \in Requests \ {r} : found'[x] # found'[r]
  BY DEF FreshIds
<1>1. r # q /\ pc[r] = "creating" /\ found'[r] = found[r] OBVIOUS
<1>2. /\ found[r] \notin Existing /\ found[r] # found[q] /\ found[r] # None
      /\ \A x \in Requests \ {r} : found[x] # found[r]
  BY <1>1, CompanyAssumption DEF FreshIds
<1> QED BY <1>1, <1>2

LEMMA NextFresh == IInv /\ FreshIds /\ [Next]_vars => FreshIds'
<1> SUFFICES ASSUME IInv, FreshIds, [Next]_vars PROVE FreshIds'
  OBVIOUS
<1>1. /\ TypeOK
      /\ \A r \in Requests : pc[r] = "creating" => found[r] \in Users
      /\ Existing \subseteq Users
      /\ None \notin Existing
  BY ExistingFacts, CompanyAssumption DEF IInv, ReqInv, ReadOK
<1>2. ASSUME NEW r \in Requests, NEW first, NEW b, NEW u \in Existing \cup {None},
             Arrives(r, first, b, u), first # "creating"
      PROVE  FreshIds'
  <2>1. /\ pc'[r] = first /\ found'[r] = u /\ Existing' = Existing
        /\ \A q \in Requests \ {r} : pc'[q] = pc[q] /\ found'[q] = found[q]
    BY <1>1, <1>2 DEF Arrives, Moves, TypeOK, Existing
  <2> QED BY <1>1, <1>2, <2>1, FreshKept
<1>3. ASSUME NEW r \in Requests, NEW u \in Users, NEW row \in Draft,
             CreateArrives(r, u, row)
      PROVE  FreshIds'
  <2>1. /\ u \notin Existing /\ u \notin {found[q] : q \in Requests}
        /\ found'[r] = u /\ Existing' = Existing
        /\ \A q \in Requests \ {r} : pc'[q] = pc[q] /\ found'[q] = found[q]
    BY <1>1, <1>3 DEF CreateArrives, Arrives, Moves, TypeOK, Existing
  <2> QED BY <2>1 DEF FreshIds
<1>4. ASSUME NEW r \in Requests, NEW from, NEW to, Moves(r, from, to), to # "creating",
             UNCHANGED users, found' = found
      PROVE  FreshIds'
  <2>1. /\ pc'[r] = to /\ Existing' = Existing
        /\ \A q \in Requests \ {r} : pc'[q] = pc[q] /\ found'[q] = found[q]
    BY <1>1, <1>4 DEF Moves, TypeOK, Existing
  <2> QED BY <1>1, <1>4, <2>1, FreshKept
<1>5. ASSUME NEW r \in Requests, NEW from, NEW to, Moves(r, from, to), to # "creating",
             NEW row, Writes(found[r], row), found' = found
      PROVE  FreshIds'
  <2>1. /\ pc'[r] = to /\ Existing' \subseteq Existing \cup {found[r]}
        /\ \A q \in Requests \ {r} : pc'[q] = pc[q] /\ found'[q] = found[q]
    BY <1>1, <1>5 DEF Moves, TypeOK, Existing, Writes
  <2> QED BY <1>1, <1>5, <2>1, FreshKept
<1>6. CASE UNCHANGED <<pc, found>> /\ Existing' = Existing
  BY <1>6 DEF FreshIds
<1>7. ASSUME NEW r \in Requests, LoginReads(r) PROVE FreshIds'
  <2>1. CASE Moves(r, "logging in", "refused") /\ UNCHANGED <<found, read>>
    BY <1>4, <1>7, <2>1 DEF LoginReads
  <2>2. ASSUME NEW u \in Existing, Moves(r, "logging in", "recording"),
               found' = [found EXCEPT ![r] = u]
        PROVE  FreshIds'
    <3>1. /\ pc'[r] = "recording" /\ found'[r] = u /\ Existing' = Existing
          /\ \A q \in Requests \ {r} : pc'[q] = pc[q] /\ found'[q] = found[q]
      BY <1>1, <1>7, <2>2 DEF Moves, TypeOK, Existing, LoginReads
    <3> QED BY <1>1, <3>1, FreshKept
  <2> QED BY <1>7, <2>1, <2>2 DEF LoginReads
<1>8. ASSUME NEW r \in Requests, Leaves(r) PROVE FreshIds'
  <2>1. /\ pc'[r] = "idle" /\ found'[r] = None /\ Existing' = Existing
        /\ \A q \in Requests \ {r} : pc'[q] = pc[q] /\ found'[q] = found[q]
    BY <1>1, <1>8 DEF Leaves, TypeOK, Existing
  <2> QED BY <1>1, <2>1, FreshKept
<1>9. ASSUME NEW u \in Existing, Delete(u) PROVE FreshIds'
  <2>1. UNCHANGED <<pc, found>> /\ users' = [users EXCEPT ![u] =
           [users[u] EXCEPT !.status = "inactive", !.active = FALSE]]
    BY <1>9 DEF Delete, Writes
  <2>2. Existing' \subseteq Existing
    BY <1>1, <2>1 DEF Existing, TypeOK
  <2> QED BY <2>1, <2>2 DEF FreshIds
<1>10. ASSUME NEW r \in Requests, LoginRecords(r) PROVE FreshIds'
  BY <1>4, <1>10 DEF LoginRecords
<1>11. ASSUME NEW r \in Requests, ChangeReads(r) PROVE FreshIds'
  BY <1>4, <1>11 DEF ChangeReads
<1>12. ASSUME NEW r \in Requests, ChangeWrites(r) \/ UpdateResets(r) PROVE FreshIds'
  BY <1>5, <1>12 DEF ChangeWrites, UpdateResets, SetsPassword
<1>13. ASSUME NEW r \in Requests, CreateWrites(r) PROVE FreshIds'
  <2>1. Verdict(found[r], read[r]) # "creating" BY DEF Verdict
  <2> QED BY <1>4, <1>5, <1>13, <2>1 DEF CreateWrites
<1>14. ASSUME NEW r \in Requests, UpdateReads(r) PROVE FreshIds'
  BY <1>4, <1>14 DEF UpdateReads
<1>15. ASSUME NEW r \in Requests, UpdateWrites(r) PROVE FreshIds'
  <2> DEFINE row == Written(users[found[r]], read[r], body[r].ask)
             next == IF body[r].ask.password = None THEN "done" ELSE "resetting"
  <2>1. Verdict(found[r], row) # "creating" BY DEF Verdict
  <2>2. next # "creating" OBVIOUS
  <2>3. found' = found BY <1>15 DEF UpdateWrites
  <2>4. \/ Moves(r, "writing", Verdict(found[r], row)) /\ UNCHANGED users
        \/ Moves(r, "writing", next) /\ Writes(found[r], row)
    BY <1>15 DEF UpdateWrites
  <2> HIDE DEF row, next
  <2> QED BY <1>4, <1>5, <2>1, <2>2, <2>3, <2>4
<1>16. ASSUME NEW r \in Requests, Fails(r) PROVE FreshIds'
  BY <1>4, <1>16 DEF Fails
<1>17. CASE Tick \/ Suspend \/ UNCHANGED vars
  BY <1>6, <1>17 DEF Tick, Suspend, vars, Existing
<1>18. ASSUME NEW r \in Requests, NEW e \in Emails, NEW p \in Passwords,
              LoginArrives(r, e, p)
       PROVE  FreshIds'
  BY <1>2, <1>18 DEF LoginArrives
<1>19. ASSUME NEW r \in Requests, NEW u \in Existing, NEW p \in Passwords,
              NEW n \in Passwords, ChangeArrives(r, u, p, n)
       PROVE  FreshIds'
  BY <1>2, <1>19 DEF ChangeArrives
<1>20. ASSUME NEW r \in Requests, NEW u \in Existing, NEW a \in Asks,
              UpdateArrives(r, u, a)
       PROVE  FreshIds'
  BY <1>2, <1>20 DEF UpdateArrives
<1> QED
  BY <1>3, <1>7, <1>8, <1>9, <1>10, <1>11, <1>12, <1>13, <1>14, <1>15, <1>16, <1>17,
     <1>18, <1>19, <1>20 DEF Next

\* Where the row an Update has read is not the row there is, somebody has
\* touched it since.
TouchedAt(r) ==
    pc[r] = "writing" =>
        \A c \in Columns : read[r][c] # users[found[r]][c] => c \in touched[r]

TouchedInv == \A r \in Requests : TouchedAt(r)

LEMMA InitTouched == Init => TouchedInv
  BY DEF Init, TouchedInv, TouchedAt

\* A request that stays at its UPDATE is told of what is written meanwhile.
LEMMA TouchedStill ==
  ASSUME IInv, NEW r \in Requests, TouchedAt(r), pc[r] = "writing",
         read'[r] = read[r], found'[r] = found[r],
         \/ UNCHANGED users /\ touched'[r] = touched[r]
         \/ \E u \in Users, row \in Draft : Writes(u, row)
  PROVE  TouchedAt(r)'
<1>1. /\ TypeOK /\ found[r] \in Existing /\ found[r] \in Users
      /\ users[found[r]] # None
  BY ExistingFacts DEF IInv, ReqInv, BodyOK, Existing
<1>2. CASE UNCHANGED users /\ touched'[r] = touched[r]
  BY <1>2 DEF TouchedAt
<1>3. ASSUME NEW u \in Users, NEW row \in Draft, Writes(u, row) PROVE TouchedAt(r)'
  <2>1. users' = [users EXCEPT ![u] = row] /\ touched[r] \subseteq touched'[r]
    BY <1>3 DEF Writes
  <2>2. CASE found[r] # u
    <3>1. users'[found[r]] = users[found[r]] BY <1>1, <2>1, <2>2 DEF TypeOK
    <3> QED BY <2>1, <3>1 DEF TouchedAt
  <2>3. CASE found[r] = u
    <3>1. users'[found[r]] = row BY <1>1, <2>1, <2>3 DEF TypeOK
    <3>2. touched'[r] = touched[r] \cup {c \in Columns : users[u][c] # row[c]}
      BY <1>1, <1>3, <2>3 DEF Writes
    <3> QED BY <2>3, <3>1, <3>2 DEF TouchedAt
  <2> QED BY <2>2, <2>3
<1> QED BY <1>2, <1>3

\* A step of q that writes as a statement does, or not at all.
LEMMA TouchedKept ==
  ASSUME IInv, TouchedInv, NEW q \in Requests, pc'[q] # "writing",
         \A r \in Requests \ {q} : /\ pc'[r] = pc[r] /\ read'[r] = read[r]
                                   /\ found'[r] = found[r],
         \/ UNCHANGED users /\ \A r \in Requests \ {q} : touched'[r] = touched[r]
         \/ \E u \in Users, row \in Draft : Writes(u, row)
  PROVE  TouchedInv'
<1> SUFFICES ASSUME NEW r \in Requests, pc'[r] = "writing" PROVE TouchedAt(r)'
  BY DEF TouchedInv, TouchedAt
<1>1. r # q /\ pc[r] = "writing" /\ TouchedAt(r) BY DEF TouchedInv
<1> QED BY <1>1, TouchedStill

LEMMA NextTouched == IInv /\ TouchedInv /\ [Next]_vars => TouchedInv'
<1> SUFFICES ASSUME IInv, TouchedInv, [Next]_vars PROVE TouchedInv'
  OBVIOUS
<1>1. /\ TypeOK /\ Existing \subseteq Users
      /\ \A u \in Existing : users[u] \in Row
  BY ExistingFacts DEF IInv
<1>2. ASSUME NEW r \in Requests, NEW first, NEW b, NEW u,
             Arrives(r, first, b, u), first # "writing",
             \A q \in Requests \ {r} : read'[q] = read[q]
      PROVE  TouchedInv'
  <2>1. /\ pc'[r] = first /\ UNCHANGED users
        /\ \A q \in Requests \ {r} : /\ pc'[q] = pc[q] /\ found'[q] = found[q]
                                     /\ touched'[q] = touched[q]
    BY <1>1, <1>2 DEF Arrives, Moves, TypeOK
  <2> QED BY <1>2, <2>1, TouchedKept
<1>3. ASSUME NEW r \in Requests, NEW from, NEW to, Moves(r, from, to), to # "writing",
             UNCHANGED <<users, touched>>,
             \A q \in Requests \ {r} : found'[q] = found[q] /\ read'[q] = read[q]
      PROVE  TouchedInv'
  <2>1. /\ pc'[r] = to
        /\ \A q \in Requests \ {r} : pc'[q] = pc[q] /\ touched'[q] = touched[q]
    BY <1>1, <1>3 DEF Moves, TypeOK
  <2> QED BY <1>3, <2>1, TouchedKept
<1>4. ASSUME NEW r \in Requests, NEW from, NEW to, Moves(r, from, to), to # "writing",
             NEW u \in Users, NEW row \in Draft, Writes(u, row),
             UNCHANGED <<found, read>>
      PROVE  TouchedInv'
  <2>1. pc'[r] = to /\ \A q \in Requests \ {r} : pc'[q] = pc[q]
    BY <1>1, <1>4 DEF Moves, TypeOK
  <2> QED BY <1>4, <2>1, TouchedKept
<1>5. CASE UNCHANGED <<pc, found, read, users, touched>>
  BY <1>5 DEF TouchedInv, TouchedAt
<1>6. ASSUME NEW r \in Requests,
             \/ \E e \in Emails, p \in Passwords : LoginArrives(r, e, p)
             \/ \E u \in Existing, p, n \in Passwords : ChangeArrives(r, u, p, n)
             \/ \E u \in Existing, a \in Asks : UpdateArrives(r, u, a)
      PROVE  TouchedInv'
  BY <1>2, <1>6 DEF LoginArrives, ChangeArrives, UpdateArrives
<1>7. ASSUME NEW r \in Requests, NEW u \in Users, NEW row \in Draft,
             CreateArrives(r, u, row)
      PROVE  TouchedInv'
  <2>1. Arrives(r, "creating", NoBody, u) /\ read' = [read EXCEPT ![r] = row]
    BY <1>7 DEF CreateArrives
  <2>2. \A q \in Requests \ {r} : read'[q] = read[q] BY <1>1, <2>1 DEF TypeOK
  <2> QED BY <1>2, <2>1, <2>2
<1>8. ASSUME NEW r \in Requests, LoginReads(r) PROVE TouchedInv'
  <2>1. /\ Moves(r, "logging in", "recording") \/ Moves(r, "logging in", "refused")
        /\ \A q \in Requests \ {r} : found'[q] = found[q] /\ read'[q] = read[q]
        /\ UNCHANGED <<users, touched>>
    BY <1>1, <1>8 DEF LoginReads, TypeOK, historyVars
  <2> QED BY <1>3, <2>1
<1>9. ASSUME NEW r \in Requests, LoginRecords(r) \/ ChangeReads(r) \/ Fails(r)
      PROVE  TouchedInv'
  BY <1>3, <1>9 DEF LoginRecords, ChangeReads, Fails, historyVars
<1>10. ASSUME NEW r \in Requests, NEW from \in {"replacing", "resetting"},
              NEW p \in Passwords, SetsPassword(r, from, p), found[r] \in Existing
       PROVE  TouchedInv'
  <2>1. users[found[r]] \in Row /\ found[r] \in Users BY <1>1, <1>10
  <2>2. [users[found[r]] EXCEPT !.password = p] \in Draft
    BY <2>1, WithPassword, NoneIsNoRow
  <2> QED BY <1>4, <1>10, <2>1, <2>2 DEF SetsPassword
<1>11. ASSUME NEW r \in Requests, ChangeWrites(r) PROVE TouchedInv'
  <2>1. pc[r] = "replacing" /\ SetsPassword(r, "replacing", body[r].next)
    BY <1>11 DEF ChangeWrites, SetsPassword, Moves
  <2>2. found[r] \in Existing /\ body[r].next \in Passwords
    BY <2>1 DEF IInv, ReqInv, BodyOK
  <2> QED BY <1>10, <2>1, <2>2
<1>12. ASSUME NEW r \in Requests, UpdateResets(r) PROVE TouchedInv'
  <2>1. pc[r] = "resetting" /\ SetsPassword(r, "resetting", body[r].ask.password)
    BY <1>12 DEF UpdateResets, SetsPassword, Moves
  <2>2. found[r] \in Existing /\ body[r].ask.password \in Passwords
    BY <2>1 DEF IInv, ReqInv, BodyOK
  <2> QED BY <1>10, <2>1, <2>2
<1>13. ASSUME NEW r \in Requests, CreateWrites(r) PROVE TouchedInv'
  <2>1. Verdict(found[r], read[r]) # "writing" BY DEF Verdict
  <2>2. pc[r] = "creating" /\ found[r] \in Users /\ read[r] \in Draft
    BY <1>13 DEF CreateWrites, IInv, ReqInv, ReadOK
  <2> QED BY <1>3, <1>4, <1>13, <2>1, <2>2 DEF CreateWrites, historyVars
<1>14. ASSUME NEW r \in Requests, UpdateReads(r) PROVE TouchedInv'
  <2> SUFFICES ASSUME NEW q \in Requests, pc'[q] = "writing" PROVE TouchedAt(q)'
    BY DEF TouchedInv, TouchedAt
  <2>1. UNCHANGED <<users, found>> BY <1>14 DEF UpdateReads
  <2>2. CASE q = r
    <3>1. read'[r] = users[found[r]] BY <1>1, <1>14 DEF UpdateReads, TypeOK
    <3> QED BY <2>1, <2>2, <3>1 DEF TouchedAt
  <2>3. CASE q # r
    <3>1. pc[q] = "writing" /\ read'[q] = read[q] /\ touched'[q] = touched[q]
      BY <1>1, <1>14, <2>3 DEF UpdateReads, Moves, TypeOK
    <3>2. TouchedAt(q) BY DEF TouchedInv
    <3> QED BY <2>1, <3>1, <3>2, TouchedStill
  <2> QED BY <2>2, <2>3
<1>15. ASSUME NEW r \in Requests, UpdateWrites(r) PROVE TouchedInv'
  <2> DEFINE row == Written(users[found[r]], read[r], body[r].ask)
             next == IF body[r].ask.password = None THEN "done" ELSE "resetting"
  <2>1. Verdict(found[r], row) # "writing" /\ next # "writing" BY DEF Verdict
  <2>2. /\ \/ Moves(r, "writing", Verdict(found[r], row)) /\ UNCHANGED <<users, touched>>
           \/ Moves(r, "writing", next) /\ Writes(found[r], row)
        /\ UNCHANGED <<found, read>>
    BY <1>15 DEF UpdateWrites, historyVars
  <2>3. pc[r] = "writing" BY <1>15 DEF UpdateWrites
  <2>4. found[r] \in Users /\ row \in Draft
    BY <1>1, <2>3, WrittenFacts DEF IInv, ReqInv, BodyOK, ReadOK
  <2> HIDE DEF row, next
  <2> QED BY <1>3, <1>4, <2>1, <2>2, <2>4
<1>16. ASSUME NEW r \in Requests, Leaves(r) PROVE TouchedInv'
  <2>1. /\ pc'[r] = "idle" /\ UNCHANGED users
        /\ \A q \in Requests \ {r} :
              /\ pc'[q] = pc[q] /\ found'[q] = found[q]
              /\ read'[q] = read[q] /\ touched'[q] = touched[q]
    BY <1>1, <1>16 DEF Leaves, TypeOK
  <2> QED BY <2>1, TouchedKept
<1>17. ASSUME NEW u \in Existing, Delete(u) PROVE TouchedInv'
  <2>1. u \in Users /\ users[u] \in Row BY <1>1
  <2>2. [users[u] EXCEPT !.status = "inactive", !.active = FALSE] \in Draft
    BY <2>1, WithoutUser, NoneIsNoRow
  <2>3. /\ Writes(u, [users[u] EXCEPT !.status = "inactive", !.active = FALSE])
        /\ UNCHANGED <<pc, found, read>>
    BY <1>17 DEF Delete
  <2> SUFFICES ASSUME NEW q \in Requests, pc'[q] = "writing" PROVE TouchedAt(q)'
    BY DEF TouchedInv, TouchedAt
  <2>4. TouchedAt(q) BY DEF TouchedInv
  <2> QED BY <2>1, <2>2, <2>3, <2>4, TouchedStill
<1>18. CASE Tick \/ Suspend \/ UNCHANGED vars
  BY <1>5, <1>18 DEF Tick, Suspend, vars, historyVars
<1> QED
  BY <1>6, <1>7, <1>8, <1>9, <1>11, <1>12, <1>13, <1>14, <1>15, <1>16, <1>17, <1>18
     DEF Next

LEMMA Invariance == Spec => [](IInv /\ FreshIds /\ TouchedInv)
  BY InitIInv, NextIInv, InitFresh, NextFresh, InitTouched, NextTouched, PTL DEF Spec

(***************************************************************************)
(* Theorems                                                                *)
(***************************************************************************)

\* The table, the requests and the histories have their types.
THEOREM CompanyTyped == Spec => []TypeOK
  BY Invariance, PTL DEF IInv

\* Every session speaks for a row that was there, with its password, while
\* the login was asked.
THEOREM CompanyVouched == Spec => []SessionsAreVouched
<1>1. IInv => SessionsAreVouched
  BY DEF IInv, ReqInv, VouchedFor, SessionsAreVouched
<1> QED BY <1>1, Invariance, PTL

\* No two users share an e-mail.
THEOREM EmailsUnique == Spec => []EmailsAreUnique
  BY Invariance, PTL DEF IInv

\* The table never refuses the rates of an Update or a Create.
THEOREM RatesNeverRefused == Spec => []RatesCheckNeverFires
<1>1. IInv => RatesCheckNeverFires
  BY DEF IInv, ReqInv, ReadOK, RatesOrdered, RatesCheckNeverFires
<1> QED BY <1>1, Invariance, PTL

\* A password is replaced by who knew one the user had, or by an Update that
\* asks for it.
THEOREM PasswordsVouchedFor == Spec => PasswordsAreVouched
<1> DEFINE Step ==
      \A u \in Existing : users'[u].password # users[u].password =>
          \E r \in Requests :
             /\ found[r] = u /\ pc'[r] = "done"
             /\ \/ pc[r] = "resetting" /\ users'[u].password = body[r].ask.password
                \/ /\ pc[r] = "replacing" /\ users'[u].password = body[r].next
                   /\ \E s \in seen[r] : s[1] = u /\ Knew(body[r].password, s[2])
<1>1. IInv /\ FreshIds /\ [Next]_vars => [Step]_vars
  <2> SUFFICES ASSUME IInv, FreshIds, Next, NEW u \in Existing,
                      users'[u].password # users[u].password
               PROVE  \E r \in Requests :
                         /\ found[r] = u /\ pc'[r] = "done"
                         /\ \/ /\ pc[r] = "resetting"
                               /\ users'[u].password = body[r].ask.password
                            \/ /\ pc[r] = "replacing" /\ users'[u].password = body[r].next
                               /\ \E s \in seen[r] : s[1] = u /\ Knew(body[r].password, s[2])
    BY DEF vars
  <2>1. TypeOK /\ u \in Users /\ users[u] \in Row BY ExistingFacts DEF IInv
  <2>2. ASSUME NEW r \in Requests, NEW from \in {"replacing", "resetting"}, NEW p,
               SetsPassword(r, from, p), found[r] \in Existing
        PROVE  /\ found[r] = u /\ pc[r] = from /\ pc'[r] = "done"
               /\ users'[u].password = p
    <3>1. found[r] \in Users /\ users[found[r]] \in Row BY <2>1, <2>2, ExistingFacts
    <3>2. /\ pc[r] = from /\ pc' = [pc EXCEPT ![r] = "done"]
          /\ users' = [users EXCEPT ![found[r]] = [users[found[r]] EXCEPT !.password = p]]
      BY <2>2 DEF SetsPassword, Moves, Writes
    <3>3. found[r] = u BY <2>1, <3>1, <3>2 DEF TypeOK
    <3>4. [users[u] EXCEPT !.password = p].password = p BY <2>1 DEF Row, RowsWith
    <3> QED BY <2>1, <3>2, <3>3, <3>4 DEF TypeOK
  <2>3. ASSUME NEW r \in Requests, ChangeWrites(r)
        PROVE  /\ found[r] = u /\ pc[r] = "replacing" /\ pc'[r] = "done"
               /\ users'[u].password = body[r].next
               /\ \E s \in seen[r] : s[1] = u /\ Knew(body[r].password, s[2])
    <3>1. pc[r] = "replacing" /\ SetsPassword(r, "replacing", body[r].next)
      BY <2>3 DEF ChangeWrites, SetsPassword, Moves
    <3>2. found[r] \in Existing BY <3>1 DEF IInv, ReqInv, BodyOK
    <3>3. found[r] = u /\ pc'[r] = "done" /\ users'[u].password = body[r].next
      BY <2>2, <3>1, <3>2
    <3>4. \E s \in seen[r] : s[1] = found[r] /\ Knew(body[r].password, s[2])
      BY <3>1 DEF IInv, ReqInv, VouchedFor
    <3> QED BY <3>1, <3>3, <3>4
  <2>4. ASSUME NEW r \in Requests, UpdateResets(r)
        PROVE  /\ found[r] = u /\ pc[r] = "resetting" /\ pc'[r] = "done"
               /\ users'[u].password = body[r].ask.password
    <3>1. pc[r] = "resetting" /\ SetsPassword(r, "resetting", body[r].ask.password)
      BY <2>4 DEF UpdateResets, SetsPassword, Moves
    <3>2. found[r] \in Existing BY <3>1 DEF IInv, ReqInv, BodyOK
    <3> QED BY <2>2, <3>1, <3>2
  <2>5. ASSUME NEW r \in Requests, CreateWrites(r) PROVE FALSE
    <3>1. users'[u] = users[u]
      BY <2>1, <2>5 DEF CreateWrites, Writes, FreshIds, IInv, TypeOK
    <3> QED BY <3>1
  <2>6. ASSUME NEW r \in Requests, UpdateWrites(r) PROVE FALSE
    <3>1. pc[r] = "writing" BY <2>6 DEF UpdateWrites
    <3>2. /\ found[r] \in Users /\ users[found[r]] \in Row /\ read[r] \in Row
          /\ body[r].ask \in Ask
      BY <3>1, <2>1, ExistingFacts DEF IInv, ReqInv, BodyOK, ReadOK
    <3>3. Written(users[found[r]], read[r], body[r].ask).password = users[found[r]].password
      BY <3>2, WrittenFacts
    <3>4. \/ UNCHANGED users
          \/ users' = [users EXCEPT ![found[r]] =
                          Written(users[found[r]], read[r], body[r].ask)]
      BY <2>6 DEF UpdateWrites, Writes
    <3> QED BY <2>1, <3>2, <3>3, <3>4 DEF TypeOK
  <2>7. ASSUME NEW w \in Existing, Delete(w) PROVE FALSE
    <3>1. users' = [users EXCEPT ![w] =
             [users[w] EXCEPT !.status = "inactive", !.active = FALSE]]
      BY <2>7 DEF Delete, Writes
    <3>2. w \in Users /\ users[w] \in Row BY <2>1, ExistingFacts
    <3>3. [users[w] EXCEPT !.status = "inactive", !.active = FALSE].password
             = users[w].password
      BY <3>2, WithoutUser
    <3> QED BY <2>1, <3>1, <3>2, <3>3 DEF TypeOK
  <2>8. users' # users OBVIOUS
  <2> QED
    BY <2>3, <2>4, <2>5, <2>6, <2>7, <2>8 DEF Next, LoginArrives, ChangeArrives,
       CreateArrives, UpdateArrives, Arrives, LoginReads, LoginRecords, ChangeReads,
       UpdateReads, Fails, Leaves, Tick, Suspend
<1> QED BY <1>1, Invariance, PTL DEF Spec, PasswordsAreVouched

\* Update changes a column to what was asked for, or takes back what others
\* have changed since it read the row, and nothing else.
THEOREM UpdatesLoseLittle == Spec => UpdatesLoseOnlyOverlaps
<1> DEFINE Step ==
      \A r \in Requests : pc[r] = "writing" /\ pc'[r] \in {"done", "resetting"} =>
          LET u == found[r] IN
          \A c \in Columns : users'[u][c] # users[u][c] =>
             \/ c \in touched[r]
             \/ users'[u][c] = Asked(body[r].ask, c)
<1>1. IInv /\ TouchedInv /\ [Next]_vars => [Step]_vars
  <2> SUFFICES ASSUME IInv, TouchedInv, Next, NEW r \in Requests, NEW c \in Columns,
                      pc[r] = "writing", pc'[r] \in {"done", "resetting"},
                      users'[found[r]][c] # users[found[r]][c]
               PROVE  \/ c \in touched[r]
                      \/ users'[found[r]][c] = Asked(body[r].ask, c)
    BY DEF vars
  <2> DEFINE now == users[found[r]]
             a == body[r].ask
             row == Written(now, read[r], a)
  <2>1. /\ TypeOK /\ found[r] \in Users /\ now \in Row /\ read[r] \in Row /\ a \in Ask
    BY ExistingFacts DEF IInv, ReqInv, BodyOK, ReadOK
  <2>2. UpdateWrites(r)
    <3>1. ASSUME NEW q \in Requests, NEW from, NEW to, Moves(q, from, to)
          PROVE  q = r /\ from = "writing" /\ to = pc'[r]
      BY <2>1, <3>1 DEF Moves, TypeOK
    <3>2. ~ \E q \in Requests : Leaves(q)
      BY <2>1 DEF Leaves, Ended, TypeOK
    <3>3. pc' # pc OBVIOUS
    <3>4. \A q \in Requests : ~(\/ LoginReads(q) \/ LoginRecords(q) \/ ChangeReads(q)
                                \/ ChangeWrites(q) \/ CreateWrites(q) \/ UpdateReads(q)
                                \/ UpdateResets(q) \/ Fails(q))
      <4> SUFFICES ASSUME NEW q \in Requests
                   PROVE  /\ ~LoginReads(q) /\ ~LoginRecords(q) /\ ~ChangeReads(q)
                          /\ ~ChangeWrites(q) /\ ~CreateWrites(q) /\ ~UpdateReads(q)
                          /\ ~UpdateResets(q) /\ ~Fails(q)
        OBVIOUS
      <4>1. ASSUME NEW from, NEW to, from # "writing" \/ to = "refused"
            PROVE  ~Moves(q, from, to)
        BY <3>1, <4>1
      <4>2. ~LoginReads(q) /\ ~LoginRecords(q) BY <4>1 DEF LoginReads, LoginRecords
      <4>3. ~ChangeReads(q) BY <4>1 DEF ChangeReads
      <4>4. ~ChangeWrites(q) /\ ~UpdateResets(q)
        BY <4>1 DEF ChangeWrites, UpdateResets, SetsPassword
      <4>5. ~CreateWrites(q) BY <4>1 DEF CreateWrites
      <4>6. ~UpdateReads(q) BY <4>1 DEF UpdateReads
      <4>7. ~Fails(q) BY <4>1 DEF Fails
      <4> QED BY <4>2, <4>3, <4>4, <4>5, <4>6, <4>7
    <3>5. \A q \in Requests : UpdateWrites(q) => q = r
      BY <3>1 DEF UpdateWrites
    <3>6. \A q \in Requests : \A first, b, u : ~Arrives(q, first, b, u)
      BY <3>1 DEF Arrives
    <3> QED
      BY <3>2, <3>3, <3>4, <3>5, <3>6 DEF Next, LoginArrives, ChangeArrives,
         CreateArrives, UpdateArrives, Delete, Tick, Suspend
  <2>3. users'[found[r]] = row
    <3>1. users' = [users EXCEPT ![found[r]] = row]
      BY <2>2, <2>1 DEF UpdateWrites, Writes
    <3> QED BY <2>1, <3>1 DEF TypeOK
  <2>4. read[r][c] # now[c] => c \in touched[r]
    BY DEF TouchedInv, TouchedAt
  <2>5. row[c] # now[c] => row[c] = Asked(a, c) \/ row[c] = read[r][c]
    BY DEF Written, Pick, Asked, Columns
  <2> HIDE DEF row, a, now
  <2>6. users[found[r]] = now /\ body[r].ask = a BY DEF now, a
  <2> QED BY <2>3, <2>4, <2>5, <2>6
<1> QED BY <1>1, Invariance, PTL DEF Spec, UpdatesLoseOnlyOverlaps

(***************************************************************************)
(* The behaviours of MCCompany                                             *)
(***************************************************************************)

SetupProofs == INSTANCE CompanySetupProofs WITH Requests <- SetupRequests, pc <- step

allVars == <<part, vars, setupVars, readsVars>>

\* The variables of CompanySetup take its steps.
LEMMA SetupSteps ==
    ASSUME [MCNext]_allVars
    PROVE  [Setup!Next]_setupVars
<1>1. CASE UNCHANGED allVars
  BY <1>1 DEF allVars
<1>2. CASE MCNext
  BY <1>2 DEF MCNext
<1> QED BY <1>1, <1>2

\* CompanySetupProofs speaks of the same requests.
LEMMA SameSetup ==
    /\ Setup!Init <=> SetupProofs!Init
    /\ Setup!Next <=> SetupProofs!Next
    /\ SetupProofs!ConflictsAreReal => Setup!ConflictsAreReal
    /\ SetupProofs!ListsAreWhole => Setup!ListsAreWhole
  BY DEF Setup!vars, SetupProofs!vars, Setup!Founding, SetupProofs!Founding, Setup!Joining,
         SetupProofs!Joining, Setup!Listing, SetupProofs!Listing, Setup!Ended,
         SetupProofs!Ended, Setup!User, SetupProofs!User, Setup!Nobody,
         SetupProofs!Nobody, Setup!Request, SetupProofs!Request, Setup!Companies,
         SetupProofs!Companies, Setup!Employed, SetupProofs!Employed, Setup!Names,
         SetupProofs!Names, Setup!Init, SetupProofs!Init, Setup!Moves,
         SetupProofs!Moves, Setup!Arrives, SetupProofs!Arrives, Setup!RollbackOf,
         SetupProofs!RollbackOf, Setup!Commits, SetupProofs!Commits,
         Setup!CreateCompany, SetupProofs!CreateCompany, Setup!InsertCompany,
         SetupProofs!InsertCompany, Setup!InsertAdmin, SetupProofs!InsertAdmin,
         Setup!CommitCompany, SetupProofs!CommitCompany, Setup!CreateCompanyUser,
         SetupProofs!CreateCompanyUser, Setup!CheckCompany,
         SetupProofs!CheckCompany, Setup!InsertUser, SetupProofs!InsertUser,
         Setup!ListCompanies, SetupProofs!ListCompanies, Setup!UsersOf,
         SetupProofs!UsersOf, Setup!ReadCompanies, SetupProofs!ReadCompanies,
         Setup!Fails, SetupProofs!Fails, Setup!Steps, SetupProofs!Steps,
         Setup!Quiet, SetupProofs!Quiet, Setup!Next, SetupProofs!Next,
         Setup!ConflictsAreReal, SetupProofs!ConflictsAreReal,
         Setup!ListsAreWhole, SetupProofs!ListsAreWhole, Setup!Cardinality,
         SetupProofs!Cardinality, Setup!IsFiniteSet, SetupProofs!IsFiniteSet

LEMMA SetupInvariance == MCSpec => []SetupProofs!SetupInv
<1>1. SetupProofs!Assumed BY SetupAssumption DEF SetupProofs!Assumed, SetupProofs!IsFiniteSet, IsFiniteSet
<1>2. MCInit => SetupProofs!SetupInv
  <2>1. MCInit => SetupProofs!Init BY SameSetup DEF MCInit
  <2> QED BY <1>1, <2>1, SetupProofs!InitHolds
<1>3. SetupProofs!SetupInv /\ [MCNext]_allVars => SetupProofs!SetupInv'
  <2>1. ASSUME [MCNext]_allVars PROVE [SetupProofs!Next]_(SetupProofs!vars)
    BY <2>1, SetupSteps, SameSetup DEF setupVars, SetupProofs!vars
  <2> QED BY <1>1, <2>1, SetupProofs!NextKeeps
<1> QED BY <1>2, <1>3, PTL DEF MCSpec, allVars

(***************************************************************************)
(* Theorems of MCCompany                                                   *)
(***************************************************************************)

\* A conflict is answered only for a slug or an e-mail that was committed.
THEOREM ConflictsAreAlwaysReal == MCSpec => []ConflictsAreReal
<1>1. SetupProofs!SetupInv => ConflictsAreReal
  BY SameSetup DEF ConflictsAreReal, SetupProofs!SetupInv, SetupProofs!Informed,
     SetupProofs!ConflictsAreReal
<1> QED BY <1>1, SetupInvariance, PTL

\* ListCompanies never shows a company without a user.
THEOREM ListsAreAlwaysWhole == MCSpec => []ListsAreWhole
<1>1. SetupProofs!SetupInv => ListsAreWhole
  BY SameSetup DEF ListsAreWhole, SetupProofs!SetupInv, SetupProofs!Whole,
     SetupProofs!ListsAreWhole
<1> QED BY <1>1, SetupInvariance, PTL

LEMMA SameDirectory ==
    /\ SetupProofs!Directory!Init => Setup!Directory!Init
    /\ [SetupProofs!Directory!Next]_(SetupProofs!Directory!vars)
       => [Setup!Directory!Next]_(Setup!Directory!vars)
  BY DEF Setup!Companies, SetupProofs!Companies, Setup!Employed, SetupProofs!Employed,
         Setup!Directory!Init, SetupProofs!Directory!Init, Setup!Directory!Next,
         SetupProofs!Directory!Next, Setup!Directory!vars,
         SetupProofs!Directory!vars, Setup!Directory!Hire,
         SetupProofs!Directory!Hire, Setup!Directory!Found,
         SetupProofs!Directory!Found, Setup!Directory!Join,
         SetupProofs!Directory!Join

\* CreateCompany and CreateCompanyUser, interleaved and failing anywhere, show
\* what CompanyDirectory promises.
THEOREM CompaniesAreADirectory == MCSpec => ImplementsDirectory
<1>1. SetupProofs!Assumed
  BY SetupAssumption DEF SetupProofs!Assumed, SetupProofs!IsFiniteSet, IsFiniteSet
<1>2. MCInit => Setup!Directory!Init
  <2>1. MCInit => SetupProofs!Init BY SameSetup DEF MCInit
  <2> QED BY <1>1, <2>1, SetupProofs!InitRefines, SameDirectory
<1>3. SetupProofs!SetupInv /\ [MCNext]_allVars
      => [Setup!Directory!Next]_(Setup!Directory!vars)
  <2>1. ASSUME [MCNext]_allVars PROVE [SetupProofs!Next]_(SetupProofs!vars)
    BY <2>1, SetupSteps, SameSetup DEF setupVars, SetupProofs!vars
  <2> QED BY <1>1, <2>1, SetupProofs!NextKeeps, SetupProofs!ShownRefines, SameDirectory
<1> QED
  BY <1>2, <1>3, SetupInvariance, PTL
  DEF MCSpec, allVars, ImplementsDirectory, Setup!ImplementsDirectory, Setup!Directory!Spec
=============================================================================
