-------------------------- MODULE CompanySetupProofs --------------------------
(***************************************************************************)
(* Proofs about CompanySetup, for any requests, slugs and e-mails: it      *)
(* implements CompanyDirectory, conflicts are real and lists are whole.    *)
(***************************************************************************)
EXTENDS CompanySetup, FiniteSetTheorems, TLAPS

Typed ==
    /\ slugRow \in [Slugs -> Requests \cup {None}]
    /\ userRow \in [Emails -> [by : Requests \cup {None}, company : Slugs \cup {None}]]
    /\ committed \in SUBSET Requests
    /\ pc \in [Requests -> {"idle"} \cup Founding \cup Joining \cup Listing \cup Ended]
    /\ input \in [Requests -> [slug : Slugs \cup {None}, email : Emails \cup {None}]]
    /\ answer = [r \in Requests |-> answer[r]]
    /\ met \in [Requests -> SUBSET (Slugs \cup Emails)]

\* What a request brought and holds, wherever it is; one that commits has ended.
Place(r) ==
    /\ pc[r] \in Founding => input[r].slug \in Slugs
    /\ pc[r] \in Founding \cup Joining => input[r].email \in Emails
    /\ pc[r] \in {"inserting admin", "committing"} => slugRow[input[r].slug] = r
    /\ pc[r] = "committing" => userRow[input[r].email] = User(r, input[r].slug)
    /\ pc[r] = "inserting user" => input[r].slug \in Companies
    /\ r \in committed => pc[r] \in Ended

\* Nobody else has rows that are not committed.
Held ==
    /\ \A s \in Slugs : slugRow[s] \notin committed \cup {None} =>
          /\ pc[slugRow[s]] \in {"inserting admin", "committing"}
          /\ input[slugRow[s]].slug = s
    /\ \A e \in Emails : userRow[e].by \notin committed \cup {None} =>
          /\ pc[userRow[e].by] = "committing"
          /\ input[userRow[e].by].email = e

\* No company is without a user.
Staffed == \A s \in Companies : \E e \in Employed : userRow[e].company = s

\* A request knows what was committed since it arrived.
Informed(r) ==
    /\ pc[r] # "idle" => Names \subseteq met[r]
    /\ pc[r] = "conflict" => met[r] \cap {input[r].slug, input[r].email} # {}

\* An answer is whole.
Whole(r) == \A s \in Slugs : s \in DOMAIN answer[r] => answer[r][s] > 0

SetupInv ==
    /\ Typed
    /\ \A r \in Requests : Place(r) /\ Informed(r) /\ Whole(r)
    /\ Held
    /\ Staffed

Assumed == None \notin Requests /\ IsFiniteSet(Emails)

\* What everybody sees of the table stays as it is.
SameRows ==
    /\ Companies' = Companies /\ Employed' = Employed
    /\ \A e \in Employed : userRow'[e] = userRow[e]

LEMMA UserParts == \A r, s : User(r, s).by = r /\ User(r, s).company = s
  BY DEF User

LEMMA NobodyIsNone == Nobody.by = None
  BY UserParts DEF Nobody

LEMMA InitHolds == ASSUME Assumed, Init PROVE SetupInv
<1>1. User(None, None) \in [by : Requests \cup {None}, company : Slugs \cup {None}]
  BY DEF User
<1>2. Request(None, None) \in [slug : Slugs \cup {None}, email : Emails \cup {None}]
  BY DEF Request
<1>3. Typed BY <1>1, <1>2 DEF Init, Typed, Nobody
<1>4. Companies = {} /\ Employed = {} BY DEF Init, Companies, Employed
<1>5. \A r \in Requests : Place(r) /\ Informed(r) /\ Whole(r)
  BY DEF Init, Place, Informed, Whole, Founding, Joining
<1>6. \A e \in Emails : userRow[e].by = None BY NobodyIsNone DEF Init
<1>7. Held BY <1>6 DEF Init, Held
<1>8. Staffed BY <1>4 DEF Staffed
<1> QED BY <1>3, <1>5, <1>7, <1>8 DEF SetupInv

\* What a request that neither moves nor loses a row keeps.
LEMMA PlaceKept ==
  ASSUME Assumed, NEW q \in Requests, Place(q),
         pc'[q] = pc[q], input'[q] = input[q],
         \A s \in Slugs : slugRow[s] = q => slugRow'[s] = q,
         \A e \in Emails : userRow[e].by = q => userRow'[e] = userRow[e],
         Companies \subseteq Companies',
         q \in committed' => q \in committed
  PROVE  Place(q)'
<1>1. pc[q] \in {"inserting admin", "committing"} => pc[q] \in Founding
  BY DEF Founding
<1>2. ASSUME pc[q] \in {"inserting admin", "committing"}
      PROVE  slugRow'[input[q].slug] = q
  BY <1>1, <1>2 DEF Place
<1>3. ASSUME pc[q] = "committing" PROVE userRow'[input[q].email] = User(q, input[q].slug)
  BY <1>1, <1>3, UserParts DEF Place
<1> QED BY <1>2, <1>3 DEF Place

LEMMA Owners ==
  ASSUME Typed
  PROVE  /\ \A s \in Slugs : slugRow[s] \in Requests \cup {None}
         /\ \A e \in Emails : userRow[e].by \in Requests \cup {None}
  BY DEF Typed

LEMMA SameRowsIf ==
  ASSUME \A s \in Slugs : slugRow'[s] \in committed' <=> slugRow[s] \in committed,
         \A e \in Emails : userRow'[e].by \in committed' <=> userRow[e].by \in committed,
         \A e \in Emails : userRow[e].by \in committed => userRow'[e] = userRow[e]
  PROVE  SameRows
  BY DEF SameRows, Companies, Employed

\* Only a request that is about to commit has a user nobody else sees.
LEMMA OnlyCommitting ==
  ASSUME Held, NEW r, r # None, pc[r] # "committing", NEW e \in Emails, userRow[e].by = r
  PROVE  r \in committed
<1> SUFFICES ASSUME r \notin committed PROVE FALSE
  OBVIOUS
<1>1. userRow[e].by \notin committed \cup {None} OBVIOUS
<1>2. pc[userRow[e].by] = "committing" BY <1>1, Zenon DEF Held
<1> QED BY <1>2, Zenon

\* Likewise for the company of a request that has not committed.
LEMMA OnlyFounding ==
  ASSUME Held, NEW r, r # None, r \notin committed, NEW s \in Slugs, slugRow[s] = r
  PROVE  pc[r] \in {"inserting admin", "committing"} /\ input[r].slug = s
<1>1. slugRow[s] \notin committed \cup {None} OBVIOUS
<1>2. pc[slugRow[s]] \in {"inserting admin", "committing"} /\ input[slugRow[s]].slug = s
  BY <1>1, Zenon DEF Held
<1> QED BY <1>2, Zenon

\* The rows of others stay with them, and those of r are where it is.
LEMMA HeldKept ==
  ASSUME Typed, Typed', Held, NEW r \in Requests, committed \subseteq committed',
         \A q \in Requests \ {r} : pc'[q] = pc[q] /\ input'[q] = input[q],
         \A s \in Slugs : slugRow'[s] \notin committed' \cup {None, r}
                             => slugRow'[s] = slugRow[s],
         \A e \in Emails : userRow'[e].by \notin committed' \cup {None, r}
                              => userRow'[e] = userRow[e],
         \A s \in Slugs : slugRow'[s] = r /\ r \notin committed' =>
            pc'[r] \in {"inserting admin", "committing"} /\ input'[r].slug = s,
         \A e \in Emails : userRow'[e].by = r /\ r \notin committed' =>
            pc'[r] = "committing" /\ input'[r].email = e
  PROVE  Held'
<1>1. ASSUME NEW s \in Slugs, slugRow'[s] \notin committed' \cup {None}
      PROVE  /\ pc'[slugRow'[s]] \in {"inserting admin", "committing"}
             /\ input'[slugRow'[s]].slug = s
  <2>1. slugRow'[s] \in Requests BY <1>1, Owners DEF Typed
  <2>2. CASE slugRow'[s] = r BY <1>1, <2>2
  <2>3. CASE slugRow'[s] # r
    <3>1. slugRow'[s] = slugRow[s] /\ slugRow[s] \notin committed \cup {None}
      BY <1>1, <2>3
    <3>2. pc[slugRow[s]] \in {"inserting admin", "committing"} /\ input[slugRow[s]].slug = s
      BY <3>1, Zenon DEF Held
    <3>3. slugRow[s] \in Requests \ {r} BY <2>1, <2>3, <3>1
    <3>4. pc'[slugRow[s]] = pc[slugRow[s]] /\ input'[slugRow[s]] = input[slugRow[s]]
      BY <3>3, Zenon
    <3> QED BY <3>1, <3>2, <3>4, Zenon
  <2> QED BY <2>2, <2>3
<1>2. ASSUME NEW e \in Emails, userRow'[e].by \notin committed' \cup {None}
      PROVE  /\ pc'[userRow'[e].by] = "committing"
             /\ input'[userRow'[e].by].email = e
  <2>1. userRow'[e].by \in Requests BY <1>2 DEF Typed
  <2>2. CASE userRow'[e].by = r BY <1>2, <2>2
  <2>3. CASE userRow'[e].by # r
    <3>1. userRow'[e] = userRow[e] /\ userRow[e].by \notin committed \cup {None}
      BY <1>2, <2>3
    <3>2. pc[userRow[e].by] = "committing" /\ input[userRow[e].by].email = e
      BY <3>1, Zenon DEF Held
    <3>3. userRow[e].by \in Requests \ {r} BY <2>1, <2>3, <3>1
    <3>4. /\ pc'[userRow[e].by] = pc[userRow[e].by]
          /\ input'[userRow[e].by] = input[userRow[e].by]
      BY <3>3, Zenon
    <3> QED BY <3>1, <3>2, <3>4, Zenon
  <2> QED BY <2>2, <2>3
<1> QED BY <1>1, <1>2 DEF Held

\* A step of r that changes no committed row and no row of another request.
LEMMA UnseenKeeps ==
  ASSUME Assumed, SetupInv, NEW r \in Requests, Typed', SameRows, UNCHANGED committed,
         \A q \in Requests \ {r} :
            /\ pc'[q] = pc[q] /\ input'[q] = input[q] /\ met'[q] = met[q]
            /\ answer'[q] = answer[q],
         \A s \in Slugs : slugRow[s] \notin {r, None} => slugRow'[s] = slugRow[s],
         \A e \in Emails : userRow[e].by \notin {r, None} => userRow'[e] = userRow[e],
         Place(r)', Informed(r)', Whole(r)', Held'
  PROVE  SetupInv'
<1>1. ASSUME NEW q \in Requests \ {r} PROVE Place(q)' /\ Informed(q)' /\ Whole(q)'
  <2>1. Place(q) /\ Informed(q) /\ Whole(q) BY DEF SetupInv
  <2>2. Whole(q)' BY <2>1 DEF Whole
  <2>3. Informed(q)' BY <2>1 DEF Informed, SameRows, Names
  <2>4. q \notin {r, None} BY DEF Assumed
  <2>5. /\ \A s \in Slugs : slugRow[s] = q => slugRow'[s] = q
        /\ \A e \in Emails : userRow[e].by = q => userRow'[e] = userRow[e]
        /\ Companies \subseteq Companies' /\ committed' = committed
    BY <2>4 DEF SameRows
  <2>6. Place(q)' BY <2>1, <2>5, PlaceKept
  <2> QED BY <2>2, <2>3, <2>6
<1>2. Staffed' BY DEF SetupInv, Staffed, SameRows, Employed
<1> QED BY <1>1, <1>2 DEF SetupInv

LEMMA NoRowNoChange ==
  ASSUME UNCHANGED <<slugRow, userRow, committed>>
  PROVE  SameRows
  BY DEF SameRows, Companies, Employed

\* A step of r that touches no row: it arrives, fails a check or is answered.
LEMMA MovingKeeps ==
  ASSUME Assumed, SetupInv, NEW r \in Requests, Typed',
         UNCHANGED <<slugRow, userRow, committed>>,
         pc[r] \notin {"inserting admin", "committing"},
         \A q \in Requests \ {r} :
            /\ pc'[q] = pc[q] /\ input'[q] = input[q] /\ met'[q] = met[q]
            /\ answer'[q] = answer[q],
         Place(r)', Informed(r)', Whole(r)'
  PROVE  SetupInv' /\ SameRows
<1>1. SameRows BY NoRowNoChange
<1>2. Held'
  <2>1. Typed /\ Held /\ Place(r) BY DEF SetupInv
  <2>2. r # None BY DEF Assumed
  <2>3. \A s \in Slugs : slugRow[s] = r => r \in committed
    BY <2>1, <2>2, OnlyFounding
  <2>4. \A e \in Emails : userRow[e].by = r => r \in committed
    BY <2>1, <2>2, OnlyCommitting
  <2> QED BY <2>1, <2>3, <2>4, HeldKept
<1> QED BY <1>1, <1>2, UnseenKeeps

LEMMA ArrivalKeeps ==
  ASSUME Assumed, SetupInv, NEW r \in Requests,
         NEW first \in {"inserting company", "checking", "listing"},
         NEW s \in Slugs \cup {None}, NEW e \in Emails \cup {None},
         Arrives(r, first, s, e),
         first = "inserting company" => s \in Slugs,
         first # "listing" => e \in Emails
  PROVE  SetupInv' /\ SameRows
<1>1. /\ Typed /\ Place(r) /\ Whole(r) BY DEF SetupInv
<1>2. /\ pc[r] = "idle" /\ pc' = [pc EXCEPT ![r] = first]
      /\ input' = [input EXCEPT ![r] = Request(s, e)]
      /\ met' = [met EXCEPT ![r] = Names]
      /\ UNCHANGED <<slugRow, userRow, committed, answer>>
  BY DEF Arrives, Moves
<1>3. Names \subseteq Slugs \cup Emails BY DEF Names, Companies, Employed
<1>4. Request(s, e) \in [slug : Slugs \cup {None}, email : Emails \cup {None}]
  BY DEF Request
<1>5. Typed' BY <1>1, <1>2, <1>3, <1>4 DEF Typed, Founding, Joining, Listing
<1>6. pc'[r] = first /\ input'[r] = Request(s, e) /\ met'[r] = Names
  BY <1>1, <1>2 DEF Typed
<1>7. Place(r)'
  <2>1. r \notin committed BY <1>1, <1>2 DEF Place, Ended
  <2>3. Request(s, e).slug = s /\ Request(s, e).email = e BY DEF Request
  <2>4. input'[r] = Request(s, e) BY <1>6
  <2>2. input'[r].slug = s /\ input'[r].email = e BY <2>3, <2>4, Zenon
  <2> QED BY <1>2, <1>6, <2>1, <2>2 DEF Place, Founding, Joining
<1>8. Names' = Names BY <1>2 DEF Names, Companies, Employed
<1>9. Informed(r)' BY <1>6, <1>8 DEF Informed
<1>10. Whole(r)' BY <1>1, <1>2 DEF Whole
<1>11. \A q \in Requests \ {r} :
            /\ pc'[q] = pc[q] /\ input'[q] = input[q] /\ met'[q] = met[q]
            /\ answer'[q] = answer[q]
  BY <1>1, <1>2 DEF Typed
<1> QED BY <1>2, <1>5, <1>7, <1>9, <1>10, <1>11, MovingKeeps

\* The slug is taken by a row nobody else sees, or by one everybody does.
LEMMA InsertCompanyKeeps ==
  ASSUME Assumed, SetupInv, NEW r \in Requests, InsertCompany(r)
  PROVE  SetupInv' /\ SameRows
<1> DEFINE s == input[r].slug
<1>1. Typed /\ Held /\ Place(r) /\ Informed(r) /\ Whole(r) BY DEF SetupInv
<1>2. pc[r] = "inserting company" /\ UNCHANGED <<userRow, committed, input, answer, met>>
  BY DEF InsertCompany
<1>3. s \in Slugs /\ input[r].email \in Emails /\ r \notin committed
  BY <1>1, <1>2 DEF Place, Founding, Ended
<1>6. input[r].slug = s /\ input'[r].slug = s BY <1>2
<1>7. \/ /\ slugRow[s] = None /\ pc' = [pc EXCEPT ![r] = "inserting admin"]
         /\ slugRow' = [slugRow EXCEPT ![s] = r]
      \/ /\ slugRow[s] \in committed /\ pc' = [pc EXCEPT ![r] = "conflict"]
         /\ UNCHANGED slugRow
  BY DEF InsertCompany, Moves
<1> HIDE DEF s
<1>4. CASE slugRow[s] = None /\ pc' = [pc EXCEPT ![r] = "inserting admin"]
            /\ slugRow' = [slugRow EXCEPT ![s] = r]
  <2>1. Typed' BY <1>1, <1>2, <1>4 DEF Typed, Founding
  <2>2. /\ pc'[r] = "inserting admin" /\ slugRow'[s] = r
        /\ \A q \in Requests \ {r} : pc'[q] = pc[q]
        /\ \A x \in Slugs \ {s} : slugRow'[x] = slugRow[x]
    BY <1>1, <1>3, <1>4 DEF Typed
  <2>3. None \notin committed BY <1>1 DEF Typed, Assumed
  <2>4. SameRows
    <3>1. \A x \in Slugs : slugRow'[x] \in committed' <=> slugRow[x] \in committed
      <4> SUFFICES ASSUME NEW x \in Slugs
                   PROVE  slugRow'[x] \in committed <=> slugRow[x] \in committed
        BY <1>2
      <4>1. CASE x = s BY <1>3, <1>4, <2>2, <2>3, <4>1
      <4>2. CASE x # s
        <5>1. slugRow'[x] = slugRow[x] BY <2>2, <4>2
        <5> QED BY <5>1
      <4> QED BY <4>1, <4>2
    <3> QED BY <1>2, <3>1, SameRowsIf
  <2>5. Place(r)' BY <1>2, <1>3, <1>6, <2>2 DEF Place, Founding, Joining
  <2>6. Informed(r)' BY <1>1, <1>2, <2>2, <2>4 DEF Informed, SameRows, Names
  <2>7. Whole(r)' BY <1>1, <1>2 DEF Whole
  <2>8. Held'
    <3>1. \A x \in Slugs : slugRow[x] # r
      BY <1>1, <1>2, <1>3, OnlyFounding DEF Assumed
    <3>2. \A e \in Emails : userRow[e].by # r
      BY <1>1, <1>2, <1>3, OnlyCommitting DEF Assumed
    <3>3. \A x \in Slugs : slugRow'[x] = r => x = s BY <2>2, <3>1
    <3> QED BY <1>1, <1>2, <1>6, <2>1, <2>2, <3>2, <3>3, HeldKept
  <2> QED BY <1>2, <1>4, <2>1, <2>2, <2>4, <2>5, <2>6, <2>7, <2>8, UnseenKeeps
<1>5. CASE slugRow[s] \in committed /\ pc' = [pc EXCEPT ![r] = "conflict"]
            /\ UNCHANGED slugRow
  <2>1. Typed' BY <1>1, <1>2, <1>5 DEF Typed, Ended
  <2>2. pc'[r] = "conflict" /\ \A q \in Requests \ {r} : pc'[q] = pc[q]
    BY <1>1, <1>5 DEF Typed
  <2>3. s \in met[r] BY <1>1, <1>2, <1>3, <1>5 DEF Informed, Names, Companies
  <2>4. Names' = Names BY <1>2, <1>5 DEF Names, Companies, Employed
  <2>5. Place(r)' BY <2>2 DEF Place, Founding, Joining, Ended
  <2>6. Informed(r)' BY <1>1, <1>2, <1>6, <2>2, <2>3, <2>4 DEF Informed
  <2>7. Whole(r)' BY <1>1, <1>2 DEF Whole
  <2> QED BY <1>2, <1>5, <2>1, <2>2, <2>5, <2>6, <2>7, MovingKeeps
<1> QED BY <1>4, <1>5, <1>7

\* What r gives up nobody has seen.
LEMMA RollbackKeeps ==
  ASSUME Assumed, SetupInv, NEW r \in Requests, NEW to \in {"conflict", "failed"},
         pc[r] \in Founding \cup Joining \cup Listing,
         pc' = [pc EXCEPT ![r] = to],
         to = "conflict" => met[r] \cap {input[r].slug, input[r].email} # {},
         RollbackOf(r), UNCHANGED <<input, answer, met>>
  PROVE  SetupInv' /\ SameRows
<1>1. Typed /\ Held /\ Place(r) /\ Informed(r) /\ Whole(r) BY DEF SetupInv
<1>2. r \notin committed /\ pc[r] # "idle"
  BY <1>1 DEF Place, Founding, Joining, Listing, Ended
<1>3. None \notin committed /\ r # None BY <1>1 DEF Typed, Assumed
<1>4. /\ \A s \in Slugs : slugRow'[s] = IF slugRow[s] = r THEN None ELSE slugRow[s]
      /\ \A e \in Emails : userRow'[e] = IF userRow[e].by = r THEN Nobody ELSE userRow[e]
      /\ committed' = committed
  BY DEF RollbackOf
<1>5. Nobody \in [by : Requests \cup {None}, company : Slugs \cup {None}]
  BY DEF Nobody, User
<1>6. Typed'
  <2>1. slugRow' \in [Slugs -> Requests \cup {None}] BY <1>1 DEF RollbackOf, Typed
  <2>2. userRow' \in [Emails -> [by : Requests \cup {None}, company : Slugs \cup {None}]]
    BY <1>1, <1>5 DEF RollbackOf, Typed
  <2> QED BY <1>1, <1>4, <2>1, <2>2 DEF Typed, Ended
<1>7. SameRows
  BY <1>2, <1>3, <1>4, NobodyIsNone DEF SameRows, Companies, Employed
<1>8. pc'[r] = to /\ \A q \in Requests \ {r} : pc'[q] = pc[q] BY <1>1 DEF Typed
<1>9. Place(r)' BY <1>8 DEF Place, Founding, Joining, Ended
<1>10. Informed(r)' BY <1>1, <1>2, <1>7, <1>8 DEF Informed, SameRows, Names
<1>11. Whole(r)' BY <1>1 DEF Whole
<1>12. Held'
  <2>1. \A s \in Slugs : slugRow'[s] # r BY <1>3, <1>4
  <2>2. \A e \in Emails : userRow'[e].by # r BY <1>3, <1>4, NobodyIsNone
  <2>3. /\ \A s \in Slugs : slugRow'[s] # None => slugRow'[s] = slugRow[s]
        /\ \A e \in Emails : userRow'[e].by # None => userRow'[e] = userRow[e]
    BY <1>4, NobodyIsNone
  <2> QED BY <1>1, <1>4, <1>6, <1>8, <2>1, <2>2, <2>3, HeldKept
<1> QED
  BY <1>4, <1>6, <1>7, <1>8, <1>9, <1>10, <1>11, <1>12, UnseenKeeps

LEMMA InsertAdminKeeps ==
  ASSUME Assumed, SetupInv, NEW r \in Requests, InsertAdmin(r)
  PROVE  SetupInv' /\ SameRows
<1> DEFINE e == input[r].email
           s == input[r].slug
<1>1. Typed /\ Held /\ Place(r) /\ Informed(r) /\ Whole(r) BY DEF SetupInv
<1>2. pc[r] = "inserting admin" /\ UNCHANGED <<input, answer, met>>
  BY DEF InsertAdmin
<1>3. /\ s \in Slugs /\ e \in Emails /\ r \notin committed /\ slugRow[s] = r
      /\ pc[r] \in Founding
  BY <1>1, <1>2 DEF Place, Founding, Ended
<1>4. /\ input[r].slug = s /\ input'[r].slug = s
      /\ input[r].email = e /\ input'[r].email = e
  BY <1>2
<1>5. \/ /\ userRow[e] = Nobody /\ pc' = [pc EXCEPT ![r] = "committing"]
         /\ userRow' = [userRow EXCEPT ![e] = User(r, s)]
         /\ UNCHANGED <<slugRow, committed>>
      \/ /\ userRow[e].by \in committed /\ pc' = [pc EXCEPT ![r] = "conflict"]
         /\ RollbackOf(r)
  BY DEF InsertAdmin, Moves
<1> HIDE DEF e, s
<1>6. CASE /\ userRow[e] = Nobody /\ pc' = [pc EXCEPT ![r] = "committing"]
           /\ userRow' = [userRow EXCEPT ![e] = User(r, s)]
           /\ UNCHANGED <<slugRow, committed>>
  <2>1. User(r, s) \in [by : Requests \cup {None}, company : Slugs \cup {None}]
    BY <1>3 DEF User
  <2>2. Typed' BY <1>1, <1>2, <1>6, <2>1 DEF Typed, Founding
  <2>3. /\ pc'[r] = "committing" /\ userRow'[e] = User(r, s)
        /\ \A q \in Requests \ {r} : pc'[q] = pc[q]
        /\ \A x \in Emails \ {e} : userRow'[x] = userRow[x]
    BY <1>1, <1>3, <1>6 DEF Typed
  <2>4. None \notin committed BY <1>1 DEF Typed, Assumed
  <2>5. userRow[e].by = None /\ userRow'[e].by = r BY <1>6, <2>3, NobodyIsNone, UserParts
  <2>6. SameRows
    <3>1. \A x \in Emails : userRow'[x].by \in committed' <=> userRow[x].by \in committed
      <4> SUFFICES ASSUME NEW x \in Emails
                   PROVE  userRow'[x].by \in committed <=> userRow[x].by \in committed
        BY <1>6
      <4>1. CASE x = e BY <1>3, <2>4, <2>5, <4>1
      <4>2. CASE x # e
        <5>1. userRow'[x] = userRow[x] BY <2>3, <4>2
        <5> QED BY <5>1
      <4> QED BY <4>1, <4>2
    <3>2. \A x \in Emails : userRow[x].by \in committed => userRow'[x] = userRow[x]
      BY <2>3, <2>4, <2>5
    <3> QED BY <1>6, <3>1, <3>2, SameRowsIf
  <2>7. Place(r)' BY <1>3, <1>4, <1>6, <2>3 DEF Place, Founding, Joining
  <2>8. Informed(r)' BY <1>1, <1>2, <2>3, <2>6 DEF Informed, SameRows, Names
  <2>9. Whole(r)' BY <1>1, <1>2 DEF Whole
  <2>10. Held'
    <3>1. r # None BY DEF Assumed
    <3>2. \A x \in Slugs : slugRow'[x] = r => x = s
      <4> SUFFICES ASSUME NEW x \in Slugs, slugRow[x] = r PROVE x = s
        BY <1>6
      <4>1. input[r].slug = x BY <1>1, <1>3, <3>1, OnlyFounding
      <4> QED BY <1>4, <4>1, Zenon
    <3>3. \A x \in Emails : userRow'[x].by = r => x = e
      BY <1>1, <1>2, <1>3, <2>3, <3>1, OnlyCommitting
    <3>4. \A x \in Emails : userRow'[x].by # r => userRow'[x] = userRow[x]
      BY <2>3, <2>5
    <3> QED BY <1>1, <1>2, <1>4, <1>6, <2>2, <2>3, <3>2, <3>3, <3>4, HeldKept
  <2>11. \A x \in Emails : userRow[x].by \notin {r, None} => userRow'[x] = userRow[x]
    BY <2>3, <2>5
  <2> QED BY <1>2, <1>6, <2>2, <2>3, <2>6, <2>7, <2>8, <2>9, <2>10, <2>11, UnseenKeeps
<1>7. CASE /\ userRow[e].by \in committed /\ pc' = [pc EXCEPT ![r] = "conflict"]
           /\ RollbackOf(r)
  <2>1. e \in met[r] BY <1>1, <1>2, <1>3, <1>7 DEF Informed, Names, Employed
  <2> QED BY <1>2, <1>3, <1>4, <1>7, <2>1, RollbackKeeps
<1> QED BY <1>5, <1>6, <1>7

LEMMA FailsKeeps ==
  ASSUME Assumed, SetupInv, NEW r \in Requests, Fails(r)
  PROVE  SetupInv' /\ SameRows
<1>1. /\ pc[r] \in Founding \cup Joining \cup Listing
      /\ pc' = [pc EXCEPT ![r] = "failed"]
  BY DEF Fails, Moves
<1> QED BY <1>1, RollbackKeeps DEF Fails

LEMMA CheckCompanyKeeps ==
  ASSUME Assumed, SetupInv, NEW r \in Requests, CheckCompany(r)
  PROVE  SetupInv' /\ SameRows
<1> DEFINE to == IF input[r].slug \in Companies THEN "inserting user" ELSE "not found"
<1>1. Typed /\ Place(r) /\ Informed(r) /\ Whole(r) BY DEF SetupInv
<1>2. /\ pc[r] = "checking" /\ pc' = [pc EXCEPT ![r] = to]
      /\ UNCHANGED <<slugRow, userRow, committed, input, answer, met>>
  BY DEF CheckCompany, Moves
<1>3. pc'[r] = to /\ \A q \in Requests \ {r} : pc'[q] = pc[q] BY <1>1, <1>2 DEF Typed
<1>4. Typed' BY <1>1, <1>2 DEF Typed, Joining, Ended
<1>9. /\ to \in {"inserting user", "not found"}
      /\ to = "inserting user" => input[r].slug \in Companies
  OBVIOUS
<1> HIDE DEF to
<1>5. Companies' = Companies /\ Names' = Names
  BY <1>2 DEF Names, Companies, Employed
<1>6. Place(r)' BY <1>1, <1>2, <1>3, <1>5, <1>9 DEF Place, Founding, Joining, Ended
<1>7. Informed(r)' BY <1>1, <1>2, <1>3, <1>5, <1>9 DEF Informed
<1>8. Whole(r)' BY <1>1, <1>2 DEF Whole
<1> QED BY <1>2, <1>3, <1>4, <1>6, <1>7, <1>8, MovingKeeps

\* A list counts the users of companies there are, and each has one.
LEMMA ReadCompaniesKeeps ==
  ASSUME Assumed, SetupInv, NEW r \in Requests, ReadCompanies(r)
  PROVE  SetupInv' /\ SameRows
<1>1. Typed /\ Place(r) /\ Informed(r) /\ Staffed BY DEF SetupInv
<1>2. /\ pc[r] = "listing" /\ pc' = [pc EXCEPT ![r] = "listed"]
      /\ answer' = [answer EXCEPT ![r] = [s \in Companies |-> Cardinality(UsersOf(s))]]
      /\ UNCHANGED <<slugRow, userRow, committed, input, met>>
  BY DEF ReadCompanies, Moves
<1>3. /\ pc'[r] = "listed" /\ answer'[r] = [s \in Companies |-> Cardinality(UsersOf(s))]
      /\ \A q \in Requests \ {r} : pc'[q] = pc[q] /\ answer'[q] = answer[q]
  BY <1>1, <1>2 DEF Typed
<1>4. Typed'
  <2>1. answer' = [q \in Requests |-> answer'[q]] BY <1>1, <1>2 DEF Typed
  <2>2. pc' \in [Requests -> {"idle"} \cup Founding \cup Joining \cup Listing \cup Ended]
    BY <1>1, <1>2 DEF Typed, Ended
  <2> QED BY <1>1, <1>2, <2>1, <2>2 DEF Typed
<1>5. Names' = Names BY <1>2 DEF Names, Companies, Employed
<1>6. Place(r)' BY <1>1, <1>2, <1>3 DEF Place, Founding, Joining, Ended
<1>7. Informed(r)' BY <1>1, <1>2, <1>3, <1>5 DEF Informed
<1>8. Whole(r)'
  <2> SUFFICES ASSUME NEW s \in Companies PROVE Cardinality(UsersOf(s)) > 0
    BY <1>3 DEF Whole
  <2>1. UsersOf(s) # {} BY <1>1 DEF Staffed, UsersOf
  <2>2. IsFiniteSet(UsersOf(s))
    BY FS_Subset DEF Assumed, UsersOf, Employed
  <2>3. Cardinality(UsersOf(s)) \in Nat /\ Cardinality(UsersOf(s)) # 0
    BY <2>1, <2>2, FS_CardinalityType, FS_EmptySet
  <2> QED BY <2>3
<1> QED BY <1>2, <1>3, <1>4, <1>6, <1>7, <1>8, MovingKeeps

(***************************************************************************)
(* The steps everybody sees                                                *)
(***************************************************************************)

\* A user, and its company if that is new, appear when their request commits.
Appears(s, e, new) ==
    /\ Companies' = Companies \cup new
    /\ Employed' = Employed \cup {e} /\ e \notin Employed
    /\ userRow'[e].company = s
    /\ \A x \in Employed : userRow'[x] = userRow[x]

LEMMA CommittingKeeps ==
  ASSUME Assumed, SetupInv, NEW r \in Requests, NEW s \in Slugs, NEW e \in Emails,
         NEW new \in {{}, {s}}, NEW to \in {"created", "failed"},
         pc[r] \in {"committing", "inserting user"},
         pc' = [pc EXCEPT ![r] = to], Commits(r, new \cup {e}),
         UNCHANGED <<slugRow, input, answer>>, Typed',
         Appears(s, e, new), s \in Companies',
         \A x \in Emails : userRow[x].by # None => userRow'[x] = userRow[x],
         \A x \in Emails : userRow'[x].by # r => userRow'[x] = userRow[x]
  PROVE  SetupInv'
<1>1. Typed /\ Held /\ Staffed BY DEF SetupInv
<1>2. /\ pc'[r] = to /\ \A q \in Requests \ {r} : pc'[q] = pc[q]
      /\ committed' = committed \cup {r}
      /\ \A q \in Requests : met'[q] = IF pc[q] = "idle" THEN {} ELSE met[q] \cup new \cup {e}
  BY <1>1 DEF Typed, Commits
<1>3. Companies' = Companies \cup new /\ Employed' = Employed \cup {e} BY DEF Appears
<1>4. ASSUME NEW q \in Requests PROVE Place(q)' /\ Informed(q)' /\ Whole(q)'
  <2>1. Place(q) /\ Informed(q) /\ Whole(q) BY DEF SetupInv
  <2>2. Whole(q)' BY <2>1 DEF Whole
  <2>3. pc'[q] # "idle" => pc[q] # "idle" BY <1>2
  <2>4. pc'[q] = "conflict" => pc[q] = "conflict" BY <1>2
  <2>5. Informed(q)'
    <3>1. pc'[q] # "idle" => Names' \subseteq met'[q]
      BY <1>2, <1>3, <2>1, <2>3 DEF Informed, Names
    <3>2. ASSUME pc'[q] = "conflict"
          PROVE  met'[q] \cap {input'[q].slug, input'[q].email} # {}
      <4>1. met[q] \cap {input[q].slug, input[q].email} # {}
        BY <2>1, <2>4, <3>2 DEF Informed
      <4>2. met[q] \subseteq met'[q] BY <1>2, <2>3, <3>2
      <4> QED BY <4>1, <4>2
    <3> QED BY <3>1, <3>2 DEF Informed
  <2>6. CASE q = r BY <1>2, <2>2, <2>5, <2>6 DEF Place, Founding, Joining, Ended
  <2>7. CASE q # r
    <3>1. q # None BY DEF Assumed
    <3>2. \A x \in Emails : userRow[x].by = q => userRow'[x] = userRow[x] BY <3>1
    <3>3. q \in committed' => q \in committed BY <1>2, <2>7
    <3>4. Place(q)' BY <1>2, <1>3, <2>1, <2>7, <3>2, <3>3, PlaceKept
    <3> QED BY <2>2, <2>5, <3>4
  <2> QED BY <2>6, <2>7
<1>5. Held' BY <1>1, <1>2, HeldKept
<1>6. Staffed'
  <2> SUFFICES ASSUME NEW x \in Companies'
               PROVE  \E w \in Employed' : userRow'[w].company = x
    BY DEF Staffed
  <2>1. CASE x = s BY <1>3, <2>1 DEF Appears
  <2>2. CASE x # s
    <3>1. x \in Companies BY <1>3, <2>2
    <3>2. PICK w \in Employed : userRow[w].company = x BY <1>1, <3>1 DEF Staffed
    <3>3. userRow'[w] = userRow[w] BY DEF Appears
    <3> QED BY <1>3, <3>2, <3>3
  <2> QED BY <2>1, <2>2
<1> QED BY <1>4, <1>5, <1>6 DEF SetupInv

LEMMA CommitCompanyKeeps ==
  ASSUME Assumed, SetupInv, NEW r \in Requests, CommitCompany(r)
  PROVE  /\ SetupInv'
         /\ \E s \in Slugs, e \in Emails : s \notin Companies /\ Appears(s, e, {s})
<1> DEFINE e == input[r].email
           s == input[r].slug
<1>1. Typed /\ Held /\ Place(r) BY DEF SetupInv
<1>2. PICK to \in {"created", "failed"} : pc' = [pc EXCEPT ![r] = to]
  BY DEF CommitCompany, Moves
<1>3. /\ pc[r] = "committing" /\ UNCHANGED <<slugRow, userRow, input, answer>>
      /\ Commits(r, {s, e})
  BY DEF CommitCompany, Moves
<1>4. /\ s \in Slugs /\ e \in Emails /\ r \notin committed /\ slugRow[s] = r
      /\ userRow[e] = User(r, s)
  BY <1>1, <1>3 DEF Place, Founding, Ended
<1>5. input[r].slug = s /\ input[r].email = e OBVIOUS
<1> HIDE DEF e, s
<1>6. userRow[e].by = r /\ userRow[e].company = s BY <1>4, UserParts
<1>7. r # None BY DEF Assumed
<1>8. committed' = committed \cup {r} BY <1>3 DEF Commits
<1>9. \A x \in Slugs : slugRow[x] = r => x = s
  <2> SUFFICES ASSUME NEW x \in Slugs, slugRow[x] = r PROVE x = s
    OBVIOUS
  <2>1. input[r].slug = x BY <1>1, <1>4, <1>7, OnlyFounding
  <2> QED BY <1>5, <2>1, Zenon
<1>10. \A x \in Emails : userRow[x].by = r => x = e
  <2> SUFFICES ASSUME NEW x \in Emails, userRow[x].by = r PROVE x = e
    OBVIOUS
  <2>1. userRow[x].by \notin committed \cup {None} BY <1>4, <1>7
  <2>2. input[userRow[x].by].email = x BY <1>1, <2>1, Zenon DEF Held
  <2> QED BY <2>2, <1>5, Zenon
<1>11. s \notin Companies /\ e \notin Employed
  BY <1>4, <1>6 DEF Companies, Employed
<1>12. Companies' = Companies \cup {s}
  BY <1>3, <1>4, <1>8, <1>9 DEF Companies
<1>13. Employed' = Employed \cup {e}
  BY <1>3, <1>4, <1>6, <1>8, <1>10 DEF Employed
<1>14. Appears(s, e, {s}) BY <1>3, <1>6, <1>11, <1>12, <1>13 DEF Appears
<1>15. Typed'
  <2>1. met' \in [Requests -> SUBSET (Slugs \cup Emails)]
    BY <1>1, <1>3, <1>4 DEF Commits, Typed
  <2> QED BY <1>1, <1>2, <1>3, <1>8, <2>1 DEF Typed, Ended
<1>16. {s} \cup {e} = {s, e} OBVIOUS
<1>17. SetupInv'
  BY <1>2, <1>3, <1>4, <1>12, <1>14, <1>15, <1>16, CommittingKeeps
<1> QED BY <1>4, <1>11, <1>14, <1>17

LEMMA InsertUserKeeps ==
  ASSUME Assumed, SetupInv, NEW r \in Requests, InsertUser(r)
  PROVE  /\ SetupInv'
         /\ \/ SameRows
            \/ \E s \in Slugs, e \in Emails : s \in Companies /\ Appears(s, e, {})
<1> DEFINE e == input[r].email
           s == input[r].slug
<1>1. Typed /\ Held /\ Place(r) /\ Informed(r) /\ Whole(r) BY DEF SetupInv
<1>2. pc[r] = "inserting user" /\ UNCHANGED <<slugRow, input, answer>>
  BY DEF InsertUser
<1>3. /\ s \in Companies /\ s \in Slugs /\ e \in Emails /\ r \notin committed /\ r # None
  BY <1>1, <1>2 DEF Place, Joining, Ended, Companies, Assumed
<1>4. input[r].slug = s /\ input[r].email = e OBVIOUS
<1>5. \/ /\ userRow[e] = Nobody
         /\ \E to \in {"created", "failed"} : pc' = [pc EXCEPT ![r] = to]
         /\ userRow' = [userRow EXCEPT ![e] = User(r, s)]
         /\ Commits(r, {e})
      \/ /\ userRow[e].by \in committed /\ pc' = [pc EXCEPT ![r] = "conflict"]
         /\ UNCHANGED <<userRow, committed, met>>
  BY DEF InsertUser, Moves
<1> HIDE DEF e, s
<1>6. ASSUME userRow[e] = Nobody, userRow' = [userRow EXCEPT ![e] = User(r, s)],
             Commits(r, {e}),
             NEW to \in {"created", "failed"}, pc' = [pc EXCEPT ![r] = to]
      PROVE  SetupInv' /\ Appears(s, e, {})
  <2>1. User(r, s) \in [by : Requests \cup {None}, company : Slugs \cup {None}]
    BY <1>3 DEF User
  <2>2. committed' = committed \cup {r} BY <1>6 DEF Commits
  <2>3. Typed'
    <3>1. met' \in [Requests -> SUBSET (Slugs \cup Emails)]
      BY <1>1, <1>3, <1>6 DEF Commits, Typed
    <3>2. userRow' \in [Emails -> [by : Requests \cup {None}, company : Slugs \cup {None}]]
      BY <1>1, <1>6, <2>1 DEF Typed
    <3> QED BY <1>1, <1>2, <1>6, <2>2, <3>1, <3>2 DEF Typed, Ended
  <2>4. userRow'[e] = User(r, s) /\ \A x \in Emails \ {e} : userRow'[x] = userRow[x]
    BY <1>1, <1>3, <1>6 DEF Typed
  <2>5. /\ userRow'[e].by = r /\ userRow'[e].company = s /\ userRow[e].by = None
        /\ None \notin committed
    BY <1>1, <1>6, <2>4, UserParts, NobodyIsNone DEF Typed, Assumed
  <2>6. \A x \in Slugs : slugRow[x] # r BY <1>1, <1>2, <1>3, OnlyFounding
  <2>7. \A x \in Emails : userRow[x].by # r BY <1>1, <1>2, <1>3, OnlyCommitting
  <2>8. Companies' = Companies \cup {} BY <1>2, <2>2, <2>6 DEF Companies
  <2>9. e \notin Employed BY <2>5 DEF Employed
  <2>10. Employed' = Employed \cup {e}
    <3>1. ASSUME NEW x \in Emails \ {e}
          PROVE  userRow'[x].by \in committed' <=> userRow[x].by \in committed
      <4>1. userRow'[x] = userRow[x] /\ userRow[x].by # r BY <2>4, <2>7
      <4> QED BY <2>2, <4>1
    <3>2. userRow'[e].by \in committed' BY <2>2, <2>5
    <3> QED BY <1>3, <3>1, <3>2 DEF Employed
  <2>11. Appears(s, e, {}) BY <2>4, <2>5, <2>8, <2>9, <2>10 DEF Appears, Employed
  <2>12. {} \cup {e} = {e} /\ s \in Companies' BY <1>3, <2>8
  <2>13. /\ \A x \in Emails : userRow[x].by # None => userRow'[x] = userRow[x]
         /\ \A x \in Emails : userRow'[x].by # r => userRow'[x] = userRow[x]
    BY <2>4, <2>5
  <2>14. SetupInv'
    BY <1>2, <1>3, <1>6, <2>3, <2>11, <2>12, <2>13, CommittingKeeps
  <2> QED BY <2>11, <2>14
<1>7. CASE /\ userRow[e].by \in committed /\ pc' = [pc EXCEPT ![r] = "conflict"]
           /\ UNCHANGED <<userRow, committed, met>>
  <2>1. Typed' BY <1>1, <1>2, <1>7 DEF Typed, Ended
  <2>2. pc'[r] = "conflict" /\ \A q \in Requests \ {r} : pc'[q] = pc[q]
    BY <1>1, <1>7 DEF Typed
  <2>3. e \in met[r] BY <1>1, <1>2, <1>3, <1>7 DEF Informed, Names, Employed
  <2>4. Names' = Names BY <1>2, <1>7 DEF Names, Companies, Employed
  <2>5. Place(r)' BY <2>2 DEF Place, Founding, Joining, Ended
  <2>6. Informed(r)' BY <1>1, <1>2, <1>4, <1>7, <2>2, <2>3, <2>4 DEF Informed
  <2>7. Whole(r)' BY <1>1, <1>2 DEF Whole
  <2> QED BY <1>2, <1>7, <2>1, <2>2, <2>5, <2>6, <2>7, MovingKeeps
<1> QED BY <1>3, <1>5, <1>6, <1>7

(***************************************************************************)
(* Every step                                                              *)
(***************************************************************************)

\* What a step may show to everybody.
Shown ==
    \/ SameRows
    \/ \E s \in Slugs, e \in Emails :
          \/ s \notin Companies /\ Appears(s, e, {s})
          \/ s \in Companies /\ Appears(s, e, {})

LEMMA NextKeeps == ASSUME Assumed, SetupInv, [Next]_vars PROVE SetupInv' /\ Shown
<1>1. ASSUME NEW r \in Requests, NEW s \in Slugs, NEW e \in Emails, CreateCompany(r, s, e)
      PROVE  SetupInv' /\ SameRows
  BY <1>1, ArrivalKeeps DEF CreateCompany
<1>2. ASSUME NEW r \in Requests, NEW s \in Slugs \cup {None}, NEW e \in Emails,
             CreateCompanyUser(r, s, e)
      PROVE  SetupInv' /\ SameRows
  BY <1>2, ArrivalKeeps DEF CreateCompanyUser
<1>3. ASSUME NEW r \in Requests, ListCompanies(r) PROVE SetupInv' /\ SameRows
  BY <1>3, ArrivalKeeps DEF ListCompanies
<1>4. ASSUME NEW r \in Requests, InsertCompany(r) PROVE SetupInv' /\ SameRows
  BY <1>4, InsertCompanyKeeps
<1>5. ASSUME NEW r \in Requests, InsertAdmin(r) PROVE SetupInv' /\ SameRows
  BY <1>5, InsertAdminKeeps
<1>6. ASSUME NEW r \in Requests, CommitCompany(r) PROVE SetupInv' /\ Shown
  BY <1>6, CommitCompanyKeeps DEF Shown
<1>7. ASSUME NEW r \in Requests, CheckCompany(r) PROVE SetupInv' /\ SameRows
  BY <1>7, CheckCompanyKeeps
<1>8. ASSUME NEW r \in Requests, InsertUser(r) PROVE SetupInv' /\ Shown
  BY <1>8, InsertUserKeeps DEF Shown
<1>9. ASSUME NEW r \in Requests, ReadCompanies(r) PROVE SetupInv' /\ SameRows
  BY <1>9, ReadCompaniesKeeps
<1>10. ASSUME NEW r \in Requests, Fails(r) PROVE SetupInv' /\ SameRows
  BY <1>10, FailsKeeps
<1>11. CASE UNCHANGED vars
  <2>1. UNCHANGED <<slugRow, userRow, committed, pc, input, answer, met>>
    BY <1>11 DEF vars
  <2>2. SameRows BY <2>1, NoRowNoChange
  <2>3. Typed' /\ Held' /\ Staffed'
    BY <2>1 DEF SetupInv, Typed, Held, Staffed, Companies, Employed
  <2>4. \A r \in Requests : Place(r)' /\ Informed(r)' /\ Whole(r)'
    BY <2>1 DEF SetupInv, Place, Informed, Whole, Names, Companies, Employed
  <2> QED BY <2>2, <2>3, <2>4 DEF SetupInv, Shown
<1>12. SameRows => Shown BY DEF Shown
<1> QED
  BY <1>1, <1>2, <1>3, <1>4, <1>5, <1>6, <1>7, <1>8, <1>9, <1>10, <1>11, <1>12
     DEF Next, Steps, Quiet

LEMMA Invariance == ASSUME Assumed PROVE Spec => []SetupInv
<1>1. Init => SetupInv BY InitHolds
<1>2. SetupInv /\ [Next]_vars => SetupInv' BY NextKeeps
<1> QED BY <1>1, <1>2, PTL DEF Spec

(***************************************************************************)
(* The directory                                                           *)
(***************************************************************************)

Employer == [e \in Emails |-> IF e \in Employed THEN userRow[e].company ELSE None]

LEMMA InitRefines == ASSUME Assumed, Init PROVE Directory!Init
<1>1. Companies = {} /\ Employed = {} BY DEF Init, Companies, Employed
<1> QED BY <1>1 DEF Directory!Init

LEMMA ShownRefines == ASSUME Shown PROVE [Directory!Next]_(Directory!vars)
<1>1. Employed \subseteq Emails /\ Employed' \subseteq Emails BY DEF Employed
<1>2. CASE SameRows
  <2>1. Employer' = Employer BY <1>1, <1>2 DEF Employer, SameRows
  <2> QED BY <1>2, <2>1 DEF SameRows, Employer, Directory!vars
<1>3. ASSUME NEW s \in Slugs, NEW e \in Emails, NEW new, Appears(s, e, new)
      PROVE  /\ Directory!Hire(s, e) /\ Companies' = Companies \cup new
  <2>1. Employer[e] = None BY <1>3 DEF Appears, Employer
  <2>2. Employer' = [Employer EXCEPT ![e] = s]
    <3>1. Employer'[e] = s BY <1>3 DEF Appears, Employer
    <3>2. \A x \in Emails \ {e} : Employer'[x] = Employer[x]
      BY <1>3 DEF Appears, Employer
    <3> QED BY <3>1, <3>2 DEF Employer
  <2> QED BY <1>3, <2>1, <2>2 DEF Appears, Employer, Directory!Hire
<1>4. ASSUME NEW s \in Slugs, NEW e \in Emails, s \notin Companies, Appears(s, e, {s})
      PROVE  Directory!Next
  BY <1>3, <1>4 DEF Directory!Next, Directory!Found
<1>5. ASSUME NEW s \in Slugs, NEW e \in Emails, s \in Companies, Appears(s, e, {})
      PROVE  Directory!Next
  <2>1. Directory!Hire(s, e) /\ Companies' = Companies BY <1>3, <1>5
  <2> QED BY <1>5, <2>1 DEF Directory!Next, Directory!Join
<1> QED BY <1>2, <1>4, <1>5 DEF Shown

(***************************************************************************)
(* Theorems                                                                *)
(***************************************************************************)

\* CreateCompany and CreateCompanyUser, interleaved and failing anywhere, show
\* what CompanyDirectory promises: a company with its first user at once,
\* each slug and e-mail once, and nothing that disappears.
THEOREM SetupIsDirectory == ASSUME Assumed PROVE Spec => ImplementsDirectory
<1>1. Init => Directory!Init BY InitRefines
<1>2. SetupInv /\ [Next]_vars => [Directory!Next]_(Directory!vars)
  BY NextKeeps, ShownRefines
<1> QED BY <1>1, <1>2, Invariance, PTL DEF Spec, ImplementsDirectory, Directory!Spec

\* A conflict is answered only for a slug or an e-mail that was committed.
THEOREM ConflictsHaveReasons == ASSUME Assumed PROVE Spec => []ConflictsAreReal
<1>1. SetupInv => ConflictsAreReal BY DEF SetupInv, Informed, ConflictsAreReal
<1> QED BY <1>1, Invariance, PTL

\* ListCompanies never shows a company without a user.
THEOREM ListsAlwaysWhole == ASSUME Assumed PROVE Spec => []ListsAreWhole
<1>1. SetupInv => ListsAreWhole BY DEF SetupInv, Whole, ListsAreWhole
<1> QED BY <1>1, Invariance, PTL
=============================================================================
