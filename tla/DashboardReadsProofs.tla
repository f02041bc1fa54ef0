------------------------ MODULE DashboardReadsProofs ------------------------
(***************************************************************************)
(* That an answer shows only what its reader may see, for any readers,     *)
(* dashboards, requests and times to live.                                 *)
(***************************************************************************)
EXTENDS DashboardReads, TLAPS

(***************************************************************************)
(* The inductive invariant                                                 *)
(***************************************************************************)

\* The dashboards a request may be about.
About(w) == IF w = AllOfThem THEN Dashboards ELSE {w}

\* A request reads, and has read, what its reader could see; one that got as
\* far as Redis and names a dashboard could see that one.
SoundRequest(q) ==
    /\ q.pc # "idle" => q.kind \in Kinds
    /\ q.pc \in {"looking", "reading"} =>
            /\ q.todo \subseteq q.had[q.reader] /\ q.todo \subseteq About(q.want)
            /\ DOMAIN q.answer \subseteq q.had[q.reader]
            /\ DOMAIN q.answer \subseteq About(q.want)
    /\ q.pc = "looking" /\ q.want # AllOfThem => q.want \in q.had[q.reader]
    /\ q.pc = "answered" =>
            /\ DOMAIN q.answer \subseteq q.since[q.reader]
            /\ q.want # AllOfThem => DOMAIN q.answer \subseteq q.had[q.reader]

\* An entry is about its key, and its key's reader could see it.
SoundEntry(k, e) ==
    /\ e.age < TTL[k.kind]
    /\ DOMAIN e.answer \subseteq e.had[k.scope]
    /\ DOMAIN e.answer \subseteq About(k.want)

World ==
    /\ linked \in [Collaborators -> SUBSET Dashboards]
    /\ blocked \subseteq Collaborators \X Dashboards
    /\ stored \in [Dashboards -> 1 .. MaxVersions \cup {NoRow}]

Entries ==
    /\ cache \in [Keys -> EntryRecord \cup {NoEntry}]
    /\ \A k \in Keys : cache[k] # NoEntry => SoundEntry(k, cache[k])

Serving ==
    /\ req \in [Requests -> RequestRecord]
    /\ \A r \in Requests : SoundRequest(req[r])

ReadsInv == World /\ Entries /\ Serving

(***************************************************************************)
(* Answers                                                                 *)
(***************************************************************************)

\* A function from dashboards to figures is an answer, and only such are.
LEMMA AnswerIs ==
    \A f : f \in Answers <=> DOMAIN f \subseteq Dashboards /\ f \in [DOMAIN f -> Figures]
<1> TAKE f
<1>1. ASSUME f \in Answers
      PROVE  DOMAIN f \subseteq Dashboards /\ f \in [DOMAIN f -> Figures]
  <2>1. PICK D \in SUBSET Dashboards : f \in [D -> Figures]
      BY <1>1 DEF Answers
  <2> QED
      BY <2>1
<1>2. ASSUME DOMAIN f \subseteq Dashboards, f \in [DOMAIN f -> Figures]
      PROVE  f \in Answers
  <2>1. DOMAIN f \in SUBSET Dashboards
      BY <1>2
  <2> QED
      BY <1>2, <2>1 DEF Answers
<1> QED
    BY <1>1, <1>2

\* The empty answer.
LEMMA NothingIs == Nothing \in Answers /\ DOMAIN Nothing = {}
<1>1. DOMAIN Nothing = {} /\ Nothing \in [DOMAIN Nothing -> Figures]
    BY DEF Nothing
<1> QED
    BY <1>1, AnswerIs

\* What readers can see are dashboards.
LEMMA SightsAre ==
    ASSUME NEW l \in [Collaborators -> SUBSET Dashboards], NEW b, NEW u \in Readers
    PROVE  Visible(u, l, b) \in SUBSET Dashboards
BY DEF Visible, Readers

(***************************************************************************)
(* Preservation                                                            *)
(***************************************************************************)

\* A step of one request that leaves Redis alone.
LEMMA RequestStep ==
    ASSUME ReadsInv, NEW r \in Requests, NEW q \in RequestRecord, SoundRequest(q),
           req' = [req EXCEPT ![r] = q], UNCHANGED <<linked, blocked, stored, cache>>
    PROVE  ReadsInv'
<1>1. World' /\ Entries'
    BY DEF ReadsInv, World, Entries
<1>2. req' \in [Requests -> RequestRecord]
    BY DEF ReadsInv, Serving
<1>3. \A s \in Requests : req'[s] = IF s = r THEN q ELSE req[s]
    BY DEF ReadsInv, Serving
<1>4. \A s \in Requests : SoundRequest(req'[s])
    BY <1>3 DEF ReadsInv, Serving
<1> QED
    BY <1>1, <1>2, <1>4 DEF ReadsInv, Serving

\* No request at all is sound.
LEMMA IdleIs == Idle \in RequestRecord /\ SoundRequest(Idle)
<1>1. [u \in Readers |-> {}] \in Sights /\ Staff \in Readers /\ AllOfThem \in Wants
    BY DEF Sights, Readers, Wants
<1> QED
    BY <1>1, NothingIs DEF Idle, RequestRecord, SoundRequest

\* A request begins.
LEMMA BeginKeeps ==
    ASSUME ReadsInv, NEW r \in Requests, NEW u \in Readers, NEW k \in Kinds,
           NEW w \in Wants, Begin(r, u, k, w)
    PROVE  ReadsInv'
<1> DEFINE had == [v \in Readers |-> Accessible(v)]
           q == [pc |-> IF Selected(u, w) = {} THEN "answered" ELSE "looking",
                 reader |-> u, kind |-> k, want |-> w,
                 todo |-> Selected(u, w), answer |-> Nothing,
                 had |-> had, since |-> [v \in Readers |-> {}]]
<1>1. had \in Sights /\ [v \in Readers |-> {}] \in Sights
    BY SightsAre DEF Sights, Accessible, ReadsInv, World
<1>2. had[u] = Accessible(u)
    OBVIOUS
<1>3. Selected(u, w) \subseteq Accessible(u) /\ Selected(u, w) \subseteq About(w)
    BY SightsAre DEF Selected, About, Accessible, ReadsInv, World
<1>4. Accessible(u) \subseteq Dashboards
    BY SightsAre DEF Accessible, ReadsInv, World
<1>5. Selected(u, w) # {} /\ w # AllOfThem => w \in Accessible(u)
    BY DEF Selected
<1> HIDE DEF had
<1>6. q \in RequestRecord
    BY <1>1, <1>3, <1>4, NothingIs DEF RequestRecord
<1>7. SoundRequest(q)
    BY <1>2, <1>3, <1>5, NothingIs DEF SoundRequest
<1>8. req' = [req EXCEPT ![r] = q] /\ UNCHANGED <<linked, blocked, stored, cache>>
    BY DEF Begin, had
<1> HIDE DEF q
<1> QED
    BY <1>6, <1>7, <1>8, RequestStep

\* A request goes on, and Redis is left alone.
LEMMA MovesKeeps ==
    ASSUME ReadsInv, NEW r \in Requests, NEW pc, NEW todo \in SUBSET Dashboards,
           NEW answer \in Answers, NEW since \in Sights,
           pc \in {"reading", "answered"}, req[r].pc # "idle",
           pc = "reading" =>
                /\ todo \cup DOMAIN answer \subseteq req[r].had[req[r].reader]
                /\ todo \cup DOMAIN answer \subseteq About(req[r].want),
           pc = "answered" =>
                /\ DOMAIN answer \subseteq since[req[r].reader]
                /\ req[r].want # AllOfThem =>
                        DOMAIN answer \subseteq req[r].had[req[r].reader]
    PROVE  LET q == [pc |-> pc, reader |-> req[r].reader, kind |-> req[r].kind,
                     want |-> req[r].want, todo |-> todo, answer |-> answer,
                     had |-> req[r].had, since |-> since]
           IN  q \in RequestRecord /\ SoundRequest(q)
BY DEF ReadsInv, Serving, RequestRecord, SoundRequest

\* The steps of a request under way that leave Redis alone.
LEMMA HitKeeps ==
    ASSUME ReadsInv, NEW r \in Requests, Hit(r)
    PROVE  ReadsInv'
<1> DEFINE k == KeyOf(req[r])
<1>1. req[r] \in RequestRecord /\ SoundRequest(req[r]) /\ req[r].pc = "looking"
    BY DEF ReadsInv, Serving, Hit
<1>2. k \in Keys /\ k.scope = req[r].reader /\ k.want = req[r].want
    BY <1>1 DEF KeyOf, Keys, RequestRecord, SoundRequest
<1>3. cache[k] # NoEntry
    BY DEF Hit
<1> HIDE DEF k
<1>4. cache[k] \in EntryRecord /\ SoundEntry(k, cache[k])
    BY <1>2, <1>3 DEF ReadsInv, Entries
<1>5. /\ cache[k].answer \in Answers /\ cache[k].had \in Sights
      /\ DOMAIN cache[k].answer \subseteq cache[k].had[req[r].reader]
      /\ DOMAIN cache[k].answer \subseteq About(req[r].want)
    BY <1>2, <1>4 DEF EntryRecord, SoundEntry
<1>6. req[r].want # AllOfThem =>
            DOMAIN cache[k].answer \subseteq req[r].had[req[r].reader]
    BY <1>1, <1>5 DEF About, SoundRequest
<1> DEFINE q == [pc |-> "answered", reader |-> req[r].reader, kind |-> req[r].kind,
                 want |-> req[r].want, todo |-> {}, answer |-> cache[k].answer,
                 had |-> req[r].had, since |-> cache[k].had]
<1>7. q \in RequestRecord /\ SoundRequest(q)
    BY <1>1, <1>5, <1>6, MovesKeeps
<1>8. req' = [req EXCEPT ![r] = q] /\ UNCHANGED <<linked, blocked, stored, cache>>
    BY DEF Hit, Moves, k
<1> HIDE DEF q
<1> QED
    BY <1>7, <1>8, RequestStep

LEMMA MissKeeps ==
    ASSUME ReadsInv, NEW r \in Requests, Miss(r)
    PROVE  ReadsInv'
<1>1. req[r] \in RequestRecord /\ SoundRequest(req[r]) /\ req[r].pc = "looking"
    BY DEF ReadsInv, Serving, Miss
<1> DEFINE q == [pc |-> "reading", reader |-> req[r].reader, kind |-> req[r].kind,
                 want |-> req[r].want, todo |-> req[r].todo, answer |-> Nothing,
                 had |-> req[r].had, since |-> req[r].since]
<1>2. req[r].todo \in SUBSET Dashboards /\ req[r].since \in Sights
    BY <1>1 DEF RequestRecord
<1>3. /\ req[r].todo \cup DOMAIN Nothing \subseteq req[r].had[req[r].reader]
      /\ req[r].todo \cup DOMAIN Nothing \subseteq About(req[r].want)
    BY <1>1, NothingIs DEF SoundRequest
<1>4. q \in RequestRecord /\ SoundRequest(q)
    BY <1>1, <1>2, <1>3, NothingIs, MovesKeeps
<1>5. req' = [req EXCEPT ![r] = q] /\ UNCHANGED <<linked, blocked, stored, cache>>
    BY DEF Miss, Moves
<1> HIDE DEF q
<1> QED
    BY <1>4, <1>5, RequestStep

LEMMA ReadRowKeeps ==
    ASSUME ReadsInv, NEW r \in Requests, NEW d \in Dashboards, ReadRow(r, d)
    PROVE  ReadsInv'
<1>0. PICK f \in {Unstored} \cup ({stored[d]} \ {NoRow}) :
        Moves(r, "reading", req[r].todo \ {d},
              [e \in DOMAIN req[r].answer \cup {d} |->
                    IF e = d THEN f ELSE req[r].answer[e]],
              req[r].since)
    BY DEF ReadRow
<1> DEFINE figure(e) == IF e = d THEN f ELSE req[r].answer[e]
           answer == [e \in DOMAIN req[r].answer \cup {d} |-> figure(e)]
           q == [pc |-> "reading", reader |-> req[r].reader, kind |-> req[r].kind,
                 want |-> req[r].want, todo |-> req[r].todo \ {d}, answer |-> answer,
                 had |-> req[r].had, since |-> req[r].since]
<1>1. req[r] \in RequestRecord /\ SoundRequest(req[r]) /\ req[r].pc = "reading"
      /\ d \in req[r].todo
    BY DEF ReadsInv, Serving, ReadRow
<1>2. req[r].todo \in SUBSET Dashboards /\ req[r].since \in Sights
      /\ req[r].answer \in Answers
    BY <1>1 DEF RequestRecord
<1>3. DOMAIN req[r].answer \subseteq Dashboards
      /\ req[r].answer \in [DOMAIN req[r].answer -> Figures]
    BY <1>2, AnswerIs
<1>4. \A e \in DOMAIN req[r].answer \cup {d} : figure(e) \in Figures
    BY <1>3 DEF ReadsInv, World, Figures
<1>5. DOMAIN answer = DOMAIN req[r].answer \cup {d}
    OBVIOUS
<1> HIDE DEF figure
<1>6. answer \in [DOMAIN answer -> Figures]
    BY <1>4, <1>5
<1>7. req' = [req EXCEPT ![r] = q] /\ UNCHANGED <<linked, blocked, stored, cache>>
    BY <1>0 DEF ReadRow, Moves, figure
<1> HIDE DEF answer
<1>8. answer \in Answers
    BY <1>3, <1>5, <1>6, AnswerIs
<1>9. req[r].todo \ {d} \in SUBSET Dashboards
    BY <1>2
<1>10. /\ (req[r].todo \ {d}) \cup DOMAIN answer \subseteq req[r].had[req[r].reader]
       /\ (req[r].todo \ {d}) \cup DOMAIN answer \subseteq About(req[r].want)
    BY <1>1, <1>5 DEF SoundRequest
<1>11. q \in RequestRecord /\ SoundRequest(q)
    BY <1>1, <1>2, <1>8, <1>9, <1>10, MovesKeeps
<1> HIDE DEF q
<1> QED
    BY <1>7, <1>11, RequestStep

LEMMA ReadPointsKeeps ==
    ASSUME ReadsInv, NEW r \in Requests, ReadPoints(r)
    PROVE  ReadsInv'
<1> DEFINE found == {e \in req[r].todo : stored[e] # NoRow}
           answer == [d \in found |-> stored[d]]
           q == [pc |-> "reading", reader |-> req[r].reader, kind |-> req[r].kind,
                 want |-> req[r].want, todo |-> {}, answer |-> answer,
                 had |-> req[r].had, since |-> req[r].since]
<1>1. req[r] \in RequestRecord /\ SoundRequest(req[r]) /\ req[r].pc = "reading"
    BY DEF ReadsInv, Serving, ReadPoints
<1>2. found \subseteq Dashboards /\ found \subseteq req[r].todo /\ req[r].since \in Sights
    BY <1>1 DEF RequestRecord
<1>3. \A d \in found : stored[d] \in Figures
    BY <1>2 DEF ReadsInv, World, Figures
<1>4. req' = [req EXCEPT ![r] = q] /\ UNCHANGED <<linked, blocked, stored, cache>>
    BY DEF ReadPoints, Moves
<1>5. DOMAIN answer = found
    OBVIOUS
<1> HIDE DEF found
<1>6. answer \in [DOMAIN answer -> Figures]
    BY <1>3, <1>5
<1> HIDE DEF answer
<1>7. answer \in Answers
    BY <1>2, <1>5, <1>6, AnswerIs
<1>8. /\ {} \cup DOMAIN answer \subseteq req[r].had[req[r].reader]
      /\ {} \cup DOMAIN answer \subseteq About(req[r].want)
    BY <1>1, <1>2, <1>5 DEF SoundRequest
<1>9. q \in RequestRecord /\ SoundRequest(q)
    BY <1>1, <1>2, <1>7, <1>8, MovesKeeps
<1> HIDE DEF q
<1> QED
    BY <1>4, <1>9, RequestStep

\* A request that ends, well or not.
LEMMA EndKeeps ==
    ASSUME ReadsInv, NEW r \in Requests, PointsFail(r) \/ Done(r)
    PROVE  ReadsInv'
<1>1. req' = [req EXCEPT ![r] = Idle] /\ UNCHANGED <<linked, blocked, stored, cache>>
    BY DEF PointsFail, Done
<1> QED
    BY <1>1, IdleIs, RequestStep

\* A computed answer is sound for the request and for the key it is kept under.
LEMMA AnswerKeeps ==
    ASSUME ReadsInv, ReadsAssumption, NEW r \in Requests, Answer(r)
    PROVE  ReadsInv'
<1> DEFINE k == KeyOf(req[r])
           e == Entry(req[r].answer, 0, req[r].had)
           q == [pc |-> "answered", reader |-> req[r].reader, kind |-> req[r].kind,
                 want |-> req[r].want, todo |-> {}, answer |-> req[r].answer,
                 had |-> req[r].had, since |-> req[r].had]
<1>1. req[r] \in RequestRecord /\ SoundRequest(req[r]) /\ req[r].pc = "reading"
    BY DEF ReadsInv, Serving, Answer
<1>2. k \in Keys /\ k.scope = req[r].reader /\ k.want = req[r].want
      /\ k.kind = req[r].kind /\ k.kind \in Kinds
    BY <1>1 DEF KeyOf, Keys, RequestRecord, SoundRequest
<1>3. req' = [req EXCEPT ![r] = q] /\ UNCHANGED <<linked, blocked, stored>>
    BY DEF Answer, Moves
<1>4. cache' = cache \/ cache' = [cache EXCEPT ![k] = e]
    BY DEF Answer
<1>5. req[r].answer \in Answers /\ req[r].had \in Sights
    BY <1>1 DEF RequestRecord
<1>6. DOMAIN req[r].answer \subseteq req[r].had[req[r].reader]
      /\ DOMAIN req[r].answer \subseteq About(req[r].want)
    BY <1>1 DEF SoundRequest
<1>7. q \in RequestRecord /\ SoundRequest(q)
    BY <1>1, <1>5, <1>6, MovesKeeps
<1> HIDE DEF k
<1>8. TTL[k.kind] \in Nat \ {0}
    BY <1>2 DEF ReadsAssumption
<1>9. e \in EntryRecord /\ SoundEntry(k, e)
    BY <1>2, <1>5, <1>6, <1>8 DEF Entry, EntryRecord, SoundEntry
<1> HIDE DEF e, q
<1>10. World'
    BY <1>3 DEF ReadsInv, World
<1>11. Serving'
  <2>1. req' \in [Requests -> RequestRecord]
      BY <1>3, <1>7 DEF ReadsInv, Serving
  <2>2. \A s \in Requests : req'[s] = IF s = r THEN q ELSE req[s]
      BY <1>3 DEF ReadsInv, Serving
  <2> QED
      BY <1>7, <2>1, <2>2 DEF ReadsInv, Serving
<1>12. Entries'
  <2>1. CASE cache' = cache
      BY <2>1 DEF ReadsInv, Entries
  <2>2. CASE cache' = [cache EXCEPT ![k] = e]
    <3>1. cache' \in [Keys -> EntryRecord \cup {NoEntry}]
        BY <1>9, <2>2 DEF ReadsInv, Entries
    <3>2. \A j \in Keys : cache'[j] = IF j = k THEN e ELSE cache[j]
        BY <2>2 DEF ReadsInv, Entries
    <3> QED
        BY <1>9, <3>1, <3>2 DEF ReadsInv, Entries
  <2> QED
      BY <1>4, <2>1, <2>2
<1> QED
    BY <1>10, <1>11, <1>12 DEF ReadsInv

\* A request under way stays sound when its reader has seen more.
LEMMA HadGrows ==
    ASSUME NEW q \in RequestRecord, SoundRequest(q), NEW h \in Sights,
           q.had[q.reader] \subseteq h[q.reader], q.pc \notin {"idle", "answered"}
    PROVE  LET p == [pc |-> q.pc, reader |-> q.reader, kind |-> q.kind,
                     want |-> q.want, todo |-> q.todo, answer |-> q.answer,
                     had |-> h, since |-> q.since]
           IN  p \in RequestRecord /\ SoundRequest(p)
BY DEF RequestRecord, SoundRequest

\* What becomes visible adds to the histories and changes nothing else.
LEMMA NotedKeeps ==
    ASSUME ReadsInv, NEW l \in [Collaborators -> SUBSET Dashboards], NEW b, Noted(l, b)
    PROVE  Entries' /\ Serving'
<1>1. \A h \in Sights : /\ WithSeen(h, l, b) \in Sights
                        /\ \A u \in Readers : h[u] \subseteq WithSeen(h, l, b)[u]
    BY SightsAre DEF Sights, WithSeen
<1>2. Entries'
  <2>1. ASSUME NEW k \in Keys, cache[k] # NoEntry
        PROVE  cache'[k] \in EntryRecord /\ SoundEntry(k, cache'[k])
    <3>1. cache'[k] = Entry(cache[k].answer, cache[k].age, WithSeen(cache[k].had, l, b))
        BY <2>1 DEF Noted
    <3>2. cache[k] \in EntryRecord /\ SoundEntry(k, cache[k])
        BY <2>1 DEF ReadsInv, Entries
    <3>3. k.scope \in Readers
        BY DEF Keys
    <3>4. /\ WithSeen(cache[k].had, l, b) \in Sights
          /\ cache[k].had[k.scope] \subseteq WithSeen(cache[k].had, l, b)[k.scope]
        BY <1>1, <3>2, <3>3 DEF EntryRecord
    <3> QED
        BY <3>1, <3>2, <3>4 DEF Entry, EntryRecord, SoundEntry
  <2>2. \A k \in Keys : cache[k] = NoEntry => cache'[k] = NoEntry
      BY DEF Noted
  <2>3. DOMAIN cache' = Keys /\ cache' = [k \in Keys |-> cache'[k]]
      BY DEF Noted
  <2>4. \A k \in Keys : cache'[k] \in EntryRecord \cup {NoEntry}
      BY <2>1, <2>2
  <2>5. cache' \in [Keys -> EntryRecord \cup {NoEntry}]
      BY <2>3, <2>4
  <2> QED
      BY <2>1, <2>2, <2>5 DEF Entries
<1>3. Serving'
  <2>1. ASSUME NEW r \in Requests
        PROVE  req'[r] \in RequestRecord /\ SoundRequest(req'[r])
    <3>1. req[r] \in RequestRecord /\ SoundRequest(req[r])
        BY DEF ReadsInv, Serving
    <3>2. CASE req[r].pc \in {"idle", "answered"}
        BY <3>1, <3>2 DEF Noted
    <3>3. CASE req[r].pc \notin {"idle", "answered"}
      <4>1. req'[r] = [pc |-> req[r].pc, reader |-> req[r].reader,
                       kind |-> req[r].kind, want |-> req[r].want,
                       todo |-> req[r].todo, answer |-> req[r].answer,
                       had |-> WithSeen(req[r].had, l, b), since |-> req[r].since]
          BY <3>3 DEF Noted
      <4>2. req[r].had \in Sights /\ req[r].reader \in Readers
          BY <3>1 DEF RequestRecord
      <4>3. /\ WithSeen(req[r].had, l, b) \in Sights
            /\ req[r].had[req[r].reader]
                    \subseteq WithSeen(req[r].had, l, b)[req[r].reader]
          BY <1>1, <4>2
      <4> QED
          BY <3>1, <3>3, <4>1, <4>3, HadGrows
    <3> QED
        BY <3>2, <3>3
  <2>2. req' = [r \in Requests |-> req'[r]]
      BY DEF Noted
  <2> QED
      BY <2>1, <2>2 DEF Serving
<1> QED
    BY <1>2, <1>3

\* Administrators, syncs, the summary job and the clock.
LEMMA OthersKeep ==
    ASSUME ReadsInv, ReadsAssumption,
           \/ \E u \in Collaborators, d \in Dashboards :
                    Block(u, d) \/ Allow(u, d) \/ Link(u, d)
           \/ \E d \in Dashboards : StoreSummary(d)
    PROVE  ReadsInv'
<1>1. ASSUME NEW u \in Collaborators, NEW d \in Dashboards, Block(u, d)
      PROVE  ReadsInv'
  <2>1. blocked' \subseteq Collaborators \X Dashboards
      BY <1>1 DEF Block, ReadsInv, World
  <2>2. UNCHANGED <<linked, stored, cache, req>>
      BY <1>1 DEF Block
  <2> QED
      BY <2>1, <2>2 DEF ReadsInv, World, Entries, Serving
<1>2. ASSUME NEW u \in Collaborators, NEW d \in Dashboards, Allow(u, d)
      PROVE  ReadsInv'
  <2>1. Entries' /\ Serving'
      BY <1>2, NotedKeeps DEF Allow, ReadsInv, World
  <2>2. World'
      BY <1>2 DEF Allow, ReadsInv, World
  <2> QED
      BY <2>1, <2>2 DEF ReadsInv
<1>3. ASSUME NEW u \in Collaborators, NEW d \in Dashboards, Link(u, d)
      PROVE  ReadsInv'
  <2>1. linked' \in [Collaborators -> SUBSET Dashboards]
      BY <1>3 DEF Link, ReadsInv, World
  <2>2. Entries' /\ Serving'
      BY <1>3, <2>1, NotedKeeps DEF Link
  <2>3. World'
      BY <1>3, <2>1 DEF Link, ReadsInv, World
  <2> QED
      BY <2>2, <2>3 DEF ReadsInv
<1>4. ASSUME NEW d \in Dashboards, StoreSummary(d)
      PROVE  ReadsInv'
  <2>1. stored' = [stored EXCEPT ![d] = IF stored[d] = NoRow THEN 1 ELSE stored[d] + 1]
        /\ UNCHANGED <<linked, blocked, cache, req>> /\ stored[d] # MaxVersions
      BY <1>4 DEF StoreSummary
  <2>2. stored[d] \in 1 .. MaxVersions \cup {NoRow} /\ MaxVersions \in Nat \ {0}
      BY DEF ReadsInv, World, ReadsAssumption
  <2>3. (IF stored[d] = NoRow THEN 1 ELSE stored[d] + 1) \in 1 .. MaxVersions
      BY <2>1, <2>2
  <2>4. World'
      BY <2>1, <2>3 DEF ReadsInv, World
  <2> QED
      BY <2>1, <2>4 DEF ReadsInv, Entries, Serving
<1> QED
    BY <1>1, <1>2, <1>3, <1>4

LEMMA TickKeeps ==
    ASSUME ReadsInv, ReadsAssumption, Tick
    PROVE  ReadsInv'
<1>1. ASSUME NEW k \in Keys
      PROVE  /\ cache'[k] \in EntryRecord \cup {NoEntry}
             /\ cache'[k] # NoEntry => SoundEntry(k, cache'[k])
  <2>1. CASE cache[k] = NoEntry \/ cache[k].age + 1 >= TTL[k.kind]
      BY <2>1 DEF Tick
  <2>2. CASE ~(cache[k] = NoEntry \/ cache[k].age + 1 >= TTL[k.kind])
    <3>1. cache'[k] = Entry(cache[k].answer, cache[k].age + 1, cache[k].had)
        BY <2>2 DEF Tick
    <3>2. cache[k] \in EntryRecord /\ SoundEntry(k, cache[k])
        BY <2>2 DEF ReadsInv, Entries
    <3>3. TTL[k.kind] \in Nat
        BY DEF Keys, ReadsAssumption
    <3>4. cache[k].age + 1 \in Nat /\ cache[k].age + 1 < TTL[k.kind]
        BY <2>2, <3>2, <3>3 DEF EntryRecord
    <3> QED
        BY <3>1, <3>2, <3>4 DEF Entry, EntryRecord, SoundEntry
  <2> QED
      BY <2>1, <2>2
<1>2. cache' = [k \in Keys |-> cache'[k]] /\ UNCHANGED <<linked, blocked, stored, req>>
    BY DEF Tick
<1>3. Entries'
    BY <1>1, <1>2 DEF Entries
<1> QED
    BY <1>2, <1>3 DEF ReadsInv, World, Serving

(***************************************************************************)
(* Theorems                                                                *)
(***************************************************************************)

\* Nobody is linked or asks anything when the company is set up.
LEMMA InitSound == Init => ReadsInv
<1> SUFFICES ASSUME Init PROVE ReadsInv
    OBVIOUS
<1>1. World
    BY DEF Init, World
<1>2. Entries
    BY DEF Init, Entries
<1>3. Serving
    BY IdleIs DEF Init, Serving
<1> QED
    BY <1>1, <1>2, <1>3 DEF ReadsInv

LEMMA NextKeeps == ReadsInv /\ [Next]_vars => ReadsInv'
<1> SUFFICES ASSUME ReadsInv, [Next]_vars PROVE ReadsInv'
    OBVIOUS
<1>1. ASSUME NEW r \in Requests, NEW u \in Readers, NEW k \in Kinds, NEW w \in Wants,
             Begin(r, u, k, w)
      PROVE  ReadsInv'
    BY <1>1, BeginKeeps
<1>2. ASSUME NEW r \in Requests, Serve(r)
      PROVE  ReadsInv'
    BY <1>2, ReadsAssumption, HitKeeps, MissKeeps, ReadRowKeeps, ReadPointsKeeps,
       EndKeeps, AnswerKeeps DEF Serve
<1>3. CASE \E u \in Collaborators, d \in Dashboards :
                Block(u, d) \/ Allow(u, d) \/ Link(u, d)
    BY <1>3, ReadsAssumption, OthersKeep
<1>4. CASE \E d \in Dashboards : StoreSummary(d)
    BY <1>4, ReadsAssumption, OthersKeep
<1>5. CASE Tick
    BY <1>5, ReadsAssumption, TickKeeps
<1>6. CASE UNCHANGED vars
    BY <1>6 DEF vars, ReadsInv, World, Entries, Serving
<1> QED
    BY <1>1, <1>2, <1>3, <1>4, <1>5, <1>6 DEF Next

LEMMA AlwaysSound == Spec => []ReadsInv
<1> QED
    BY InitSound, NextKeeps, PTL DEF Spec

\* Every variable has its type and Redis keeps nothing beyond its time.
THEOREM ReadsTyped == Spec => []TypeOK
<1>1. ReadsInv => TypeOK
    BY DEF ReadsInv, World, Entries, Serving, SoundEntry, TypeOK
<1> QED
    BY <1>1, AlwaysSound, PTL

\* An answer shows only what its own reader could see since the request it
\* comes from began, whoever else shares Redis.
THEOREM AlwaysOwnScope == Spec => []OwnScope
<1>1. ReadsInv => OwnScope
    BY DEF ReadsInv, Serving, SoundRequest, OwnScope, Shown
<1> QED
    BY <1>1, AlwaysSound, PTL

\* A named dashboard is shown only to those who could see it during this
\* request, whatever Redis still holds.
THEOREM AlwaysCheckedEachTime == Spec => []CheckedEachTime
<1>1. ReadsInv => CheckedEachTime
    BY DEF ReadsInv, Serving, SoundRequest, CheckedEachTime, Shown
<1> QED
    BY <1>1, AlwaysSound, PTL
=============================================================================
