----------------------- MODULE CommissionPaymentProofs -----------------------
(***************************************************************************)
(* That nobody's entry goes astray: every commission entry has its         *)
(* snapshot, whoever a sync paid is paid on the figures of the snapshot it *)
(* wrote, and a backfill changes no committed entry.  None of the three is *)
(* inductive: a rollback, or another transaction's commit, preserves them  *)
(* only because of what the open transactions hold, which PayInv describes.*)
(*                                                                         *)
(* Then, from what a writing sync holds of its batch, that a day changes   *)
(* as a whole and, once it is over and nobody holds it, no more, but for   *)
(* what a backfill adds for its own collaborator.                          *)
(***************************************************************************)
EXTENDS CommissionSyncProofs

(***************************************************************************)
(* The inductive invariant                                                 *)
(***************************************************************************)

\* The lock on the niche row: one sync at a time writes.
NicheLock ==
    \A s, t \in Syncs :
        sync[s].pc \in SyncWritingPCs /\ sync[t].pc \in SyncWritingPCs => s = t

\* Only an open transaction holds rows; a backfill holds no snapshot, and
\* entries only after its second statement; it backfills an existing user.
OpenWrites ==
    /\ \A s \in Syncs : sync[s].pc \notin SyncWritingPCs =>
            /\ DOMAIN tx[s].snapshots = {}
            /\ DOMAIN tx[s].entries = {}
    /\ \A u \in Users :
            /\ DOMAIN tx[u].snapshots = {}
            /\ link[u].pc # "priced" => DOMAIN tx[u].entries = {}
            /\ u \notin DOMAIN users => link[u].pc = "none"

\* No two transactions hold the same entry, and a backfill holds none that
\* is committed.
EntriesApart ==
    /\ \A p, q \in Processes :
            p # q => DOMAIN tx[p].entries \cap DOMAIN tx[q].entries = {}
    /\ \A u \in Users : DOMAIN tx[u].entries \cap DOMAIN db.entries = {}

\* Entries on their way have their snapshot: committed, for a backfill, and
\* in the same transaction for a sync.
EntriesGrounded ==
    /\ \A s \in Syncs : \A e \in DOMAIN tx[s].entries :
            SnapshotOf(e) \in DOMAIN tx[s].snapshots
    /\ \A u \in Users : \A e \in DOMAIN tx[u].entries \cup DOMAIN link[u].nets :
            SnapshotOf(e) \in DOMAIN db.snapshots
    /\ \A s \in Syncs : sync[s].pc = "paying" =>
            \A e \in DOMAIN sync[s].entries :
                /\ SnapshotOf(e) \in DOMAIN tx[s].snapshots
                /\ sync[s].entries[e].base = tx[s].snapshots[SnapshotOf(e)].net

\* The payees of a snapshot a sync has written are paid, or about to be.
PaidOrPaying ==
    \A s \in Syncs : \A k \in DOMAIN tx[s].snapshots :
        \A p \in tx[s].snapshots[k].payees :
            \/ /\ EntryOf(k, p) \in DOMAIN tx[s].entries
               /\ tx[s].entries[EntryOf(k, p)].base = tx[s].snapshots[k].net
            \/ /\ sync[s].pc = "paying"
               /\ EntryOf(k, p) \in DOMAIN sync[s].entries

PayInv ==
    /\ NicheLock
    /\ OpenWrites
    /\ EntriesApart
    /\ EntriesGrounded
    /\ PaidOrPaying
    /\ EntriesHaveSnapshots
    /\ PaidOnSnapshot

(***************************************************************************)
(* Facts about tables                                                      *)
(***************************************************************************)

\* The entry of a snapshot's payee is about that snapshot.
LEMMA PayeeEntry ==
    ASSUME NEW k \in SnapshotKey, NEW p
    PROVE  SnapshotOf(EntryOf(k, p)) = k
BY DEF SnapshotOf, EntryOf, SnapshotKey

\* What a commit or a later statement leaves in two of the tables.
LEMMA OverRows ==
    ASSUME NEW new, NEW old
    PROVE  /\ DOMAIN Over(new, old).entries
                = DOMAIN new.entries \cup DOMAIN old.entries
           /\ \A e \in DOMAIN new.entries :
                Over(new, old).entries[e] = new.entries[e]
           /\ \A e \in DOMAIN old.entries \ DOMAIN new.entries :
                Over(new, old).entries[e] = old.entries[e]
           /\ DOMAIN Over(new, old).snapshots
                = DOMAIN new.snapshots \cup DOMAIN old.snapshots
           /\ \A k \in DOMAIN new.snapshots :
                Over(new, old).snapshots[k] = new.snapshots[k]
           /\ \A k \in DOMAIN old.snapshots \ DOMAIN new.snapshots :
                Over(new, old).snapshots[k] = old.snapshots[k]
<1>1. /\ Over(new, old).entries = Upsert(new.entries, old.entries)
      /\ Over(new, old).snapshots = Upsert(new.snapshots, old.snapshots)
    BY DEF Over
<1>2. /\ DOMAIN Upsert(new.entries, old.entries)
            = DOMAIN new.entries \cup DOMAIN old.entries
      /\ DOMAIN Upsert(new.snapshots, old.snapshots)
            = DOMAIN new.snapshots \cup DOMAIN old.snapshots
    BY UpsertRows
<1>3. /\ \A e \in DOMAIN new.entries :
            Upsert(new.entries, old.entries)[e] = new.entries[e]
      /\ \A e \in DOMAIN old.entries \ DOMAIN new.entries :
            Upsert(new.entries, old.entries)[e] = old.entries[e]
    BY UpsertRows
<1>4. /\ \A k \in DOMAIN new.snapshots :
            Upsert(new.snapshots, old.snapshots)[k] = new.snapshots[k]
      /\ \A k \in DOMAIN old.snapshots \ DOMAIN new.snapshots :
            Upsert(new.snapshots, old.snapshots)[k] = old.snapshots[k]
    BY UpsertRows
<1> QED
    BY <1>1, <1>2, <1>3, <1>4

\* A transaction that has just begun, or ended, holds neither.
LEMMA NoTablesRows ==
    /\ DOMAIN NoTables.snapshots = {} /\ DOMAIN NoTables.entries = {}
    /\ DOMAIN OnlyDashboard.snapshots = {} /\ DOMAIN OnlyDashboard.entries = {}
BY DEF NoTables, OnlyDashboard, NoRows

\* A statement of the backfill adds the entries it is given, no snapshot.
LEMMA WritesRows ==
    ASSUME NEW links, NEW entries
    PROVE  /\ DOMAIN Writes(links, entries).snapshots = {}
           /\ Writes(links, entries).entries = entries
BY DEF Writes, NoRows

\* The keys of committed and uncommitted snapshots.
LEMMA SnapshotKeys ==
    ASSUME TypeOK
    PROVE  /\ DOMAIN db.snapshots \subseteq SnapshotKey
           /\ \A p \in Processes : DOMAIN tx[p].snapshots \subseteq SnapshotKey
BY DEF TypeOK, IsTables, IsTable

(***************************************************************************)
(* Steps that write no entry and no snapshot                               *)
(***************************************************************************)

\* The initial state satisfies the invariant.
LEMMA InitPaid == Init => PayInv
<1> SUFFICES ASSUME Init PROVE PayInv
    OBVIOUS
<1>1. DOMAIN db.entries = {} /\ DOMAIN db.snapshots = {}
    BY NoTablesRows DEF Init
<1>2. \A p \in Processes : DOMAIN tx[p].entries = {} /\ DOMAIN tx[p].snapshots = {}
    BY NoTablesRows DEF Init
<1>3. \A s \in Syncs : sync[s].pc = "idle"
    BY DEF Init, SyncAtRest, SyncAt
<1>4. \A u \in Users : link[u].pc = "none" /\ DOMAIN link[u].nets = {}
    BY DEF Init, LinkAtRest, LinkAt, NoRows
<1>5. Syncs \subseteq Processes /\ Users \subseteq Processes
    BY DEF Processes
<1>6. NicheLock
    BY <1>3 DEF NicheLock, SyncWritingPCs
<1>7. OpenWrites
    BY <1>2, <1>4, <1>5 DEF OpenWrites
<1>8. EntriesApart
    BY <1>2, <1>5 DEF EntriesApart
<1>9. EntriesGrounded
    BY <1>2, <1>3, <1>4, <1>5 DEF EntriesGrounded
<1>10. PaidOrPaying
    BY <1>2, <1>5 DEF PaidOrPaying
<1> QED
    BY <1>1, <1>6, <1>7, <1>8, <1>9, <1>10
    DEF PayInv, EntriesHaveSnapshots, PaidOnSnapshot

\* Processes that start, fetch or query, administrators, Utmify and the
\* calendar leave the tables and the writing syncs alone.
LEMMA ReadingKeepsPaid ==
    ASSUME PayInv, UNCHANGED <<db, tx>>,
           \A s \in Syncs : \/ sync'[s] = sync[s]
                            \/ /\ sync[s].pc \notin SyncWritingPCs
                               /\ sync'[s].pc \notin SyncWritingPCs,
           \A u \in Users :
                /\ link[u].pc = "priced" => link'[u].pc = "priced"
                /\ u \notin DOMAIN users' => link'[u].pc = "none"
                /\ \A e \in DOMAIN link'[u].nets : SnapshotOf(e) \in DOMAIN db.snapshots
    PROVE  PayInv'
<1>1. NicheLock'
    BY DEF PayInv, NicheLock
<1>2. OpenWrites'
    BY DEF PayInv, OpenWrites
<1>3. EntriesApart'
    BY DEF PayInv, EntriesApart
<1>4. EntriesGrounded'
  <2>1. \A s \in Syncs : sync'[s].pc = "paying" => sync'[s] = sync[s]
      BY DEF SyncWritingPCs
  <2> QED
      BY <2>1 DEF PayInv, EntriesGrounded
<1>5. PaidOrPaying'
  <2>1. \A s \in Syncs : sync[s].pc = "paying" => sync'[s] = sync[s]
      BY DEF SyncWritingPCs
  <2> QED
      BY <2>1 DEF PayInv, PaidOrPaying
<1>6. EntriesHaveSnapshots' /\ PaidOnSnapshot'
    BY DEF PayInv, EntriesHaveSnapshots, PaidOnSnapshot
<1> QED
    BY <1>1, <1>2, <1>3, <1>4, <1>5, <1>6 DEF PayInv

\* A rollback of any set of transactions.
LEMMA RollbackKeepsPaid ==
    ASSUME PayInv, UNCHANGED <<db, users>>,
           \A s \in Syncs :
                \/ sync'[s] = sync[s] /\ tx'[s] = tx[s]
                \/ sync'[s] = SyncAtRest /\ tx'[s] = NoTables,
           \A u \in Users :
                \/ link'[u] = link[u] /\ tx'[u] \in {tx[u], NoTables}
                \/ /\ link[u].pc # "none"
                   /\ DOMAIN link'[u].nets = {}
                   /\ tx'[u] = NoTables
    PROVE  PayInv'
<1>1. SyncAtRest.pc = "idle"
    BY DEF SyncAtRest, SyncAt
<1>2. \A p \in Processes : \/ tx'[p] = tx[p]
                           \/ DOMAIN tx'[p].entries = {} /\ DOMAIN tx'[p].snapshots = {}
    BY NoTablesRows DEF Processes
<1>3. Syncs \subseteq Processes /\ Users \subseteq Processes
    BY DEF Processes
<1>4. NicheLock'
    BY <1>1 DEF PayInv, NicheLock, SyncWritingPCs
<1>5. OpenWrites'
    BY NoTablesRows DEF PayInv, OpenWrites
<1>6. EntriesApart'
    BY <1>2, <1>3 DEF PayInv, EntriesApart
<1>7. EntriesGrounded'
    BY <1>1, NoTablesRows DEF PayInv, EntriesGrounded
<1>8. PaidOrPaying'
    BY <1>1, NoTablesRows DEF PayInv, PaidOrPaying
<1>9. EntriesHaveSnapshots' /\ PaidOnSnapshot'
    BY DEF PayInv, EntriesHaveSnapshots, PaidOnSnapshot
<1> QED
    BY <1>4, <1>5, <1>6, <1>7, <1>8, <1>9 DEF PayInv

(***************************************************************************)
(* The steps of a writing sync                                             *)
(***************************************************************************)

\* Taking the lock.
LEMMA SyncBeginKeepsPaid ==
    ASSUME TypeOK, PayInv, NEW s \in Syncs, SyncBegin(s)
    PROVE  PayInv'
<1>1. /\ sync'[s].pc = "writing"
      /\ \A t \in Syncs \ {s} : sync'[t] = sync[t] /\ sync[t].pc \notin SyncWritingPCs
    BY DEF SyncBegin, SyncAt, TypeOK
<1>2. /\ DOMAIN tx'[s].snapshots = {} /\ DOMAIN tx'[s].entries = {}
      /\ \A p \in Processes \ {s} : tx'[p] = tx[p]
      /\ s \in Processes /\ s \notin Users
    BY NoTablesRows, ConstantsAssumption DEF SyncBegin, TypeOK, Processes
<1>3. Syncs \subseteq Processes /\ Users \subseteq Processes
    BY DEF Processes
<1>4. UNCHANGED <<users, db, link>>
    BY DEF SyncBegin
<1>5. NicheLock'
    BY <1>1 DEF NicheLock
<1>6. OpenWrites'
    BY <1>1, <1>2, <1>3, <1>4 DEF PayInv, OpenWrites
<1>7. EntriesApart'
    BY <1>2, <1>3, <1>4 DEF PayInv, EntriesApart
<1>8. EntriesGrounded'
    BY <1>1, <1>2, <1>3, <1>4 DEF PayInv, EntriesGrounded
<1>9. PaidOrPaying'
    BY <1>1, <1>2, <1>3, <1>4 DEF PayInv, PaidOrPaying
<1>10. EntriesHaveSnapshots' /\ PaidOnSnapshot'
    BY <1>4 DEF PayInv, EntriesHaveSnapshots, PaidOnSnapshot
<1> QED
    BY <1>5, <1>6, <1>7, <1>8, <1>9, <1>10 DEF PayInv

\* The snapshot an ad object writes, and the entries its payees are to get.
LEMMA AdRowsPay ==
    ASSUME NEW a, NEW d, NEW obj, NEW asOf
    PROVE  /\ DOMAIN AdRows(a, d, obj, asOf).snapshots = {<<a, d>>}
           /\ DOMAIN AdRows(a, d, obj, asOf).entries = {}
           /\ AdRows(a, d, obj, asOf).snapshots[<<a, d>>].net = obj.net
           /\ \A p \in AdRows(a, d, obj, asOf).snapshots[<<a, d>>].payees :
                EntryOf(<<a, d>>, p) \in DOMAIN SyncEntries(a, d, obj)
           /\ \A e \in DOMAIN SyncEntries(a, d, obj) :
                /\ SnapshotOf(e) = <<a, d>>
                /\ SyncEntries(a, d, obj)[e].base = obj.net
<1> DEFINE payees == {<<u, RoleForCode(obj.name, users[u].code)>> :
                            u \in Payees(obj.name)}
           row == [net |-> obj.net, asOf |-> asOf, payees |-> payees]
<1>1. /\ AdRows(a, d, obj, asOf).snapshots = [k \in {<<a, d>>} |-> row]
      /\ AdRows(a, d, obj, asOf).entries = NoRows
    BY DEF AdRows
<1>2. row.net = obj.net /\ row.payees = payees
    OBVIOUS
<1>3. \A p \in payees : EntryOf(<<a, d>>, p) \in DOMAIN SyncEntries(a, d, obj)
    BY DEF EntryOf, SyncEntries
<1>4. \A e \in DOMAIN SyncEntries(a, d, obj) :
        /\ SnapshotOf(e) = <<a, d>>
        /\ SyncEntries(a, d, obj)[e].base = obj.net
    BY DEF SnapshotOf, SyncEntries
<1> HIDE DEF row, payees
<1> QED
    BY <1>1, <1>2, <1>3, <1>4 DEF NoRows

\* Writing an ad and its snapshot, and looking its payees up.
LEMMA SyncAdObjectKeepsPaid ==
    ASSUME TypeOK, PayInv, NEW s \in Syncs, NEW a \in Ads, SyncAdObject(s, a)
    PROVE  PayInv'
<1> DEFINE obj == sync[s].batch[a]
           d == sync[s].day
           rows == AdRows(a, d, obj, sync[s].asOf)
           due == SyncEntries(a, d, obj)
<1>1. /\ sync'[s].pc = "paying" /\ sync'[s].entries = due
      /\ sync[s].pc = "writing"
      /\ \A t \in Syncs \ {s} : sync'[t] = sync[t] /\ sync[t].pc \notin SyncWritingPCs
  <2>1. /\ sync' = [sync EXCEPT ![s] =
                SyncAt("paying", sync[s].day, sync[s].asOf, sync[s].batch,
                       sync[s].todo \ {a}, SyncLinks(a, obj.name), due)]
        /\ sync[s].pc = "writing"
      BY DEF SyncAdObject
  <2> HIDE DEF due
  <2>2. sync'[s].pc = "paying" /\ sync'[s].entries = due
      BY <2>1 DEF SyncAt, TypeOK
  <2>3. \A t \in Syncs \ {s} : sync'[t] = sync[t]
      BY <2>1 DEF TypeOK
  <2>4. \A t \in Syncs \ {s} : sync[t].pc \notin SyncWritingPCs
      BY <2>1 DEF PayInv, NicheLock, SyncWritingPCs
  <2> QED
      BY <2>1, <2>2, <2>3, <2>4
<1>2. /\ tx'[s] = Over(rows, tx[s])
      /\ \A p \in Processes \ {s} : tx'[p] = tx[p]
      /\ s \in Processes /\ s \notin Users
    BY ConstantsAssumption DEF SyncAdObject, TypeOK, Processes
<1>3. Syncs \subseteq Processes /\ Users \subseteq Processes
    BY DEF Processes
<1>4. UNCHANGED <<users, db, link>>
    BY DEF SyncAdObject
<1> HIDE DEF obj, d
<1>5. /\ DOMAIN rows.snapshots = {<<a, d>>} /\ DOMAIN rows.entries = {}
      /\ rows.snapshots[<<a, d>>].net = obj.net
      /\ \A p \in rows.snapshots[<<a, d>>].payees :
            EntryOf(<<a, d>>, p) \in DOMAIN due
      /\ \A e \in DOMAIN due : SnapshotOf(e) = <<a, d>> /\ due[e].base = obj.net
    BY AdRowsPay
<1> HIDE DEF rows, due
<1>6. /\ DOMAIN tx'[s].entries = DOMAIN tx[s].entries
      /\ \A e \in DOMAIN tx[s].entries : tx'[s].entries[e] = tx[s].entries[e]
      /\ DOMAIN tx'[s].snapshots = DOMAIN tx[s].snapshots \cup {<<a, d>>}
      /\ tx'[s].snapshots[<<a, d>>] = rows.snapshots[<<a, d>>]
      /\ \A k \in DOMAIN tx[s].snapshots \ {<<a, d>>} :
            tx'[s].snapshots[k] = tx[s].snapshots[k]
  <2>1. /\ DOMAIN tx'[s].entries = DOMAIN rows.entries \cup DOMAIN tx[s].entries
        /\ \A e \in DOMAIN tx[s].entries \ DOMAIN rows.entries :
              tx'[s].entries[e] = tx[s].entries[e]
      BY <1>2, OverRows
  <2>2. /\ DOMAIN tx'[s].snapshots = DOMAIN rows.snapshots \cup DOMAIN tx[s].snapshots
        /\ \A k \in DOMAIN rows.snapshots : tx'[s].snapshots[k] = rows.snapshots[k]
        /\ \A k \in DOMAIN tx[s].snapshots \ DOMAIN rows.snapshots :
              tx'[s].snapshots[k] = tx[s].snapshots[k]
      BY <1>2, OverRows
  <2> QED
      BY <2>1, <2>2, <1>5
<1>7. NicheLock'
    BY <1>1 DEF NicheLock
<1>8. OpenWrites'
    BY <1>1, <1>2, <1>3, <1>4 DEF PayInv, OpenWrites, SyncWritingPCs
<1>9. EntriesApart'
  <2>1. \A p \in Processes : DOMAIN tx'[p].entries = DOMAIN tx[p].entries
      BY <1>2, <1>6
  <2> QED
      BY <2>1, <1>3, <1>4 DEF PayInv, EntriesApart
<1>10. EntriesGrounded'
  <2>1. \A e \in DOMAIN tx'[s].entries : SnapshotOf(e) \in DOMAIN tx'[s].snapshots
      BY <1>6 DEF PayInv, EntriesGrounded
  <2>2. \A t \in Syncs : sync'[t].pc = "paying" => t = s
      BY <1>1 DEF SyncWritingPCs
  <2>3. \A e \in DOMAIN sync'[s].entries :
            /\ SnapshotOf(e) \in DOMAIN tx'[s].snapshots
            /\ sync'[s].entries[e].base = tx'[s].snapshots[SnapshotOf(e)].net
      BY <1>1, <1>5, <1>6
  <2> QED
      BY <2>1, <2>2, <2>3, <1>2, <1>3, <1>4 DEF PayInv, EntriesGrounded
<1>11. PaidOrPaying'
  <2>1. \A k \in DOMAIN tx[s].snapshots \ {<<a, d>>} :
        \A p \in tx'[s].snapshots[k].payees :
            /\ EntryOf(k, p) \in DOMAIN tx'[s].entries
            /\ tx'[s].entries[EntryOf(k, p)].base = tx'[s].snapshots[k].net
      BY <1>1, <1>6 DEF PayInv, PaidOrPaying
  <2>2. \A p \in tx'[s].snapshots[<<a, d>>].payees :
            sync'[s].pc = "paying" /\ EntryOf(<<a, d>>, p) \in DOMAIN sync'[s].entries
      BY <1>1, <1>5, <1>6
  <2>3. \A t \in Syncs \ {s} : tx'[t] = tx[t] /\ sync'[t] = sync[t]
      BY <1>1, <1>2, <1>3
  <2> QED
      BY <2>1, <2>2, <2>3, <1>6 DEF PayInv, PaidOrPaying
<1>12. EntriesHaveSnapshots' /\ PaidOnSnapshot'
    BY <1>4 DEF PayInv, EntriesHaveSnapshots, PaidOnSnapshot
<1> QED
    BY <1>7, <1>8, <1>9, <1>10, <1>11, <1>12 DEF PayInv

\* Writing the links and entries of the payees.
LEMMA SyncPayKeepsPaid ==
    ASSUME TypeOK, PayInv, NEW s \in Syncs, SyncPay(s)
    PROVE  PayInv'
<1> DEFINE rows == Writes(sync[s].links, sync[s].entries)
           due == sync[s].entries
<1>1. /\ sync'[s].pc = "writing"
      /\ sync[s].pc = "paying"
      /\ \A t \in Syncs \ {s} : sync'[t] = sync[t] /\ sync[t].pc \notin SyncWritingPCs
  <2>1. sync[s].pc = "paying" /\ sync'[s].pc = "writing"
      BY DEF SyncPay, SyncAt, TypeOK
  <2>2. \A t \in Syncs \ {s} : sync'[t] = sync[t]
      BY DEF SyncPay, TypeOK
  <2>3. \A t \in Syncs \ {s} : sync[t].pc \notin SyncWritingPCs
      BY <2>1 DEF PayInv, NicheLock, SyncWritingPCs
  <2> QED
      BY <2>1, <2>2, <2>3
<1>2. /\ tx'[s] = Over(rows, tx[s])
      /\ \A p \in Processes \ {s} : tx'[p] = tx[p]
      /\ s \in Processes /\ s \notin Users
    BY ConstantsAssumption DEF SyncPay, TypeOK, Processes
<1>3. Syncs \subseteq Processes /\ Users \subseteq Processes
    BY DEF Processes
<1>4. /\ UNCHANGED <<users, db, link>>
      /\ \A q \in Processes \ {s} : DOMAIN tx[q].entries \cap DOMAIN due = {}
    BY DEF SyncPay, Blocked
<1>5. rows.entries = due /\ DOMAIN rows.snapshots = {}
    BY WritesRows
<1>6. \A e \in DOMAIN due :
        /\ SnapshotOf(e) \in DOMAIN tx[s].snapshots
        /\ due[e].base = tx[s].snapshots[SnapshotOf(e)].net
    BY <1>1 DEF PayInv, EntriesGrounded
<1> HIDE DEF rows, due
<1>7. /\ DOMAIN tx'[s].entries = DOMAIN due \cup DOMAIN tx[s].entries
      /\ \A e \in DOMAIN due : tx'[s].entries[e] = due[e]
      /\ \A e \in DOMAIN tx[s].entries \ DOMAIN due :
            tx'[s].entries[e] = tx[s].entries[e]
      /\ DOMAIN tx'[s].snapshots = DOMAIN tx[s].snapshots
      /\ \A k \in DOMAIN tx[s].snapshots : tx'[s].snapshots[k] = tx[s].snapshots[k]
  <2>1. /\ DOMAIN tx'[s].entries = DOMAIN rows.entries \cup DOMAIN tx[s].entries
        /\ \A e \in DOMAIN rows.entries : tx'[s].entries[e] = rows.entries[e]
        /\ \A e \in DOMAIN tx[s].entries \ DOMAIN rows.entries :
              tx'[s].entries[e] = tx[s].entries[e]
      BY <1>2, OverRows
  <2>2. /\ DOMAIN tx'[s].snapshots = DOMAIN rows.snapshots \cup DOMAIN tx[s].snapshots
        /\ \A k \in DOMAIN tx[s].snapshots \ DOMAIN rows.snapshots :
              tx'[s].snapshots[k] = tx[s].snapshots[k]
      BY <1>2, OverRows
  <2> QED
      BY <2>1, <2>2, <1>5
<1>8. NicheLock'
    BY <1>1 DEF NicheLock
<1>9. OpenWrites'
    BY <1>1, <1>2, <1>3, <1>4 DEF PayInv, OpenWrites, SyncWritingPCs
<1>10. EntriesApart'
    BY <1>2, <1>3, <1>4, <1>7 DEF PayInv, EntriesApart
<1>11. EntriesGrounded'
  <2>1. \A e \in DOMAIN tx'[s].entries : SnapshotOf(e) \in DOMAIN tx'[s].snapshots
      BY <1>6, <1>7 DEF PayInv, EntriesGrounded
  <2>2. \A t \in Syncs : sync'[t].pc # "paying"
      BY <1>1 DEF SyncWritingPCs
  <2> QED
      BY <2>1, <2>2, <1>2, <1>3, <1>4 DEF PayInv, EntriesGrounded
<1>12. PaidOrPaying'
  <2>1. ASSUME NEW k \in DOMAIN tx'[s].snapshots, NEW p \in tx'[s].snapshots[k].payees
        PROVE  /\ EntryOf(k, p) \in DOMAIN tx'[s].entries
               /\ tx'[s].entries[EntryOf(k, p)].base = tx'[s].snapshots[k].net
    <3>1. k \in DOMAIN tx[s].snapshots /\ tx'[s].snapshots[k] = tx[s].snapshots[k]
        BY <1>7
    <3>2. SnapshotOf(EntryOf(k, p)) = k
        BY <3>1, <1>3, SnapshotKeys, PayeeEntry
    <3>3. CASE EntryOf(k, p) \in DOMAIN due
        BY <3>1, <3>2, <3>3, <1>6, <1>7
    <3>4. CASE EntryOf(k, p) \notin DOMAIN due
        BY <3>1, <3>4, <1>7 DEF PayInv, PaidOrPaying, due
    <3> QED
        BY <3>3, <3>4
  <2>2. \A t \in Syncs \ {s} : tx'[t] = tx[t] /\ sync'[t] = sync[t]
      BY <1>1, <1>2, <1>3
  <2> QED
      BY <2>1, <2>2 DEF PayInv, PaidOrPaying
<1>13. EntriesHaveSnapshots' /\ PaidOnSnapshot'
    BY <1>4 DEF PayInv, EntriesHaveSnapshots, PaidOnSnapshot
<1> QED
    BY <1>8, <1>9, <1>10, <1>11, <1>12, <1>13 DEF PayInv

\* The commit of a sync.
LEMMA SyncCommitKeepsPaid ==
    ASSUME TypeOK, PayInv, NEW s \in Syncs, SyncCommit(s)
    PROVE  PayInv'
<1>1. /\ sync'[s].pc = "idle" /\ sync[s].pc = "writing"
      /\ \A t \in Syncs \ {s} : sync'[t] = sync[t]
    BY DEF SyncCommit, SyncAtRest, SyncAt, TypeOK
<1>2. /\ DOMAIN tx'[s].snapshots = {} /\ DOMAIN tx'[s].entries = {}
      /\ \A p \in Processes \ {s} : tx'[p] = tx[p]
      /\ s \in Processes /\ s \notin Users
    BY NoTablesRows, ConstantsAssumption DEF SyncCommit, TypeOK, Processes
<1>3. Syncs \subseteq Processes /\ Users \subseteq Processes
    BY DEF Processes
<1>4. UNCHANGED <<users, link>> /\ db' = Over(tx[s], db)
    BY DEF SyncCommit
<1>5. /\ DOMAIN db'.entries = DOMAIN tx[s].entries \cup DOMAIN db.entries
      /\ \A e \in DOMAIN tx[s].entries : db'.entries[e] = tx[s].entries[e]
      /\ \A e \in DOMAIN db.entries \ DOMAIN tx[s].entries :
            db'.entries[e] = db.entries[e]
      /\ DOMAIN db'.snapshots = DOMAIN tx[s].snapshots \cup DOMAIN db.snapshots
      /\ \A k \in DOMAIN tx[s].snapshots : db'.snapshots[k] = tx[s].snapshots[k]
      /\ \A k \in DOMAIN db.snapshots \ DOMAIN tx[s].snapshots :
            db'.snapshots[k] = db.snapshots[k]
    BY <1>4, OverRows
<1>6. NicheLock'
    BY <1>1 DEF PayInv, NicheLock, SyncWritingPCs
<1>7. OpenWrites'
    BY <1>1, <1>2, <1>3, <1>4 DEF PayInv, OpenWrites
<1>8. EntriesApart'
    BY <1>2, <1>3, <1>4, <1>5 DEF PayInv, EntriesApart
<1>9. EntriesGrounded'
    BY <1>1, <1>2, <1>3, <1>4, <1>5 DEF PayInv, EntriesGrounded
<1>10. PaidOrPaying'
    BY <1>1, <1>2, <1>3 DEF PayInv, PaidOrPaying
<1>11. EntriesHaveSnapshots'
    BY <1>5 DEF PayInv, EntriesHaveSnapshots, EntriesGrounded
<1>12. PaidOnSnapshot'
  <2> SUFFICES ASSUME NEW k \in DOMAIN db'.snapshots, NEW p \in db'.snapshots[k].payees
               PROVE  /\ EntryOf(k, p) \in DOMAIN db'.entries
                      /\ db'.entries[EntryOf(k, p)].base = db'.snapshots[k].net
      BY DEF PaidOnSnapshot
  <2>1. CASE k \in DOMAIN tx[s].snapshots
      BY <2>1, <1>1, <1>5 DEF PayInv, PaidOrPaying
  <2>2. CASE k \notin DOMAIN tx[s].snapshots
    <3>1. k \in DOMAIN db.snapshots /\ db'.snapshots[k] = db.snapshots[k]
        BY <2>2, <1>5
    <3>2. SnapshotOf(EntryOf(k, p)) = k
        BY <3>1, SnapshotKeys, PayeeEntry
    <3>3. EntryOf(k, p) \notin DOMAIN tx[s].entries
        BY <2>2, <3>2 DEF PayInv, EntriesGrounded
    <3> QED
        BY <3>1, <3>3, <1>5 DEF PayInv, PaidOnSnapshot
  <2> QED
      BY <2>1, <2>2
<1> QED
    BY <1>6, <1>7, <1>8, <1>9, <1>10, <1>11, <1>12 DEF PayInv

(***************************************************************************)
(* The steps of a backfill that writes                                     *)
(***************************************************************************)

\* Its first statement holds links only.
LEMMA LinkUpsertLinksKeepsPaid ==
    ASSUME TypeOK, PayInv, NEW u \in Users, LinkUpsertLinks(u)
    PROVE  PayInv'
<1> DEFINE rows == Writes(link[u].links, NoRows)
<1>1. /\ link[u].pc = "matching" /\ link'[u].pc = "matched" /\ DOMAIN link'[u].nets = {}
      /\ \A v \in Users \ {u} : link'[v] = link[v]
    BY DEF LinkUpsertLinks, LinkAt, NoRows, TypeOK
<1>2. /\ tx'[u] = Over(rows, tx[u])
      /\ \A p \in Processes \ {u} : tx'[p] = tx[p]
      /\ u \in Processes /\ u \notin Syncs
    BY ConstantsAssumption DEF LinkUpsertLinks, TypeOK, Processes
<1>3. Syncs \subseteq Processes /\ Users \subseteq Processes
    BY DEF Processes
<1>4. UNCHANGED <<users, db, sync>>
    BY DEF LinkUpsertLinks
<1>5. DOMAIN rows.entries = {} /\ DOMAIN rows.snapshots = {}
    BY WritesRows DEF NoRows
<1> HIDE DEF rows
<1>6. DOMAIN tx'[u].entries = {} /\ DOMAIN tx'[u].snapshots = {}
  <2>1. /\ DOMAIN tx'[u].entries = DOMAIN rows.entries \cup DOMAIN tx[u].entries
        /\ DOMAIN tx'[u].snapshots = DOMAIN rows.snapshots \cup DOMAIN tx[u].snapshots
      BY <1>2, OverRows
  <2> QED
      BY <2>1, <1>1, <1>5 DEF PayInv, OpenWrites
<1>7. NicheLock'
    BY <1>4 DEF PayInv, NicheLock
<1>8. OpenWrites'
    BY <1>1, <1>2, <1>3, <1>4, <1>6 DEF PayInv, OpenWrites
<1>9. EntriesApart'
    BY <1>2, <1>3, <1>4, <1>6 DEF PayInv, EntriesApart
<1>10. EntriesGrounded'
    BY <1>1, <1>2, <1>3, <1>4, <1>6 DEF PayInv, EntriesGrounded
<1>11. PaidOrPaying'
    BY <1>2, <1>3, <1>4 DEF PayInv, PaidOrPaying
<1>12. EntriesHaveSnapshots' /\ PaidOnSnapshot'
    BY <1>4 DEF PayInv, EntriesHaveSnapshots, PaidOnSnapshot
<1> QED
    BY <1>7, <1>8, <1>9, <1>10, <1>11, <1>12 DEF PayInv

\* Its second statement holds entries nobody else has.
LEMMA LinkInsertEntriesKeepsPaid ==
    ASSUME TypeOK, PayInv, NEW u \in Users, LinkInsertEntries(u)
    PROVE  PayInv'
<1> DEFINE new == Missing(BackfillRows(u), db.entries)
           rows == Writes(NoRows, new)
<1>1. /\ link[u].pc = "pricing" /\ link'[u].pc = "priced" /\ DOMAIN link'[u].nets = {}
      /\ \A v \in Users \ {u} : link'[v] = link[v]
    BY DEF LinkInsertEntries, LinkAt, NoRows, TypeOK
<1>2. /\ tx'[u] = Over(rows, tx[u])
      /\ \A p \in Processes \ {u} : tx'[p] = tx[p]
      /\ u \in Processes /\ u \notin Syncs
    BY ConstantsAssumption DEF LinkInsertEntries, TypeOK, Processes
<1>3. Syncs \subseteq Processes /\ Users \subseteq Processes
    BY DEF Processes
<1>4. /\ UNCHANGED <<users, db, sync>>
      /\ \A q \in Processes \ {u} : DOMAIN tx[q].entries \cap DOMAIN link[u].nets = {}
    BY DEF LinkInsertEntries, Blocked
<1>5. DOMAIN new = DOMAIN link[u].nets \ DOMAIN db.entries
    BY DEF Missing, BackfillRows
<1>6. rows.entries = new /\ DOMAIN rows.snapshots = {}
    BY WritesRows
<1> HIDE DEF rows, new
<1>7. DOMAIN tx'[u].entries = DOMAIN new /\ DOMAIN tx'[u].snapshots = {}
  <2>1. /\ DOMAIN tx'[u].entries = DOMAIN rows.entries \cup DOMAIN tx[u].entries
        /\ DOMAIN tx'[u].snapshots = DOMAIN rows.snapshots \cup DOMAIN tx[u].snapshots
      BY <1>2, OverRows
  <2> QED
      BY <2>1, <1>1, <1>6 DEF PayInv, OpenWrites
<1>8. NicheLock'
    BY <1>4 DEF PayInv, NicheLock
<1>9. OpenWrites'
    BY <1>1, <1>2, <1>3, <1>4, <1>7 DEF PayInv, OpenWrites
<1>10. EntriesApart'
    BY <1>2, <1>3, <1>4, <1>5, <1>7 DEF PayInv, EntriesApart
<1>11. EntriesGrounded'
    BY <1>1, <1>2, <1>3, <1>4, <1>5, <1>7 DEF PayInv, EntriesGrounded
<1>12. PaidOrPaying'
    BY <1>2, <1>3, <1>4 DEF PayInv, PaidOrPaying
<1>13. EntriesHaveSnapshots' /\ PaidOnSnapshot'
    BY <1>4 DEF PayInv, EntriesHaveSnapshots, PaidOnSnapshot
<1> QED
    BY <1>8, <1>9, <1>10, <1>11, <1>12, <1>13 DEF PayInv

\* What its commit does to the committed entries and snapshots.
LEMMA LinkCommitAdds ==
    ASSUME PayInv, NEW u \in Users, LinkCommit(u)
    PROVE  /\ DOMAIN db'.entries = DOMAIN tx[u].entries \cup DOMAIN db.entries
           /\ \A e \in DOMAIN db.entries : db'.entries[e] = db.entries[e]
           /\ DOMAIN db'.snapshots = DOMAIN db.snapshots
           /\ \A k \in DOMAIN db.snapshots : db'.snapshots[k] = db.snapshots[k]
<1>1. db' = Over(tx[u], db)
    BY DEF LinkCommit
<1>2. /\ DOMAIN db'.entries = DOMAIN tx[u].entries \cup DOMAIN db.entries
      /\ \A e \in DOMAIN db.entries \ DOMAIN tx[u].entries :
            db'.entries[e] = db.entries[e]
      /\ DOMAIN db'.snapshots = DOMAIN tx[u].snapshots \cup DOMAIN db.snapshots
      /\ \A k \in DOMAIN db.snapshots \ DOMAIN tx[u].snapshots :
            db'.snapshots[k] = db.snapshots[k]
    BY <1>1, OverRows
<1>3. /\ DOMAIN tx[u].entries \cap DOMAIN db.entries = {}
      /\ DOMAIN tx[u].snapshots = {}
    BY DEF PayInv, EntriesApart, OpenWrites
<1> QED
    BY <1>2, <1>3

LEMMA LinkCommitKeepsPaid ==
    ASSUME TypeOK, PayInv, NEW u \in Users, LinkCommit(u)
    PROVE  PayInv'
<1>1. /\ link[u].pc = "priced" /\ DOMAIN link'[u].nets = {}
      /\ link'[u].pc = "done"
      /\ \A v \in Users \ {u} : link'[v] = link[v]
    BY DEF LinkCommit, LinkAtRest, LinkAt, NoRows, TypeOK
<1>2. /\ DOMAIN tx'[u].snapshots = {} /\ DOMAIN tx'[u].entries = {}
      /\ \A p \in Processes \ {u} : tx'[p] = tx[p]
      /\ u \in Processes /\ u \notin Syncs
    BY NoTablesRows, ConstantsAssumption DEF LinkCommit, TypeOK, Processes
<1>3. Syncs \subseteq Processes /\ Users \subseteq Processes
    BY DEF Processes
<1>4. UNCHANGED <<users, sync>>
    BY DEF LinkCommit
<1>5. /\ DOMAIN db'.entries = DOMAIN tx[u].entries \cup DOMAIN db.entries
      /\ \A e \in DOMAIN db.entries : db'.entries[e] = db.entries[e]
      /\ DOMAIN db'.snapshots = DOMAIN db.snapshots
      /\ \A k \in DOMAIN db.snapshots : db'.snapshots[k] = db.snapshots[k]
    BY LinkCommitAdds
<1>6. NicheLock'
    BY <1>4 DEF PayInv, NicheLock
<1>7. OpenWrites'
    BY <1>1, <1>2, <1>3, <1>4 DEF PayInv, OpenWrites
<1>8. EntriesApart'
    BY <1>2, <1>3, <1>5 DEF PayInv, EntriesApart
<1>9. EntriesGrounded'
    BY <1>1, <1>2, <1>3, <1>4, <1>5 DEF PayInv, EntriesGrounded
<1>10. PaidOrPaying'
    BY <1>2, <1>3, <1>4 DEF PayInv, PaidOrPaying
<1>11. EntriesHaveSnapshots'
    BY <1>5 DEF PayInv, EntriesHaveSnapshots, EntriesGrounded
<1>12. PaidOnSnapshot'
    BY <1>5 DEF PayInv, PaidOnSnapshot
<1> QED
    BY <1>6, <1>7, <1>8, <1>9, <1>10, <1>11, <1>12 DEF PayInv

\* Its queries: the entries to come are about committed snapshots.
LEMMA LinkQueriesKeepPaid ==
    ASSUME TypeOK, PayInv, NEW u \in Users, LinkQueryAds(u) \/ LinkQuerySnapshots(u)
    PROVE  PayInv'
<1>1. /\ link[u].pc # "priced"
      /\ \A v \in Users \ {u} : link'[v] = link[v]
      /\ UNCHANGED <<users, db, tx, sync>>
    BY DEF LinkQueryAds, LinkQuerySnapshots, dbVars, TypeOK
<1>2. u \in DOMAIN users
    BY DEF LinkQueryAds, LinkQuerySnapshots, PayInv, OpenWrites
<1>3. \A e \in DOMAIN link'[u].nets : SnapshotOf(e) \in DOMAIN db.snapshots
  <2>1. CASE LinkQueryAds(u)
      BY <2>1 DEF LinkQueryAds, LinkAt, NoRows, TypeOK
  <2>2. CASE LinkQuerySnapshots(u)
    <3> DEFINE keys == {<<f[1], f[2], u, RoleOn(u, f[1])>> : f \in MatchingSnapshots(u)}
    <3>1. DOMAIN link'[u].nets = keys
        BY <2>2 DEF LinkQuerySnapshots, LinkAt, TypeOK
    <3>2. \A f \in MatchingSnapshots(u) : f \in DOMAIN db.snapshots /\ f = <<f[1], f[2]>>
        BY SnapshotKeys DEF MatchingSnapshots, SnapshotKey
    <3> QED
        BY <3>1, <3>2 DEF SnapshotOf
  <2> QED
      BY <2>1, <2>2
<1>4. \A v \in Users : \A e \in DOMAIN link'[v].nets : SnapshotOf(e) \in DOMAIN db.snapshots
    BY <1>1, <1>3 DEF PayInv, EntriesGrounded
<1>5. \A v \in Users :
        /\ link[v].pc = "priced" => link'[v].pc = "priced"
        /\ v \notin DOMAIN users' => link'[v].pc = "none"
    BY <1>1, <1>2 DEF PayInv, OpenWrites
<1> QED
    BY <1>1, <1>4, <1>5, ReadingKeepsPaid

(***************************************************************************)
(* Administrators, Utmify and the calendar                                 *)
(***************************************************************************)

LEMMA AdministratorsKeepPaid ==
    ASSUME TypeOK, PayInv, NEW u \in Users, NEW row,
           \/ CreateCollaborator(u, row)
           \/ UpdateCollaborator(u, row)
           \/ DeleteCollaborator(u)
    PROVE  PayInv'
<1>1. UNCHANGED <<db, tx, sync>>
    BY DEF CreateCollaborator, UpdateCollaborator, DeleteCollaborator
<1>2. DOMAIN users' = DOMAIN users \cup {u}
    BY DEF CreateCollaborator, UpdateCollaborator, DeleteCollaborator, SetUser, Upsert
<1>3. \A v \in Users :
        \/ link'[v] = link[v]
        \/ /\ v = u /\ u \notin DOMAIN users
           /\ DOMAIN link'[v].nets = {}
    BY DEF CreateCollaborator, UpdateCollaborator, DeleteCollaborator,
           TypeOK, LinkAt, NoRows
<1>4. \A v \in Users :
        /\ link[v].pc = "priced" => link'[v].pc = "priced"
        /\ v \notin DOMAIN users' => link'[v].pc = "none"
    BY <1>2, <1>3 DEF PayInv, OpenWrites
<1>5. \A v \in Users : \A e \in DOMAIN link'[v].nets : SnapshotOf(e) \in DOMAIN db.snapshots
    BY <1>3 DEF PayInv, EntriesGrounded
<1> QED
    BY <1>1, <1>4, <1>5, ReadingKeepsPaid

\* Every step keeps the invariant.
LEMMA NextPaid == TypeOK /\ PayInv /\ [Next]_vars => PayInv'
<1> SUFFICES ASSUME TypeOK, PayInv, [Next]_vars PROVE PayInv'
    OBVIOUS
<1> DEFINE Unmoved == \A v \in Users :
                        /\ link[v].pc = "priced" => link[v].pc = "priced"
                        /\ v \notin DOMAIN users => link[v].pc = "none"
                        /\ \A e \in DOMAIN link[v].nets :
                                SnapshotOf(e) \in DOMAIN db.snapshots
<1>1. Unmoved
    BY DEF PayInv, OpenWrites, EntriesGrounded
<1>2. ASSUME NEW s \in Syncs, SyncStart(s) \/ SyncFetch(s) PROVE PayInv'
  <2>1. /\ UNCHANGED <<users, db, tx, link>>
        /\ sync[s].pc \notin SyncWritingPCs /\ sync'[s].pc \notin SyncWritingPCs
        /\ \A t \in Syncs \ {s} : sync'[t] = sync[t]
      BY <1>2 DEF SyncStart, SyncFetch, SyncAt, SyncWritingPCs, dbVars, TypeOK
  <2> QED
      BY <2>1, <1>1, ReadingKeepsPaid
<1>3. ASSUME NEW s \in Syncs,
             SyncBegin(s) \/ (\E a \in Ads : SyncAdObject(s, a)) \/ SyncPay(s)
                \/ SyncCommit(s)
      PROVE  PayInv'
    BY <1>3, SyncBeginKeepsPaid, SyncAdObjectKeepsPaid, SyncPayKeepsPaid,
       SyncCommitKeepsPaid
<1>4. ASSUME NEW s \in Syncs, SyncAborts(s) PROVE PayInv'
  <2>1. /\ UNCHANGED <<users, db, link>>
        /\ sync'[s] = SyncAtRest /\ tx'[s] = NoTables
        /\ \A t \in Syncs \ {s} : sync'[t] = sync[t] /\ tx'[t] = tx[t]
        /\ \A u \in Users : tx'[u] = tx[u]
      BY <1>4, ConstantsAssumption DEF SyncAborts, TypeOK, Processes
  <2> QED
      BY <2>1, RollbackKeepsPaid
<1>5. ASSUME NEW u \in Users, LinkGoesOn(u) PROVE PayInv'
    BY <1>5, LinkQueriesKeepPaid, LinkUpsertLinksKeepsPaid,
       LinkInsertEntriesKeepsPaid, LinkCommitKeepsPaid
    DEF LinkGoesOn
<1>6. ASSUME NEW u \in Users, LinkAborts(u), link[u].pc # "none" PROVE PayInv'
  <2>1. /\ UNCHANGED <<users, db, sync>>
        /\ DOMAIN link'[u].nets = {} /\ tx'[u] = NoTables
        /\ \A v \in Users \ {u} : link'[v] = link[v] /\ tx'[v] = tx[v]
        /\ \A s \in Syncs : tx'[s] = tx[s]
      BY <1>6, ConstantsAssumption
      DEF LinkAborts, LinkAtRest, LinkAt, NoRows, TypeOK, Processes
  <2> QED
      BY <2>1, <1>6, RollbackKeepsPaid
<1>7. CASE Restart
  <2>1. /\ UNCHANGED <<users, db>>
        /\ \A s \in Syncs : sync'[s] = SyncAtRest /\ tx'[s] = NoTables
        /\ \A u \in Users : tx'[u] = NoTables
      BY <1>7 DEF Restart, Processes
  <2>2. DOMAIN LinkAtRest("failed").nets = {} /\ "none" \notin LinkRunningPCs
      BY DEF LinkAtRest, LinkAt, NoRows, LinkRunningPCs
  <2>3. \A u \in Users : \/ link'[u] = link[u]
                         \/ link[u].pc # "none" /\ DOMAIN link'[u].nets = {}
      BY <1>7, <2>2 DEF Restart
  <2> QED
      BY <2>1, <2>3, RollbackKeepsPaid
<1>8. ASSUME NEW u \in Users, NEW row,
             CreateCollaborator(u, row) \/ UpdateCollaborator(u, row)
                \/ DeleteCollaborator(u)
      PROVE  PayInv'
    BY <1>8, AdministratorsKeepPaid
<1>9. ASSUME UNCHANGED <<users, db, tx, sync, link>> PROVE PayInv'
    BY <1>1, <1>9, ReadingKeepsPaid
<1>10. ASSUME NEW d \in 1 .. today, NEW a \in Ads, NEW obj, Revise(d, a, obj)
       PROVE  PayInv'
    BY <1>9, <1>10 DEF Revise, dbVars
<1>11. CASE NextDay
    BY <1>9, <1>11 DEF NextDay, dbVars
<1>12. CASE UNCHANGED vars
    BY <1>9, <1>12 DEF vars
<1>13. ASSUME NEW s \in Syncs, NEW u \in Users, DeadlockVictim(s, u) PROVE PayInv'
  <2>1. link[u].pc # "none"
      BY <1>13 DEF DeadlockVictim, Deadlocked
  <2> QED
      BY <2>1, <1>4, <1>6, <1>13 DEF DeadlockVictim
<1>14. ASSUME NEW u \in Users, LinkFail(u) PROVE PayInv'
    BY <1>6, <1>14 DEF LinkFail, LinkRunningPCs
<1> QED
    BY <1>2, <1>3, <1>4, <1>5, <1>7, <1>8, <1>10, <1>11, <1>12, <1>13, <1>14
    DEF Next, SyncGoesOn, SyncFail

\* The two invariants the theorems below rest on.
LEMMA AlwaysPaid == Spec => [](TypeOK /\ PayInv)
<1>1. Init => TypeOK /\ PayInv
    BY InitTyped, InitPaid
<1>2. TypeOK /\ PayInv /\ [Next]_vars => (TypeOK /\ PayInv)'
    BY NextTyped, NextPaid
<1> QED
    BY <1>1, <1>2, PTL DEF Spec

\* No commission entry is without metrics: neither a rollback between two
\* upserts of syncAdObject nor the join of the backfill leaves one.
THEOREM EntriesAlwaysHaveSnapshots == Spec => []EntriesHaveSnapshots
<1>1. TypeOK /\ PayInv => EntriesHaveSnapshots
    BY DEF PayInv
<1> QED
    BY <1>1, AlwaysPaid, PTL

\* Whoever a sync paid on a snapshot has an entry computed on its figures,
\* whatever overlapping syncs and backfills do.
THEOREM AlwaysPaidOnSnapshot == Spec => []PaidOnSnapshot
<1>1. TypeOK /\ PayInv => PaidOnSnapshot
    BY DEF PayInv
<1> QED
    BY <1>1, AlwaysPaid, PTL

\* A backfill's commit leaves every committed entry as it was.
THEOREM BackfillAlwaysOnlyAdds == Spec => BackfillOnlyAdds
<1> DEFINE Adds == \A u \in Users : link[u].pc = "priced" /\ link'[u].pc = "done" =>
                    \A k \in DOMAIN db.entries :
                        k \in DOMAIN db'.entries /\ db'.entries[k] = db.entries[k]
<1>1. ASSUME TypeOK, PayInv, [Next]_vars PROVE Adds
  <2> SUFFICES ASSUME NEW u \in Users, link[u].pc = "priced", link'[u].pc = "done"
               PROVE  \A k \in DOMAIN db.entries :
                        k \in DOMAIN db'.entries /\ db'.entries[k] = db.entries[k]
      OBVIOUS
  <2>1. ASSUME NEW s \in Syncs, SyncStart(s) \/ SyncGoesOn(s) \/ SyncFail(s)
        PROVE  FALSE
      BY <1>1, <2>1 DEF SyncStart, SyncGoesOn, SyncFail, SyncAborts, SyncFetch,
                  SyncBegin, SyncAdObject, SyncPay, SyncCommit, dbVars
  <2>2. ASSUME NEW v \in Users, LinkGoesOn(v) \/ LinkAborts(v)
        PROVE  v = u /\ LinkCommit(u)
    <3>1. v = u
        BY <1>1, <2>2 DEF LinkGoesOn, LinkAborts, LinkQueryAds, LinkUpsertLinks,
                    LinkQuerySnapshots, LinkInsertEntries, LinkCommit, TypeOK
    <3>2. ~LinkAborts(u) /\ ~LinkQueryAds(u) /\ ~LinkUpsertLinks(u)
          /\ ~LinkQuerySnapshots(u) /\ ~LinkInsertEntries(u)
        BY <1>1 DEF LinkAborts, LinkQueryAds, LinkUpsertLinks, LinkQuerySnapshots,
               LinkInsertEntries, LinkAt, LinkAtRest, TypeOK
    <3> QED
        BY <2>2, <3>1, <3>2 DEF LinkGoesOn
  <2>3. ASSUME NEW s \in Syncs, NEW v \in Users, DeadlockVictim(s, v) PROVE LinkCommit(u)
      BY <2>2, <2>3 DEF DeadlockVictim, SyncAborts
  <2>4. ~Restart
      BY <1>1 DEF Restart, LinkAtRest, LinkAt, LinkRunningPCs, TypeOK
  <2>5. ASSUME NEW v \in Users, NEW row,
               CreateCollaborator(v, row) \/ UpdateCollaborator(v, row)
                    \/ DeleteCollaborator(v)
        PROVE  FALSE
      BY <1>1, <2>5 DEF CreateCollaborator, UpdateCollaborator, DeleteCollaborator,
                  LinkAt, TypeOK
  <2>6. LinkCommit(u)
      BY <1>1, <2>1, <2>2, <2>3, <2>4, <2>5
      DEF Next, LinkFail, Revise, NextDay, vars, dbVars
  <2> QED
      BY <2>6, <1>1, LinkCommitAdds
<1>2. TypeOK /\ PayInv /\ [Next]_vars => [Adds]_vars
    BY <1>1
<1> HIDE DEF Adds
<1>3. Spec => [][Adds]_vars
    BY <1>2, AlwaysPaid, PTL DEF Spec
<1> QED
    BY <1>3 DEF BackfillOnlyAdds, Adds

(***************************************************************************)
(* A day as a whole                                                        *)
(***************************************************************************)

\* A writing sync holds, for every ad object it has dealt with, the name and
\* the figures it fetched, and no other ad's and no other day's snapshot.
BatchWritten ==
    \A s \in Syncs : sync[s].pc \in SyncWritingPCs =>
        /\ \A a \in DOMAIN sync[s].batch \ sync[s].todo :
            /\ a \in DOMAIN tx[s].ads /\ tx[s].ads[a] = sync[s].batch[a].name
            /\ <<a, sync[s].day>> \in DOMAIN tx[s].snapshots
            /\ tx[s].snapshots[<<a, sync[s].day>>].net = sync[s].batch[a].net
        /\ \A k \in DOMAIN tx[s].snapshots :
            /\ k[1] \in DOMAIN sync[s].batch /\ k[2] = sync[s].day
            /\ tx[s].snapshots[k].asOf = sync[s].asOf

\* What a commit or a later statement leaves in the table of ads.
LEMMA OverAds ==
    ASSUME NEW new, NEW old
    PROVE  /\ DOMAIN Over(new, old).ads = DOMAIN new.ads \cup DOMAIN old.ads
           /\ \A a \in DOMAIN new.ads : Over(new, old).ads[a] = new.ads[a]
           /\ \A a \in DOMAIN old.ads \ DOMAIN new.ads :
                Over(new, old).ads[a] = old.ads[a]
<1>1. Over(new, old).ads = Upsert(new.ads, old.ads)
    BY DEF Over
<1>2. DOMAIN Upsert(new.ads, old.ads) = DOMAIN new.ads \cup DOMAIN old.ads
    BY UpsertRows
<1>3. /\ \A a \in DOMAIN new.ads : Upsert(new.ads, old.ads)[a] = new.ads[a]
      /\ \A a \in DOMAIN old.ads \ DOMAIN new.ads :
            Upsert(new.ads, old.ads)[a] = old.ads[a]
    BY UpsertRows
<1> QED
    BY <1>1, <1>2, <1>3

\* A step of which no sync comes out writing with other rows or another place.
LEMMA OthersKeepBatch ==
    ASSUME BatchWritten,
           \A s \in Syncs : \/ sync'[s] = sync[s] /\ tx'[s] = tx[s]
                            \/ sync'[s].pc \notin SyncWritingPCs
    PROVE  BatchWritten'
BY DEF BatchWritten

\* Taking the lock.
LEMMA SyncBeginKeepsBatch ==
    ASSUME TypeOK, BatchWritten, NEW s \in Syncs, SyncBegin(s)
    PROVE  BatchWritten'
<1>1. /\ sync'[s].todo = DOMAIN sync'[s].batch
      /\ \A t \in Syncs \ {s} : sync'[t] = sync[t] /\ tx'[t] = tx[t]
    BY DEF SyncBegin, SyncAt, TypeOK, Processes
<1>2. DOMAIN tx'[s].snapshots = {}
    BY NoTablesRows DEF SyncBegin, TypeOK, Processes
<1> QED
    BY <1>1, <1>2 DEF BatchWritten

\* Writing an ad and its snapshot.
LEMMA SyncAdObjectKeepsBatch ==
    ASSUME TypeOK, BatchWritten, NEW s \in Syncs, NEW a \in Ads, SyncAdObject(s, a)
    PROVE  BatchWritten'
<1> DEFINE obj == sync[s].batch[a]
           d == sync[s].day
           rows == AdRows(a, d, obj, sync[s].asOf)
           next == sync'[s]
<1>1. /\ sync[s].pc = "writing" /\ a \in sync[s].todo
      /\ tx' = [tx EXCEPT ![s] = Over(rows, tx[s])]
      /\ \E links, entries :
            sync' = [sync EXCEPT ![s] =
                SyncAt("paying", d, sync[s].asOf, sync[s].batch,
                       sync[s].todo \ {a}, links, entries)]
    BY DEF SyncAdObject
<1>2. /\ next.day = d /\ next.asOf = sync[s].asOf /\ next.batch = sync[s].batch
      /\ next.todo = sync[s].todo \ {a}
      /\ \A t \in Syncs \ {s} : sync'[t] = sync[t]
    BY <1>1 DEF SyncAt, TypeOK
<1>3. /\ tx'[s] = Over(rows, tx[s])
      /\ \A t \in Syncs \ {s} : tx'[t] = tx[t]
    BY <1>1 DEF TypeOK, Processes
<1>4. a \in DOMAIN sync[s].batch
    BY <1>1 DEF TypeOK, SyncState
<1>5. /\ DOMAIN rows.ads = {a} /\ rows.ads[a] = obj.name
      /\ DOMAIN rows.snapshots = {<<a, d>>}
      /\ rows.snapshots[<<a, d>>].net = obj.net
      /\ rows.snapshots[<<a, d>>].asOf = sync[s].asOf
    BY DEF AdRows
<1> HIDE DEF rows, next, obj
<1>6. /\ DOMAIN tx'[s].ads = {a} \cup DOMAIN tx[s].ads
      /\ tx'[s].ads[a] = obj.name
      /\ \A b \in DOMAIN tx[s].ads \ {a} : tx'[s].ads[b] = tx[s].ads[b]
    BY <1>3, <1>5, OverAds
<1>7. /\ DOMAIN tx'[s].snapshots = {<<a, d>>} \cup DOMAIN tx[s].snapshots
      /\ tx'[s].snapshots[<<a, d>>] = rows.snapshots[<<a, d>>]
      /\ \A k \in DOMAIN tx[s].snapshots \ {<<a, d>>} :
            tx'[s].snapshots[k] = tx[s].snapshots[k]
    BY <1>3, <1>5, OverRows
<1>8. ASSUME NEW b \in DOMAIN next.batch \ next.todo
      PROVE  /\ b \in DOMAIN tx'[s].ads /\ tx'[s].ads[b] = next.batch[b].name
             /\ <<b, next.day>> \in DOMAIN tx'[s].snapshots
             /\ tx'[s].snapshots[<<b, next.day>>].net = next.batch[b].net
  <2>1. CASE b = a
      BY <2>1, <1>2, <1>5, <1>6, <1>7 DEF obj
  <2>2. CASE b # a
    <3>1. /\ b \in DOMAIN sync[s].batch \ sync[s].todo
          /\ <<b, d>> # <<a, d>>
        BY <2>2, <1>2
    <3>2. /\ b \in DOMAIN tx[s].ads /\ tx[s].ads[b] = sync[s].batch[b].name
          /\ <<b, d>> \in DOMAIN tx[s].snapshots
          /\ tx[s].snapshots[<<b, d>>].net = sync[s].batch[b].net
        BY <3>1, <1>1 DEF BatchWritten, SyncWritingPCs
    <3> QED
        BY <3>1, <3>2, <2>2, <1>2, <1>6, <1>7
  <2> QED
      BY <2>1, <2>2
<1>9. ASSUME NEW k \in DOMAIN tx'[s].snapshots
      PROVE  /\ k[1] \in DOMAIN next.batch /\ k[2] = next.day
             /\ tx'[s].snapshots[k].asOf = next.asOf
  <2>1. CASE k = <<a, d>>
      BY <2>1, <1>2, <1>4, <1>5, <1>7
  <2>2. CASE k # <<a, d>>
      BY <2>2, <1>1, <1>2, <1>7 DEF BatchWritten, SyncWritingPCs
  <2> QED
      BY <2>1, <2>2
<1> QED
    BY <1>2, <1>3, <1>8, <1>9 DEF BatchWritten, next

\* Paying writes no snapshot and no ad.
LEMMA SyncPayKeepsBatch ==
    ASSUME TypeOK, BatchWritten, NEW s \in Syncs, SyncPay(s)
    PROVE  BatchWritten'
<1> DEFINE rows == Writes(sync[s].links, sync[s].entries)
<1>1. /\ sync[s].pc = "paying"
      /\ sync'[s].day = sync[s].day /\ sync'[s].asOf = sync[s].asOf
      /\ sync'[s].batch = sync[s].batch /\ sync'[s].todo = sync[s].todo
      /\ \A t \in Syncs \ {s} : sync'[t] = sync[t]
    BY DEF SyncPay, SyncAt, TypeOK
<1>2. /\ tx'[s] = Over(rows, tx[s])
      /\ \A t \in Syncs \ {s} : tx'[t] = tx[t]
    BY DEF SyncPay, TypeOK, Processes
<1>3. DOMAIN rows.snapshots = {} /\ DOMAIN rows.ads = {}
    BY DEF Writes, NoRows
<1> HIDE DEF rows
<1>4. /\ DOMAIN tx'[s].ads = DOMAIN tx[s].ads
      /\ \A b \in DOMAIN tx[s].ads : tx'[s].ads[b] = tx[s].ads[b]
  <2>1. /\ DOMAIN tx'[s].ads = DOMAIN rows.ads \cup DOMAIN tx[s].ads
        /\ \A b \in DOMAIN tx[s].ads \ DOMAIN rows.ads : tx'[s].ads[b] = tx[s].ads[b]
      BY <1>2, OverAds
  <2> QED
      BY <2>1, <1>3
<1>5. /\ DOMAIN tx'[s].snapshots = DOMAIN tx[s].snapshots
      /\ \A k \in DOMAIN tx[s].snapshots : tx'[s].snapshots[k] = tx[s].snapshots[k]
  <2>1. /\ DOMAIN tx'[s].snapshots = DOMAIN rows.snapshots \cup DOMAIN tx[s].snapshots
        /\ \A k \in DOMAIN tx[s].snapshots \ DOMAIN rows.snapshots :
              tx'[s].snapshots[k] = tx[s].snapshots[k]
      BY <1>2, OverRows
  <2> QED
      BY <2>1, <1>3
<1>6. sync[s].pc \in SyncWritingPCs
    BY <1>1 DEF SyncWritingPCs
<1>7. \A a \in DOMAIN sync'[s].batch \ sync'[s].todo :
        /\ a \in DOMAIN tx'[s].ads /\ tx'[s].ads[a] = sync'[s].batch[a].name
        /\ <<a, sync'[s].day>> \in DOMAIN tx'[s].snapshots
        /\ tx'[s].snapshots[<<a, sync'[s].day>>].net = sync'[s].batch[a].net
  <2> SUFFICES ASSUME NEW a \in DOMAIN sync'[s].batch \ sync'[s].todo
               PROVE  /\ a \in DOMAIN tx'[s].ads /\ tx'[s].ads[a] = sync'[s].batch[a].name
                      /\ <<a, sync'[s].day>> \in DOMAIN tx'[s].snapshots
                      /\ tx'[s].snapshots[<<a, sync'[s].day>>].net = sync'[s].batch[a].net
      OBVIOUS
  <2>1. /\ a \in DOMAIN tx[s].ads /\ tx[s].ads[a] = sync[s].batch[a].name
        /\ <<a, sync[s].day>> \in DOMAIN tx[s].snapshots
        /\ tx[s].snapshots[<<a, sync[s].day>>].net = sync[s].batch[a].net
      BY <1>1, <1>6 DEF BatchWritten
  <2> QED
      BY <1>1, <1>4, <1>5, <2>1
<1>8. \A k \in DOMAIN tx'[s].snapshots :
        /\ k[1] \in DOMAIN sync'[s].batch /\ k[2] = sync'[s].day
        /\ tx'[s].snapshots[k].asOf = sync'[s].asOf
  <2>1. \A k \in DOMAIN tx[s].snapshots :
          /\ k[1] \in DOMAIN sync[s].batch /\ k[2] = sync[s].day
          /\ tx[s].snapshots[k].asOf = sync[s].asOf
      BY <1>6 DEF BatchWritten
  <2> QED
      BY <1>1, <1>5, <2>1
<1>9. \A t \in Syncs \ {s} : sync'[t] = sync[t] /\ tx'[t] = tx[t]
    BY <1>1, <1>2
<1> QED
    BY <1>7, <1>8, <1>9 DEF BatchWritten

\* What the steps that are not a writing sync's own do to the syncs, their
\* rows and the committed snapshots.
LEMMA OtherSteps ==
    ASSUME TypeOK, PayInv, [Next]_vars,
           \A s \in Syncs : /\ ~SyncBegin(s) /\ ~SyncPay(s) /\ ~SyncCommit(s)
                            /\ \A a \in Ads : ~SyncAdObject(s, a)
    PROVE  /\ db'.snapshots = db.snapshots
           /\ \A s \in Syncs :
                \/ sync'[s] = sync[s] /\ tx'[s] = tx[s]
                \/ sync'[s] = SyncAtRest
                \/ SyncStart(s)
                \/ SyncFetch(s)
<1> DEFINE Goal == /\ db'.snapshots = db.snapshots
                   /\ \A s \in Syncs :
                        \/ sync'[s] = sync[s] /\ tx'[s] = tx[s]
                        \/ sync'[s] = SyncAtRest
                        \/ SyncStart(s)
                        \/ SyncFetch(s)
<1>1. ASSUME NEW s \in Syncs, SyncStart(s) \/ SyncFetch(s) PROVE Goal
    BY <1>1 DEF SyncStart, SyncFetch, dbVars, TypeOK
<1>2. ASSUME NEW s \in Syncs, SyncAborts(s) PROVE Goal
    BY <1>2 DEF SyncAborts, TypeOK, Processes
<1>3. ASSUME UNCHANGED db.snapshots, UNCHANGED sync,
             \A s \in Syncs : tx'[s] = tx[s]
      PROVE Goal
    BY <1>3
<1>4. ASSUME NEW u \in Users, LinkCommit(u) PROVE Goal
  <2>1. db'.snapshots = Upsert(tx[u].snapshots, db.snapshots)
      BY <1>4 DEF LinkCommit, Over
  <2>2. DOMAIN tx[u].snapshots = {}
      BY DEF PayInv, OpenWrites
  <2>3. db.snapshots = [k \in DOMAIN db.snapshots |-> db.snapshots[k]]
      BY DEF TypeOK, IsTables, IsTable
  <2>4. db'.snapshots = db.snapshots
      BY <2>1, <2>2, <2>3 DEF Upsert
  <2>5. \A s \in Syncs : tx'[s] = tx[s]
      BY <1>4, ConstantsAssumption DEF LinkCommit, TypeOK, Processes
  <2> QED
      BY <2>4, <2>5, <1>3, <1>4 DEF LinkCommit
<1>5. ASSUME NEW u \in Users,
             LinkQueryAds(u) \/ LinkUpsertLinks(u) \/ LinkQuerySnapshots(u)
                \/ LinkInsertEntries(u) \/ LinkAborts(u)
      PROVE  Goal
  <2>1. UNCHANGED <<db, sync>>
      BY <1>5 DEF LinkQueryAds, LinkUpsertLinks, LinkQuerySnapshots,
                  LinkInsertEntries, LinkAborts, dbVars
  <2>2. \A s \in Syncs : tx'[s] = tx[s]
      BY <1>5, ConstantsAssumption
      DEF LinkQueryAds, LinkUpsertLinks, LinkQuerySnapshots, LinkInsertEntries,
          LinkAborts, dbVars, TypeOK, Processes
  <2> QED
      BY <2>1, <2>2, <1>3
<1>6. CASE Restart
    BY <1>6 DEF Restart
<1>7. /\ \A u \in Users : DeleteCollaborator(u) => Goal
      /\ \A u \in Users, row \in UserRow :
            CreateCollaborator(u, row) \/ UpdateCollaborator(u, row) => Goal
    BY <1>3 DEF CreateCollaborator, UpdateCollaborator, DeleteCollaborator
<1>8. ASSUME NEW d \in 1 .. today, NEW a \in Ads, NEW name \in AdNames,
             NEW net \in Nets, Revise(d, a, [name |-> name, net |-> net])
      PROVE  Goal
    BY <1>8, <1>3 DEF Revise, dbVars
<1>9. CASE NextDay \/ UNCHANGED vars
    BY <1>9, <1>3 DEF NextDay, dbVars, vars
<1>10. ASSUME NEW s \in Syncs, SyncStart(s) \/ SyncGoesOn(s) \/ SyncFail(s)
       PROVE  Goal
    BY <1>1, <1>2, <1>10 DEF SyncGoesOn, SyncFail
<1>11. ASSUME NEW u \in Users, LinkGoesOn(u) \/ LinkFail(u) PROVE Goal
    BY <1>4, <1>5, <1>11 DEF LinkGoesOn, LinkFail
<1>12. ASSUME NEW s \in Syncs, NEW u \in Users, DeadlockVictim(s, u) PROVE Goal
    BY <1>2, <1>5, <1>12 DEF DeadlockVictim
<1>13. CASE UNCHANGED vars
    BY <1>9, <1>13
<1> QED
    BY <1>6, <1>7, <1>8, <1>9, <1>10, <1>11, <1>12, <1>13 DEF Next

\* Every step keeps it.
LEMMA NextBatch == TypeOK /\ PayInv /\ BatchWritten /\ [Next]_vars => BatchWritten'
<1> SUFFICES ASSUME TypeOK, PayInv, BatchWritten, [Next]_vars PROVE BatchWritten'
    OBVIOUS
<1>1. ASSUME NEW s \in Syncs, SyncCommit(s) PROVE BatchWritten'
  <2>1. sync'[s] = SyncAtRest /\ \A t \in Syncs \ {s} : sync'[t] = sync[t] /\ tx'[t] = tx[t]
      BY <1>1 DEF SyncCommit, TypeOK, Processes
  <2> QED
      BY <2>1, OthersKeepBatch DEF SyncAtRest, SyncAt, SyncWritingPCs
<1>2. CASE \A s \in Syncs : /\ ~SyncBegin(s) /\ ~SyncPay(s) /\ ~SyncCommit(s)
                            /\ \A a \in Ads : ~SyncAdObject(s, a)
  <2>1. \A s \in Syncs : SyncStart(s) \/ SyncFetch(s) => sync'[s].pc \notin SyncWritingPCs
      BY DEF SyncStart, SyncFetch, SyncAt, SyncWritingPCs, TypeOK
  <2>2. SyncAtRest.pc \notin SyncWritingPCs
      BY DEF SyncAtRest, SyncAt, SyncWritingPCs
  <2> QED
      BY <1>2, <2>1, <2>2, OtherSteps, OthersKeepBatch
<1> QED
    BY <1>1, <1>2, SyncBeginKeepsBatch, SyncAdObjectKeepsBatch, SyncPayKeepsBatch

LEMMA InitBatch == Init => BatchWritten
BY DEF Init, BatchWritten, SyncAtRest, SyncAt, SyncWritingPCs

LEMMA AlwaysWhole == Spec => [](TypeOK /\ PayInv /\ BatchWritten)
<1>1. Init => BatchWritten
    BY InitBatch
<1>2. TypeOK /\ PayInv /\ BatchWritten /\ [Next]_vars => BatchWritten'
    BY NextBatch
<1> QED
    BY <1>1, <1>2, AlwaysPaid, PTL DEF Spec

\* A step that is no commit of a sync changes no snapshot.
LEMMA OnlyCommitsChange ==
    ASSUME TypeOK, PayInv, [Next]_vars, db'.snapshots # db.snapshots
    PROVE  \E s \in Syncs : SyncCommit(s)
<1> SUFFICES ASSUME \A s \in Syncs : ~SyncCommit(s) PROVE FALSE
    OBVIOUS
<1>1. \A s \in Syncs : /\ ~SyncBegin(s) /\ ~SyncPay(s)
                       /\ \A a \in Ads : ~SyncAdObject(s, a)
    BY DEF SyncBegin, SyncPay, SyncAdObject
<1> QED
    BY <1>1, OtherSteps

\* What the commit of a sync leaves.
LEMMA CommitLeaves ==
    ASSUME TypeOK, NEW s \in Syncs, SyncCommit(s)
    PROVE  /\ \A a \in DOMAIN tx[s].ads : db'.ads[a] = tx[s].ads[a]
           /\ DOMAIN db'.snapshots = DOMAIN tx[s].snapshots \cup DOMAIN db.snapshots
           /\ \A k \in DOMAIN tx[s].snapshots : db'.snapshots[k] = tx[s].snapshots[k]
           /\ \A k \in DOMAIN db.snapshots \ DOMAIN tx[s].snapshots :
                db'.snapshots[k] = db.snapshots[k]
<1>1. db' = Over(tx[s], db)
    BY DEF SyncCommit
<1>2. \A a \in DOMAIN tx[s].ads : db'.ads[a] = tx[s].ads[a]
    BY <1>1, OverAds
<1>3. /\ DOMAIN db'.snapshots = DOMAIN tx[s].snapshots \cup DOMAIN db.snapshots
      /\ \A k \in DOMAIN tx[s].snapshots : db'.snapshots[k] = tx[s].snapshots[k]
      /\ \A k \in DOMAIN db.snapshots \ DOMAIN tx[s].snapshots :
            db'.snapshots[k] = db.snapshots[k]
    BY <1>1, OverRows
<1> QED
    BY <1>2, <1>3

\* A dashboard's day changes as a whole: the commit of a sync, and no other
\* step, changes snapshots, and it leaves the ads it fetched, all of them and no
\* others, with the names and the figures of that fetch.
THEOREM SyncIsAlwaysAtomic == Spec => SyncIsAtomic
<1> DEFINE Whole ==
      db'.snapshots # db.snapshots =>
        \E s \in Syncs :
            /\ sync[s].pc = "writing" /\ sync'[s].pc = "idle"
            /\ \A a \in DOMAIN sync[s].batch :
                LET k == <<a, sync[s].day>>
                IN  /\ k \in DOMAIN db'.snapshots
                    /\ db'.ads[a] = sync[s].batch[a].name
                    /\ db'.snapshots[k].net = sync[s].batch[a].net
                    /\ db'.snapshots[k].asOf = sync[s].asOf
            /\ \A k \in DOMAIN db'.snapshots :
                \/ k[1] \in DOMAIN sync[s].batch /\ k[2] = sync[s].day
                \/ k \in DOMAIN db.snapshots /\ db'.snapshots[k] = db.snapshots[k]
<1>1. ASSUME TypeOK, PayInv, BatchWritten, [Next]_vars PROVE Whole
  <2> SUFFICES ASSUME db'.snapshots # db.snapshots PROVE Whole
      OBVIOUS
  <2>1. PICK s \in Syncs : SyncCommit(s)
      BY <1>1, OnlyCommitsChange
  <2>2. sync[s].pc = "writing" /\ sync[s].todo = {} /\ sync'[s].pc = "idle"
      BY <1>1, <2>1 DEF SyncCommit, SyncAtRest, SyncAt, TypeOK
  <2>3. /\ \A a \in DOMAIN sync[s].batch :
            /\ a \in DOMAIN tx[s].ads /\ tx[s].ads[a] = sync[s].batch[a].name
            /\ <<a, sync[s].day>> \in DOMAIN tx[s].snapshots
            /\ tx[s].snapshots[<<a, sync[s].day>>].net = sync[s].batch[a].net
        /\ \A k \in DOMAIN tx[s].snapshots :
            /\ k[1] \in DOMAIN sync[s].batch /\ k[2] = sync[s].day
            /\ tx[s].snapshots[k].asOf = sync[s].asOf
      BY <1>1, <2>2 DEF BatchWritten, SyncWritingPCs
  <2>4. /\ \A a \in DOMAIN tx[s].ads : db'.ads[a] = tx[s].ads[a]
        /\ DOMAIN db'.snapshots = DOMAIN tx[s].snapshots \cup DOMAIN db.snapshots
        /\ \A k \in DOMAIN tx[s].snapshots : db'.snapshots[k] = tx[s].snapshots[k]
        /\ \A k \in DOMAIN db.snapshots \ DOMAIN tx[s].snapshots :
              db'.snapshots[k] = db.snapshots[k]
      BY <1>1, <2>1, CommitLeaves
  <2>5. ASSUME NEW a \in DOMAIN sync[s].batch
        PROVE  LET k == <<a, sync[s].day>>
               IN  /\ k \in DOMAIN db'.snapshots
                   /\ db'.ads[a] = sync[s].batch[a].name
                   /\ db'.snapshots[k].net = sync[s].batch[a].net
                   /\ db'.snapshots[k].asOf = sync[s].asOf
      BY <2>3, <2>4
  <2>6. \A k \in DOMAIN db'.snapshots :
            \/ k[1] \in DOMAIN sync[s].batch /\ k[2] = sync[s].day
            \/ k \in DOMAIN db.snapshots /\ db'.snapshots[k] = db.snapshots[k]
      BY <2>3, <2>4
  <2> QED
      BY <2>2, <2>5, <2>6
<1>2. TypeOK /\ PayInv /\ BatchWritten /\ [Next]_vars => [Whole]_vars
    BY <1>1
<1> HIDE DEF Whole
<1>3. Spec => [][Whole]_vars
    BY <1>2, AlwaysWhole, PTL DEF Spec
<1> QED
    BY <1>3 DEF SyncIsAtomic, Whole

(***************************************************************************)
(* Closed days                                                             *)
(***************************************************************************)

\* A backfill finds and holds entries of its own collaborator only.
OwnEntries ==
    \A u \in Users : \A e \in DOMAIN tx[u].entries \cup DOMAIN link[u].nets : e[3] = u

\* A step that leaves every backfill with the entries it had, or with none.
LEMMA OthersKeepOwn ==
    ASSUME OwnEntries,
           \A u \in Users :
              /\ tx'[u].entries = tx[u].entries \/ DOMAIN tx'[u].entries = {}
              /\ link'[u].nets = link[u].nets \/ DOMAIN link'[u].nets = {}
    PROVE  OwnEntries'
BY DEF OwnEntries

\* The second query looks for the collaborator's own entries.
LEMMA LinkQuerySnapshotsKeepsOwn ==
    ASSUME TypeOK, OwnEntries, NEW u \in Users, LinkQuerySnapshots(u)
    PROVE  OwnEntries'
<1>1. DOMAIN link'[u].nets =
        {<<f[1], f[2], u, RoleOn(u, f[1])>> : f \in MatchingSnapshots(u)}
    BY DEF LinkQuerySnapshots, LinkAt, TypeOK
<1>2. /\ \A v \in Users \ {u} : link'[v] = link[v]
      /\ tx' = tx
    BY DEF LinkQuerySnapshots, TypeOK, dbVars
<1> QED
    BY <1>1, <1>2 DEF OwnEntries

\* Its insert takes them over.
LEMMA LinkInsertEntriesKeepsOwn ==
    ASSUME TypeOK, OwnEntries, NEW u \in Users, LinkInsertEntries(u)
    PROVE  OwnEntries'
<1> DEFINE rows == Missing(BackfillRows(u), db.entries)
<1>1. /\ tx'[u] = Over(Writes(NoRows, rows), tx[u])
      /\ \A v \in Users \ {u} : tx'[v] = tx[v] /\ link'[v] = link[v]
      /\ DOMAIN link'[u].nets = {}
    BY DEF LinkInsertEntries, LinkAt, NoRows, TypeOK, Processes
<1>2. DOMAIN rows \subseteq DOMAIN link[u].nets
    BY DEF Missing, BackfillRows
<1> HIDE DEF rows
<1>3. DOMAIN tx'[u].entries = DOMAIN rows \cup DOMAIN tx[u].entries
    BY <1>1, OverRows, WritesRows
<1> QED
    BY <1>1, <1>2, <1>3 DEF OwnEntries

\* The other steps give a backfill no entries.
LEMMA NextOwn == TypeOK /\ OwnEntries /\ [Next]_vars => OwnEntries'
<1> SUFFICES ASSUME TypeOK, OwnEntries, [Next]_vars PROVE OwnEntries'
    OBVIOUS
<1>1. ASSUME UNCHANGED link, \A u \in Users : tx'[u] = tx[u] PROVE OwnEntries'
    BY <1>1, OthersKeepOwn
<1>2. ASSUME NEW s \in Syncs, SyncStart(s) \/ SyncGoesOn(s) \/ SyncAborts(s)
      PROVE  OwnEntries'
  <2>1. UNCHANGED link /\ \A u \in Users : tx'[u] = tx[u]
      BY <1>2, ConstantsAssumption
      DEF SyncStart, SyncGoesOn, SyncFetch, SyncBegin, SyncAdObject, SyncPay,
          SyncCommit, SyncAborts, dbVars, TypeOK, Processes
  <2> QED
      BY <2>1, <1>1
<1>3. DOMAIN NoTables.entries = {}
    BY NoTablesRows
<1>4. ASSUME NEW u \in Users, LinkQueryAds(u) \/ LinkUpsertLinks(u) PROVE OwnEntries'
  <2>1. /\ DOMAIN link'[u].nets = {}
        /\ \A v \in Users \ {u} : link'[v] = link[v] /\ tx'[v] = tx[v]
      BY <1>4 DEF LinkQueryAds, LinkUpsertLinks, LinkAt, NoRows, TypeOK, Processes, dbVars
  <2>2. DOMAIN tx'[u].entries = DOMAIN tx[u].entries
    <3>1. CASE tx' = tx
        BY <3>1
    <3>2. CASE LinkUpsertLinks(u)
      <4>1. tx'[u] = Over(Writes(link[u].links, NoRows), tx[u])
          BY <3>2 DEF LinkUpsertLinks, TypeOK, Processes
      <4>2. DOMAIN tx'[u].entries
              = DOMAIN Writes(link[u].links, NoRows).entries \cup DOMAIN tx[u].entries
          BY <4>1, OverRows
      <4>3. DOMAIN Writes(link[u].links, NoRows).entries = {}
          BY WritesRows DEF NoRows
      <4> QED
          BY <4>2, <4>3
    <3> QED
        BY <1>4, <3>1, <3>2 DEF LinkQueryAds, dbVars
  <2> QED
      BY <2>1, <2>2 DEF OwnEntries
<1>5. ASSUME NEW u \in Users, LinkCommit(u) \/ LinkAborts(u) PROVE OwnEntries'
  <2>1. /\ DOMAIN link'[u].nets = {} /\ tx'[u] = NoTables
        /\ \A v \in Users \ {u} : link'[v] = link[v] /\ tx'[v] = tx[v]
      BY <1>5 DEF LinkCommit, LinkAborts, LinkAtRest, LinkAt, NoRows, TypeOK, Processes
  <2> QED
      BY <2>1, <1>3, OthersKeepOwn
<1>6. CASE Restart
  <2>1. \A u \in Users : tx'[u] = NoTables
      BY <1>6 DEF Restart, Processes
  <2>2. \A u \in Users : link'[u] = link[u] \/ DOMAIN link'[u].nets = {}
      BY <1>6 DEF Restart, LinkAtRest, LinkAt, NoRows
  <2> QED
      BY <2>1, <2>2, <1>3, OthersKeepOwn
<1>7. ASSUME NEW u \in Users, NEW row, CreateCollaborator(u, row) PROVE OwnEntries'
  <2>1. /\ tx' = tx /\ DOMAIN link'[u].nets = {}
        /\ \A v \in Users \ {u} : link'[v] = link[v]
      BY <1>7 DEF CreateCollaborator, LinkAt, NoRows, TypeOK
  <2> QED
      BY <2>1, OthersKeepOwn
<1>8. ASSUME NEW u \in Users, NEW row,
             UpdateCollaborator(u, row) \/ DeleteCollaborator(u)
      PROVE  OwnEntries'
    BY <1>8, <1>1 DEF UpdateCollaborator, DeleteCollaborator
<1>9. ASSUME NEW d \in 1 .. today, NEW a \in Ads, NEW obj, Revise(d, a, obj)
      PROVE  OwnEntries'
    BY <1>9, <1>1 DEF Revise, dbVars
<1>10. CASE NextDay \/ UNCHANGED vars
    BY <1>10, <1>1 DEF NextDay, dbVars, vars
<1>11. ASSUME NEW u \in Users, LinkGoesOn(u) PROVE OwnEntries'
    BY <1>4, <1>5, <1>11, LinkQuerySnapshotsKeepsOwn, LinkInsertEntriesKeepsOwn
    DEF LinkGoesOn
<1>12. ASSUME NEW s \in Syncs, NEW u \in Users, DeadlockVictim(s, u) PROVE OwnEntries'
    BY <1>2, <1>5, <1>12 DEF DeadlockVictim
<1> QED
    BY <1>2, <1>5, <1>6, <1>7, <1>8, <1>9, <1>10, <1>11, <1>12
    DEF Next, SyncFail, LinkFail

LEMMA AlwaysOwn == Spec => [](TypeOK /\ PayInv /\ BatchWritten /\ OwnEntries)
<1>1. Init => OwnEntries
    BY NoTablesRows DEF Init, OwnEntries, LinkAtRest, LinkAt, NoRows, Processes
<1>2. TypeOK /\ OwnEntries /\ [Next]_vars => OwnEntries'
    BY NextOwn
<1> QED
    BY <1>1, <1>2, AlwaysWhole, PTL DEF Spec

\* A closed day stays closed: a call that starts takes today's date, another
\* keeps the one it has.
LEMMA StaysClosed ==
    ASSUME TypeOK, [Next]_vars, NEW d \in Days, Closed(d)
    PROVE  Closed(d)'
<1>1. today \in Nat /\ d \in Nat /\ (today' = today \/ today' = today + 1)
  <2>1. today \in Nat /\ d \in Nat
      BY DEF TypeOK, Days
  <2>2. today' = today \/ today' = today + 1
      BY DEF Next, SyncGoesOn, SyncFail, LinkGoesOn, LinkFail, DeadlockVictim, SyncStart,
             SyncFetch, SyncBegin, SyncAdObject, SyncPay, SyncCommit, SyncAborts,
             LinkQueryAds, LinkUpsertLinks, LinkQuerySnapshots, LinkInsertEntries,
             LinkCommit, LinkAborts, Restart, CreateCollaborator, UpdateCollaborator,
             DeleteCollaborator, Revise, NextDay, worldVars, vars
  <2> QED
      BY <2>1, <2>2
<1>2. d < today'
    BY <1>1 DEF Closed
<1>3. \A s \in Syncs :
        \/ sync'[s].pc = "idle"
        \/ sync[s].pc # "idle" /\ sync'[s].day = sync[s].day
        \/ sync'[s].day = today
        \/ sync'[s] = sync[s]
  <2> DEFINE Goal == \A s \in Syncs :
                        \/ sync'[s].pc = "idle"
                        \/ sync[s].pc # "idle" /\ sync'[s].day = sync[s].day
                        \/ sync'[s].day = today
                        \/ sync'[s] = sync[s]
  <2>1. ASSUME NEW s \in Syncs, SyncStart(s) \/ SyncGoesOn(s) \/ SyncAborts(s)
        PROVE  Goal
    <3>1. \A t \in Syncs \ {s} : sync'[t] = sync[t]
        BY <2>1 DEF SyncStart, SyncGoesOn, SyncFetch, SyncBegin, SyncAdObject, SyncPay,
                    SyncCommit, SyncAborts, TypeOK
    <3>2. \/ sync'[s].pc = "idle"
          \/ sync[s].pc # "idle" /\ sync'[s].day = sync[s].day
          \/ sync'[s].day = today
        BY <2>1 DEF SyncStart, SyncGoesOn, SyncFetch, SyncBegin, SyncAdObject, SyncPay,
                    SyncCommit, SyncAborts, SyncAt, SyncAtRest, TypeOK
    <3> QED
        BY <3>1, <3>2
  <2>2. CASE Restart
      BY <2>2 DEF Restart, SyncAtRest, SyncAt
  <2>3. ASSUME UNCHANGED sync PROVE Goal
      BY <2>3
  <2>4. ASSUME NEW u \in Users, LinkGoesOn(u) \/ LinkAborts(u) PROVE Goal
      BY <2>3, <2>4 DEF LinkGoesOn, LinkAborts, LinkQueryAds, LinkUpsertLinks,
                  LinkQuerySnapshots, LinkInsertEntries, LinkCommit
  <2>5. /\ \A u \in Users : DeleteCollaborator(u) => Goal
        /\ \A u \in Users, row \in UserRow :
              CreateCollaborator(u, row) \/ UpdateCollaborator(u, row) => Goal
      BY <2>3 DEF CreateCollaborator, UpdateCollaborator, DeleteCollaborator
  <2>6. ASSUME NEW s \in Syncs, NEW u \in Users, DeadlockVictim(s, u) PROVE Goal
      BY <2>1, <2>4, <2>6 DEF DeadlockVictim
  <2>7. ASSUME NEW e \in 1 .. today, NEW a \in Ads, NEW obj, Revise(e, a, obj)
        PROVE  Goal
      BY <2>3, <2>7 DEF Revise
  <2>8. CASE NextDay \/ UNCHANGED vars
      BY <2>3, <2>8 DEF NextDay, vars
  <2>9. ASSUME NEW s \in Syncs, SyncStart(s) \/ SyncGoesOn(s) \/ SyncFail(s)
        PROVE  Goal
      BY <2>1, <2>9 DEF SyncFail
  <2>10. ASSUME NEW u \in Users, LinkGoesOn(u) \/ LinkFail(u) PROVE Goal
      BY <2>4, <2>10 DEF LinkFail
  <2>11. CASE UNCHANGED vars
      BY <2>8, <2>11
  <2> QED
      BY <2>2, <2>5, <2>6, <2>7, <2>8, <2>9, <2>10, <2>11 DEF Next
<1>4. ASSUME NEW s \in Syncs PROVE sync'[s].pc = "idle" \/ sync'[s].day # d
    BY <1>1, <1>3 DEF Closed
<1> QED
    BY <1>2, <1>4 DEF Closed

\* Only a commit changes what is committed.
LEMMA OnlyCommitsWrite ==
    ASSUME [Next]_vars, db' # db
    PROVE  \/ \E s \in Syncs : SyncCommit(s)
           \/ \E u \in Users : LinkCommit(u)
BY DEF Next, SyncGoesOn, SyncFail, LinkGoesOn, LinkFail, DeadlockVictim, SyncStart,
       SyncFetch, SyncBegin, SyncAdObject, SyncPay, SyncAborts, LinkQueryAds,
       LinkUpsertLinks, LinkQuerySnapshots, LinkInsertEntries, LinkAborts, Restart,
       CreateCollaborator, UpdateCollaborator, DeleteCollaborator, Revise, NextDay,
       dbVars, vars

\* What a collaborator earned on a day that is over is final once the calls
\* that took its date have ended: no call writes it again, however many there
\* are and however they overlap, and a backfill adds its own entries to it.
THEOREM ClosedDaysAlwaysStay == Spec => ClosedDaysStay
<1> DEFINE Stays(d) ==
      /\ Closed(d)'
      /\ \A a \in Ads :
          LET k == <<a, d>>
          IN  /\ k \in DOMAIN db'.snapshots <=> k \in DOMAIN db.snapshots
              /\ k \in DOMAIN db.snapshots => db'.snapshots[k] = db.snapshots[k]
      /\ \A e \in DOMAIN db.entries : e[2] = d =>
          e \in DOMAIN db'.entries /\ db'.entries[e] = db.entries[e]
      /\ \A e \in DOMAIN db'.entries \ DOMAIN db.entries : e[2] = d =>
          link[e[3]].pc = "priced" /\ link'[e[3]].pc = "done"
    Stay == \A d \in Days : Closed(d) => Stays(d)
<1>1. ASSUME TypeOK, PayInv, BatchWritten, OwnEntries, [Next]_vars,
             NEW d \in Days, Closed(d)
      PROVE  Stays(d)
  <2>1. Closed(d)'
      BY <1>1, StaysClosed
  <2>2. CASE db' = db
      BY <2>1, <2>2
  <2>3. ASSUME NEW s \in Syncs, SyncCommit(s) PROVE Stays(d)
    <3>1. sync[s].pc = "writing" /\ sync[s].day # d /\ db' = Over(tx[s], db)
        BY <1>1, <2>3 DEF SyncCommit, Closed
    <3>2. \A k \in DOMAIN tx[s].snapshots : k[2] # d
        BY <1>1, <3>1 DEF BatchWritten, SyncWritingPCs
    <3>3. \A e \in DOMAIN tx[s].entries : e[2] # d
        BY <1>1, <3>2 DEF PayInv, EntriesGrounded, SnapshotOf
    <3>4. \A a \in Ads : <<a, d>> \notin DOMAIN tx[s].snapshots
        BY <3>2
    <3>5. /\ DOMAIN db'.entries = DOMAIN tx[s].entries \cup DOMAIN db.entries
          /\ \A e \in DOMAIN db.entries \ DOMAIN tx[s].entries :
                db'.entries[e] = db.entries[e]
          /\ DOMAIN db'.snapshots = DOMAIN tx[s].snapshots \cup DOMAIN db.snapshots
          /\ \A k \in DOMAIN db.snapshots \ DOMAIN tx[s].snapshots :
                db'.snapshots[k] = db.snapshots[k]
        BY <3>1, OverRows
    <3> QED
        BY <2>1, <3>3, <3>4, <3>5
  <2>4. ASSUME NEW u \in Users, LinkCommit(u) PROVE Stays(d)
    <3>1. /\ DOMAIN db'.entries = DOMAIN tx[u].entries \cup DOMAIN db.entries
          /\ \A e \in DOMAIN db.entries : db'.entries[e] = db.entries[e]
          /\ DOMAIN db'.snapshots = DOMAIN db.snapshots
          /\ \A k \in DOMAIN db.snapshots : db'.snapshots[k] = db.snapshots[k]
        BY <1>1, <2>4, LinkCommitAdds
    <3>2. link[u].pc = "priced" /\ link'[u].pc = "done"
        BY <1>1, <2>4 DEF LinkCommit, LinkAtRest, LinkAt, TypeOK
    <3>3. \A e \in DOMAIN tx[u].entries : e[3] = u
        BY <1>1 DEF OwnEntries
    <3> QED
        BY <2>1, <3>1, <3>2, <3>3
  <2> QED
      BY <1>1, <2>2, <2>3, <2>4, OnlyCommitsWrite
<1>2. TypeOK /\ PayInv /\ BatchWritten /\ OwnEntries /\ [Next]_vars => [Stay]_vars
    BY <1>1
<1> HIDE DEF Stay
<1>3. Spec => [][Stay]_vars
    BY <1>2, AlwaysOwn, PTL DEF Spec
<1> QED
    BY <1>3 DEF ClosedDaysStay, Stay, Stays
=============================================================================
