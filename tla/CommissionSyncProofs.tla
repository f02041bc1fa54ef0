------------------------ MODULE CommissionSyncProofs ------------------------
(***************************************************************************)
(* Theorems about CommissionSync, for every value of its constants: its    *)
(* types, and that nobody is linked to an ad, or paid, by accident.        *)
(***************************************************************************)
EXTENDS CommissionSync, TLAPS

(***************************************************************************)
(* Tables                                                                  *)
(***************************************************************************)

\* The table without rows is a table of any kind.
LEMMA NoRowsIsTable ==
    ASSUME NEW K, NEW R
    PROVE  IsTable(NoRows, K, R)
BY DEF IsTable, NoRows

\* A table with a single row.
LEMMA OneRowIsTable ==
    ASSUME NEW K, NEW R, NEW k \in K, NEW r \in R
    PROVE  IsTable([x \in {k} |-> r], K, R)
BY DEF IsTable

\* An upsert keeps a table's type.
LEMMA UpsertIsTable ==
    ASSUME NEW K, NEW R, NEW rows, NEW t, IsTable(rows, K, R), IsTable(t, K, R)
    PROVE  IsTable(Upsert(rows, t), K, R)
BY DEF IsTable, Upsert

\* So does the choice of the rows an insert adds.
LEMMA MissingIsTable ==
    ASSUME NEW K, NEW R, NEW rows, NEW t, IsTable(rows, K, R)
    PROVE  IsTable(Missing(rows, t), K, R)
BY DEF IsTable, Missing

\* The rows of an upsert: the new one where there is one, else the old one.
LEMMA UpsertRows ==
    ASSUME NEW rows, NEW t
    PROVE  /\ DOMAIN Upsert(rows, t) = DOMAIN rows \cup DOMAIN t
           /\ \A k \in DOMAIN rows : Upsert(rows, t)[k] = rows[k]
           /\ \A k \in DOMAIN t \ DOMAIN rows : Upsert(rows, t)[k] = t[k]
BY DEF Upsert

\* A transaction that has written nothing, or only the dashboard's row.
LEMMA NoTablesTyped == IsTables(NoTables) /\ IsTables(OnlyDashboard)
BY NoRowsIsTable DEF IsTables, NoTables, OnlyDashboard

\* A commit, or a later statement, keeps the type of the tables.
LEMMA OverTyped ==
    ASSUME NEW new, NEW old, IsTables(new), IsTables(old)
    PROVE  IsTables(Over(new, old))
BY UpsertIsTable DEF IsTables, Over

\* The rows of a statement of the backfill.
LEMMA WritesTyped ==
    ASSUME NEW links, IsTable(links, LinkKey, Rates),
           NEW entries, IsTable(entries, EntryKey, EntryRow)
    PROVE  IsTables(Writes(links, entries))
BY NoRowsIsTable DEF IsTables, Writes

(***************************************************************************)
(* Amounts and roles                                                       *)
(***************************************************************************)

\* A collaborator a name refers to has one of the two roles on the ad.
LEMMA RoleTyped ==
    ASSUME NEW name, NEW code
    PROVE  RoleForCode(name, code) \in Roles
BY DEF RoleForCode, Roles

\* Amounts are integers.
LEMMA CommissionTyped ==
    ASSUME NEW net \in Int, NEW pct \in Nat
    PROVE  /\ ProfitBasedCommission(net, pct) \in Int
           /\ BackfillBase(net) \in Int
           /\ BackfillCommission(net, pct) \in Int
BY DEF ProfitBasedCommission, BackfillBase, BackfillCommission, PercentOf

\* The two writers of commission entries agree on every amount: the Go
\* function of the sync and the SQL expression of the backfill.
LEMMA WritersAgree ==
    ASSUME NEW net \in Int, NEW pct \in Nat
    PROVE  BackfillCommission(net, pct) = ProfitBasedCommission(net, pct)
BY DEF ProfitBasedCommission, BackfillCommission

(***************************************************************************)
(* Type correctness                                                        *)
(***************************************************************************)

\* The local state of a call.
LEMMA SyncAtTyped ==
    ASSUME NEW pc \in SyncPCs, NEW day \in Days, NEW asOf \in Nat,
           NEW batch, IsTable(batch, Ads, AdObject),
           NEW todo, todo \subseteq DOMAIN batch,
           NEW links, IsTable(links, LinkKey, Rates),
           NEW entries, IsTable(entries, EntryKey, EntryRow)
    PROVE  SyncState(SyncAt(pc, day, asOf, batch, todo, links, entries))
BY DEF SyncState, SyncAt

LEMMA SyncAtRestTyped == SyncState(SyncAtRest)
<1>1. 1 \in Days /\ "idle" \in SyncPCs
    BY ConstantsAssumption DEF Days, SyncPCs, SyncWritingPCs
<1> QED
    BY <1>1, NoRowsIsTable, SyncAtTyped DEF SyncAtRest

\* The local state of a backfill that runs.
LEMMA LinkAtTyped ==
    ASSUME NEW pc \in LinkPCs, NEW code \in Codes, NEW rate \in Rates,
           NEW links, IsTable(links, LinkKey, Rates),
           NEW nets, IsTable(nets, EntryKey, Int)
    PROVE  LinkState(LinkAt(pc, code, rate, links, nets))
BY DEF LinkState, LinkAt

\* The local state of one that does not.
LEMMA LinkAtRestTyped ==
    ASSUME NEW pc \in {"none", "done", "failed"}
    PROVE  LinkState(LinkAtRest(pc))
BY NoRowsIsTable DEF LinkState, LinkAt, LinkAtRest, LinkPCs, LinkRunningPCs

\* One process changes its local state.
LEMMA SyncSet ==
    ASSUME TypeOK, NEW s \in Syncs, NEW r, SyncState(r),
           sync' = [sync EXCEPT ![s] = r]
    PROVE  DOMAIN sync' = Syncs /\ \A t \in Syncs : SyncState(sync'[t])
BY DEF TypeOK

LEMMA LinkSet ==
    ASSUME TypeOK, NEW u \in Users, NEW r, LinkState(r),
           link' = [link EXCEPT ![u] = r]
    PROVE  DOMAIN link' = Users /\ \A v \in Users : LinkState(link'[v])
BY DEF TypeOK

LEMMA TxSet ==
    ASSUME TypeOK, NEW p \in Processes, NEW r, IsTables(r),
           tx' = [tx EXCEPT ![p] = r]
    PROVE  DOMAIN tx' = Processes /\ \A q \in Processes : IsTables(tx'[q])
BY DEF TypeOK

\* The initial state is typed.
LEMMA InitTyped == Init => TypeOK
<1> SUFFICES ASSUME Init PROVE TypeOK
    OBVIOUS
<1>1. IsTables(db) /\ \A p \in Processes : IsTables(tx[p])
    BY NoTablesTyped DEF Init
<1>2. \A s \in Syncs : SyncState(sync[s])
    BY SyncAtRestTyped DEF Init
<1>3. \A u \in Users : LinkState(link[u])
    BY LinkAtRestTyped DEF Init
<1>4. IsTable(users, Users, UserRow)
    BY NoRowsIsTable DEF Init
<1>5. \A d \in Days : IsTable(report[d], Ads, AdObject)
    BY NoRowsIsTable DEF Init
<1>6. today \in Days
    BY ConstantsAssumption DEF Init, Days
<1> QED
    BY <1>1, <1>2, <1>3, <1>4, <1>5, <1>6 DEF Init, TypeOK

\* The rows one ad object writes: its own, and those of its collaborators.
LEMMA AdRowsTyped ==
    ASSUME TypeOK, NEW a \in Ads, NEW d \in Days, NEW obj \in AdObject,
           NEW asOf \in Nat
    PROVE  IsTables(AdRows(a, d, obj, asOf))
<1>1. \A u \in Payees(obj.name) :
        u \in Users /\ RoleForCode(obj.name, users[u].code) \in Roles
    BY RoleTyped DEF Payees, TypeOK, IsTable
<1>2. obj.name \in AdName /\ obj.net \in Int
    BY DEF AdObject
<1>3. IsTable([k \in {a} |-> obj.name], Ads, AdName)
    BY <1>2, OneRowIsTable
<1> DEFINE row == [net |-> obj.net, asOf |-> asOf,
                   payees |-> {<<u, RoleForCode(obj.name, users[u].code)>> :
                                  u \in Payees(obj.name)}]
<1>4. row \in SnapshotRow
    BY <1>1, <1>2 DEF SnapshotRow
<1>5. IsTable([k \in {<<a, d>>} |-> row], SnapshotKey, SnapshotRow)
    BY <1>4, OneRowIsTable DEF SnapshotKey
<1> QED
    BY <1>3, <1>5, NoRowsIsTable DEF IsTables, AdRows

LEMMA PayRowsTyped ==
    ASSUME TypeOK, NEW a \in Ads, NEW d \in Days, NEW obj \in AdObject
    PROVE  /\ IsTable(SyncLinks(a, obj.name), LinkKey, Rates)
           /\ IsTable(SyncEntries(a, d, obj), EntryKey, EntryRow)
<1>1. \A u \in Payees(obj.name) : u \in Users /\ users[u] \in UserRow
    BY DEF Payees, TypeOK, IsTable
<1>2. \A u \in Payees(obj.name) : RoleForCode(obj.name, users[u].code) \in Roles
    BY RoleTyped
<1>3. IsTable(SyncLinks(a, obj.name), LinkKey, Rates)
    BY <1>1, <1>2 DEF IsTable, SyncLinks, LinkKey, UserRow
<1>4. \A u \in Users : users[u] \in UserRow =>
        [base |-> obj.net, pct |-> users[u].rate,
         value |-> ProfitBasedCommission(obj.net, users[u].rate)] \in EntryRow
    BY CommissionTyped, ConstantsAssumption DEF EntryRow, UserRow, AdObject
<1>5. IsTable(SyncEntries(a, d, obj), EntryKey, EntryRow)
  <2> DEFINE keys == {<<a, d, u, RoleForCode(obj.name, users[u].code)>> :
                          u \in Payees(obj.name)}
  <2>1. \A k \in keys : k \in EntryKey /\ users[k[3]] \in UserRow /\ k[3] \in Users
      BY <1>1, <1>2 DEF EntryKey
  <2> DEFINE priced(k) ==
          [base |-> obj.net, pct |-> users[k[3]].rate,
           value |-> ProfitBasedCommission(obj.net, users[k[3]].rate)]
  <2>2. \A k \in keys : priced(k) \in EntryRow
      BY <2>1, <1>4
  <2> HIDE DEF keys, priced
  <2>3. IsTable([k \in keys |-> priced(k)], EntryKey, EntryRow)
      BY <2>1, <2>2 DEF IsTable
  <2> QED
      BY <2>3 DEF SyncEntries, keys, priced
<1> QED
    BY <1>3, <1>5

\* Starting a call, fetching, taking the lock.
LEMMA SyncStartTyped ==
    ASSUME TypeOK, NEW s \in Syncs, SyncStart(s)
    PROVE  TypeOK'
<1>1. SyncState(SyncAt("dated", today, 0, NoRows, {}, NoRows, NoRows))
    BY NoRowsIsTable, SyncAtTyped DEF TypeOK, SyncPCs
<1>2. DOMAIN sync' = Syncs /\ \A t \in Syncs : SyncState(sync'[t])
    BY <1>1, SyncSet DEF SyncStart
<1> QED
    BY <1>2 DEF TypeOK, SyncStart, dbVars, worldVars, adminVars

LEMMA SyncFetchTyped ==
    ASSUME TypeOK, NEW s \in Syncs, SyncFetch(s)
    PROVE  TypeOK'
<1>1. sync[s].day \in Days
    BY DEF TypeOK, SyncState
<1>2. SyncState(SyncAt("fetched", sync[s].day, revisions, report[sync[s].day], {},
                       NoRows, NoRows))
    BY <1>1, NoRowsIsTable, SyncAtTyped DEF TypeOK, SyncPCs
<1>3. DOMAIN sync' = Syncs /\ \A t \in Syncs : SyncState(sync'[t])
    BY <1>2, SyncSet DEF SyncFetch
<1> QED
    BY <1>3 DEF TypeOK, SyncFetch, dbVars, worldVars, adminVars

LEMMA SyncBeginTyped ==
    ASSUME TypeOK, NEW s \in Syncs, SyncBegin(s)
    PROVE  TypeOK'
<1>1. SyncState(SyncAt("writing", sync[s].day, sync[s].asOf, sync[s].batch,
                       DOMAIN sync[s].batch, NoRows, NoRows))
    BY NoRowsIsTable, SyncAtTyped DEF TypeOK, SyncState, SyncPCs, SyncWritingPCs
<1>2. DOMAIN sync' = Syncs /\ \A t \in Syncs : SyncState(sync'[t])
    BY <1>1, SyncSet DEF SyncBegin
<1>3. DOMAIN tx' = Processes /\ \A p \in Processes : IsTables(tx'[p])
    BY NoTablesTyped, TxSet DEF SyncBegin, Processes
<1> QED
    BY <1>2, <1>3 DEF TypeOK, SyncBegin, worldVars, adminVars

\* Writing one ad object.
LEMMA SyncAdObjectTyped ==
    ASSUME TypeOK, NEW s \in Syncs, NEW a \in Ads, SyncAdObject(s, a)
    PROVE  TypeOK'
<1>1. SyncState(sync[s]) /\ a \in DOMAIN sync[s].batch
    BY DEF TypeOK, SyncState, SyncAdObject
<1> DEFINE obj == sync[s].batch[a]
<1>2. obj \in AdObject /\ sync[s].day \in Days /\ sync[s].asOf \in Nat
    BY <1>1 DEF SyncState, IsTable
<1> DEFINE rows == AdRows(a, sync[s].day, obj, sync[s].asOf)
           links == SyncLinks(a, obj.name)
           entries == SyncEntries(a, sync[s].day, obj)
<1>3. /\ tx' = [tx EXCEPT ![s] = Over(rows, tx[s])]
      /\ sync' = [sync EXCEPT ![s] =
            SyncAt("paying", sync[s].day, sync[s].asOf, sync[s].batch,
                   sync[s].todo \ {a}, links, entries)]
    BY DEF SyncAdObject
<1>4. IsTables(rows)
    BY <1>2, AdRowsTyped
<1>5. IsTable(links, LinkKey, Rates) /\ IsTable(entries, EntryKey, EntryRow)
    BY <1>2, PayRowsTyped
<1> HIDE DEF rows, links, entries
<1>6. s \in Processes /\ IsTables(Over(rows, tx[s]))
    BY <1>4, OverTyped DEF TypeOK, Processes
<1>7. DOMAIN tx' = Processes /\ \A p \in Processes : IsTables(tx'[p])
    BY <1>3, <1>6, TxSet
<1>8. SyncState(SyncAt("paying", sync[s].day, sync[s].asOf, sync[s].batch,
                       sync[s].todo \ {a}, links, entries))
    BY <1>1, <1>5, SyncAtTyped DEF SyncState, SyncPCs, SyncWritingPCs
<1>9. DOMAIN sync' = Syncs /\ \A t \in Syncs : SyncState(sync'[t])
    BY <1>3, <1>8, SyncSet
<1> QED
    BY <1>7, <1>9 DEF TypeOK, SyncAdObject, worldVars, adminVars

LEMMA SyncPayTyped ==
    ASSUME TypeOK, NEW s \in Syncs, SyncPay(s)
    PROVE  TypeOK'
<1>1. SyncState(sync[s])
    BY DEF TypeOK
<1>2. s \in Processes
      /\ IsTables(Over(Writes(sync[s].links, sync[s].entries), tx[s]))
    BY <1>1, WritesTyped, OverTyped DEF SyncState, TypeOK, Processes
<1>3. DOMAIN tx' = Processes /\ \A p \in Processes : IsTables(tx'[p])
    BY <1>2, TxSet DEF SyncPay
<1>4. SyncState(SyncAt("writing", sync[s].day, sync[s].asOf, sync[s].batch,
                       sync[s].todo, NoRows, NoRows))
    BY <1>1, NoRowsIsTable, SyncAtTyped DEF SyncState, SyncPCs, SyncWritingPCs
<1>5. DOMAIN sync' = Syncs /\ \A t \in Syncs : SyncState(sync'[t])
    BY <1>4, SyncSet DEF SyncPay
<1> QED
    BY <1>3, <1>5 DEF TypeOK, SyncPay, worldVars, adminVars

\* Ending a call, one way or the other.
LEMMA SyncCommitTyped ==
    ASSUME TypeOK, NEW s \in Syncs, SyncCommit(s)
    PROVE  TypeOK'
<1>1. s \in Processes /\ IsTables(Over(tx[s], db))
    BY OverTyped DEF TypeOK, Processes
<1>2. DOMAIN tx' = Processes /\ \A p \in Processes : IsTables(tx'[p])
    BY <1>1, NoTablesTyped, TxSet DEF SyncCommit
<1>3. DOMAIN sync' = Syncs /\ \A t \in Syncs : SyncState(sync'[t])
    BY SyncAtRestTyped, SyncSet DEF SyncCommit
<1> QED
    BY <1>1, <1>2, <1>3 DEF TypeOK, SyncCommit, worldVars, adminVars

LEMMA SyncAbortsTyped ==
    ASSUME TypeOK, NEW s \in Syncs, SyncAborts(s), failures' \in Nat
    PROVE  TypeOK'
<1>1. DOMAIN tx' = Processes /\ \A p \in Processes : IsTables(tx'[p])
    BY NoTablesTyped, TxSet DEF SyncAborts, Processes
<1>2. DOMAIN sync' = Syncs /\ \A t \in Syncs : SyncState(sync'[t])
    BY SyncAtRestTyped, SyncSet DEF SyncAborts
<1> QED
    BY <1>1, <1>2 DEF TypeOK, SyncAborts, worldVars, adminVars

LEMMA LinkAbortsTyped ==
    ASSUME TypeOK, NEW u \in Users, LinkAborts(u), failures' \in Nat
    PROVE  TypeOK'
<1>1. DOMAIN tx' = Processes /\ \A p \in Processes : IsTables(tx'[p])
    BY NoTablesTyped, TxSet DEF LinkAborts, Processes
<1>2. DOMAIN link' = Users /\ \A v \in Users : LinkState(link'[v])
    BY LinkAtRestTyped, LinkSet DEF LinkAborts
<1> QED
    BY <1>1, <1>2 DEF TypeOK, LinkAborts, worldVars, adminVars

LEMMA RestartTyped ==
    ASSUME TypeOK, Restart
    PROVE  TypeOK'
<1>1. DOMAIN tx' = Processes /\ \A p \in Processes : IsTables(tx'[p])
    BY NoTablesTyped DEF Restart
<1>2. DOMAIN sync' = Syncs /\ \A t \in Syncs : SyncState(sync'[t])
    BY SyncAtRestTyped DEF Restart
<1>3. DOMAIN link' = Users /\ \A u \in Users : LinkState(link'[u])
    BY LinkAtRestTyped DEF Restart, TypeOK
<1> QED
    BY <1>1, <1>2, <1>3 DEF TypeOK, Restart, worldVars, adminVars

\* The statements of the backfill.
LEMMA LinkQueryAdsTyped ==
    ASSUME TypeOK, NEW u \in Users, LinkQueryAds(u)
    PROVE  TypeOK'
<1>1. link[u].code \in Codes /\ link[u].rate \in Rates
    BY DEF TypeOK, LinkState, LinkQueryAds, LinkRunningPCs
<1> DEFINE rows == [k \in {<<a, u, RoleOn(u, a)>> : a \in MatchingAds(u)}
                        |-> link[u].rate]
<1>2. \A a \in MatchingAds(u) : a \in Ads /\ RoleOn(u, a) \in Roles
    BY RoleTyped DEF TypeOK, IsTables, IsTable, MatchingAds, RoleOn
<1>3. IsTable(rows, LinkKey, Rates)
    BY <1>1, <1>2 DEF IsTable, LinkKey
<1>4. link' = [link EXCEPT ![u] = LinkAt("matching", link[u].code, link[u].rate,
                                         rows, NoRows)]
    BY DEF LinkQueryAds
<1> HIDE DEF rows
<1>5. LinkState(LinkAt("matching", link[u].code, link[u].rate, rows, NoRows))
    BY <1>1, <1>3, NoRowsIsTable, LinkAtTyped DEF LinkPCs, LinkRunningPCs
<1>6. DOMAIN link' = Users /\ \A v \in Users : LinkState(link'[v])
    BY <1>4, <1>5, LinkSet
<1> QED
    BY <1>6 DEF TypeOK, LinkQueryAds, dbVars, worldVars, adminVars

LEMMA LinkUpsertLinksTyped ==
    ASSUME TypeOK, NEW u \in Users, LinkUpsertLinks(u)
    PROVE  TypeOK'
<1>1. link[u].code \in Codes /\ link[u].rate \in Rates
    BY DEF TypeOK, LinkState, LinkUpsertLinks, LinkRunningPCs
<1>2. IsTables(Writes(link[u].links, NoRows))
    BY NoRowsIsTable, WritesTyped DEF TypeOK, LinkState
<1>3. u \in Processes /\ IsTables(Over(Writes(link[u].links, NoRows), tx[u]))
    BY <1>2, OverTyped DEF TypeOK, Processes
<1>4. DOMAIN tx' = Processes /\ \A p \in Processes : IsTables(tx'[p])
    BY <1>3, TxSet DEF LinkUpsertLinks
<1>5. LinkState(LinkAt("matched", link[u].code, link[u].rate, NoRows, NoRows))
    BY <1>1, NoRowsIsTable, LinkAtTyped DEF LinkPCs, LinkRunningPCs
<1>6. DOMAIN link' = Users /\ \A v \in Users : LinkState(link'[v])
    BY <1>5, LinkSet DEF LinkUpsertLinks
<1> QED
    BY <1>4, <1>6 DEF TypeOK, LinkUpsertLinks, worldVars, adminVars

LEMMA LinkQuerySnapshotsTyped ==
    ASSUME TypeOK, NEW u \in Users, LinkQuerySnapshots(u)
    PROVE  TypeOK'
<1>1. link[u].code \in Codes /\ link[u].rate \in Rates
    BY DEF TypeOK, LinkState, LinkQuerySnapshots, LinkRunningPCs
<1> DEFINE keys == {<<f[1], f[2], u, RoleOn(u, f[1])>> :
                        f \in MatchingSnapshots(u)}
           rows == [k \in keys |-> db.snapshots[<<k[1], k[2]>>].net]
<1>2. \A f \in MatchingSnapshots(u) :
        /\ f \in SnapshotKey /\ f = <<f[1], f[2]>>
        /\ db.snapshots[f].net \in Int /\ RoleOn(u, f[1]) \in Roles
    BY RoleTyped DEF TypeOK, IsTables, IsTable, MatchingSnapshots, RoleOn,
                     SnapshotKey, SnapshotRow
<1>3. \A k \in keys : k \in EntryKey /\ db.snapshots[<<k[1], k[2]>>].net \in Int
    BY <1>2 DEF EntryKey, SnapshotKey
<1>4. IsTable(rows, EntryKey, Int)
    BY <1>3 DEF IsTable
<1>5. link' = [link EXCEPT ![u] = LinkAt("pricing", link[u].code, link[u].rate,
                                         NoRows, rows)]
    BY DEF LinkQuerySnapshots
<1> HIDE DEF rows
<1>6. LinkState(LinkAt("pricing", link[u].code, link[u].rate, NoRows, rows))
    BY <1>1, <1>4, NoRowsIsTable, LinkAtTyped DEF LinkPCs, LinkRunningPCs
<1>7. DOMAIN link' = Users /\ \A v \in Users : LinkState(link'[v])
    BY <1>5, <1>6, LinkSet
<1> QED
    BY <1>7 DEF TypeOK, LinkQuerySnapshots, dbVars, worldVars, adminVars

\* The rows the backfill inserts.
LEMMA BackfillRowsTyped ==
    ASSUME TypeOK, NEW u \in Users, link[u].pc \in LinkRunningPCs
    PROVE  IsTable(BackfillRows(u), EntryKey, EntryRow)
<1>1. link[u].rate \in Rates /\ link[u].rate \in Nat
    BY ConstantsAssumption DEF TypeOK, LinkState
<1>2. IsTable(link[u].nets, EntryKey, Int)
    BY DEF TypeOK, LinkState
<1>3. \A n \in Int : [base |-> BackfillBase(n), pct |-> link[u].rate,
                      value |-> BackfillCommission(n, link[u].rate)] \in EntryRow
    BY <1>1, CommissionTyped DEF EntryRow
<1> QED
    BY <1>2, <1>3 DEF IsTable, BackfillRows

LEMMA LinkInsertEntriesTyped ==
    ASSUME TypeOK, NEW u \in Users, LinkInsertEntries(u)
    PROVE  TypeOK'
<1>1. link[u].code \in Codes /\ link[u].rate \in Rates
    BY DEF TypeOK, LinkState, LinkInsertEntries, LinkRunningPCs
<1> DEFINE new == Missing(BackfillRows(u), db.entries)
<1>2. IsTable(new, EntryKey, EntryRow)
    BY BackfillRowsTyped, MissingIsTable DEF LinkInsertEntries, LinkRunningPCs
<1> HIDE DEF new
<1>3. u \in Processes /\ IsTables(Over(Writes(NoRows, new), tx[u]))
    BY <1>2, NoRowsIsTable, WritesTyped, OverTyped DEF TypeOK, Processes
<1>4. tx' = [tx EXCEPT ![u] = Over(Writes(NoRows, new), tx[u])]
    BY DEF LinkInsertEntries, new
<1>5. DOMAIN tx' = Processes /\ \A p \in Processes : IsTables(tx'[p])
    BY <1>3, <1>4, TxSet
<1>6. LinkState(LinkAt("priced", link[u].code, link[u].rate, NoRows, NoRows))
    BY <1>1, NoRowsIsTable, LinkAtTyped DEF LinkPCs, LinkRunningPCs
<1>7. DOMAIN link' = Users /\ \A v \in Users : LinkState(link'[v])
    BY <1>6, LinkSet DEF LinkInsertEntries
<1> QED
    BY <1>5, <1>7 DEF TypeOK, LinkInsertEntries, worldVars, adminVars

LEMMA LinkCommitTyped ==
    ASSUME TypeOK, NEW u \in Users, LinkCommit(u)
    PROVE  TypeOK'
<1>1. u \in Processes /\ IsTables(Over(tx[u], db))
    BY OverTyped DEF TypeOK, Processes
<1>2. DOMAIN tx' = Processes /\ \A p \in Processes : IsTables(tx'[p])
    BY <1>1, NoTablesTyped, TxSet DEF LinkCommit
<1>3. DOMAIN link' = Users /\ \A v \in Users : LinkState(link'[v])
    BY LinkAtRestTyped, LinkSet DEF LinkCommit
<1> QED
    BY <1>1, <1>2, <1>3 DEF TypeOK, LinkCommit, worldVars, adminVars

\* Administrators.
LEMMA SetUserTyped ==
    ASSUME TypeOK, NEW u \in Users, NEW row \in UserRow, SetUser(u, row)
    PROVE  /\ IsTable(users', Users, UserRow)
           /\ registered' \subseteq Users \X UserRow
<1>1. IsTable([v \in {u} |-> row], Users, UserRow)
    BY OneRowIsTable
<1>2. IsTable(Upsert([v \in {u} |-> row], users), Users, UserRow)
    BY <1>1, UpsertIsTable DEF TypeOK
<1> QED
    BY <1>2 DEF TypeOK, SetUser

LEMMA AdministratorsTyped ==
    ASSUME TypeOK, NEW u \in Users, NEW row \in UserRow,
           \/ CreateCollaborator(u, row)
           \/ UpdateCollaborator(u, row)
           \/ DeleteCollaborator(u)
    PROVE  TypeOK'
<1>1. CASE CreateCollaborator(u, row)
  <2>1. LinkState(LinkAt("queued", row.code, row.rate, NoRows, NoRows))
      BY NoRowsIsTable, LinkAtTyped DEF UserRow, LinkPCs, LinkRunningPCs
  <2>2. DOMAIN link' = Users /\ \A v \in Users : LinkState(link'[v])
      BY <1>1, <2>1, LinkSet DEF CreateCollaborator
  <2> QED
      BY <1>1, <2>2, SetUserTyped DEF TypeOK, CreateCollaborator, worldVars
<1>2. CASE UpdateCollaborator(u, row)
    BY <1>2, SetUserTyped DEF TypeOK, UpdateCollaborator, worldVars
<1>3. CASE DeleteCollaborator(u)
  <2>1. [code |-> users[u].code, rate |-> users[u].rate,
         status |-> "inactive"] \in UserRow
      BY <1>3 DEF DeleteCollaborator, TypeOK, IsTable, UserRow
  <2> QED
      BY <1>3, <2>1, SetUserTyped DEF TypeOK, DeleteCollaborator, worldVars
<1> QED
    BY <1>1, <1>2, <1>3

\* Utmify and the calendar.
LEMMA ReviseTyped ==
    ASSUME TypeOK, NEW d \in 1 .. today, NEW a \in Ads, NEW name \in AdNames,
           NEW net \in Nets, Revise(d, a, [name |-> name, net |-> net])
    PROVE  TypeOK'
<1> DEFINE obj == [name |-> name, net |-> net]
<1>1. obj \in AdObject
    BY ConstantsAssumption DEF AdObject
<1>2. d \in Days
    BY ConstantsAssumption DEF TypeOK, Days
<1> HIDE DEF obj
<1>3. IsTable(Upsert([b \in {a} |-> obj], report[d]), Ads, AdObject)
    BY <1>1, <1>2, OneRowIsTable, UpsertIsTable DEF TypeOK
<1>4. report' = [report EXCEPT ![d] = Upsert([b \in {a} |-> obj], report[d])]
    BY DEF Revise, obj
<1>5. DOMAIN report' = Days /\ \A e \in Days : IsTable(report'[e], Ads, AdObject)
    BY <1>3, <1>4 DEF TypeOK
<1>6. reported' = reported \cup {<<a, d, obj>>}
    BY DEF Revise, obj
<1>7. reported' \subseteq Ads \X Days \X AdObject
    BY <1>1, <1>2, <1>6 DEF TypeOK
<1> QED
    BY <1>5, <1>7 DEF TypeOK, Revise, dbVars, adminVars

LEMMA NextDayTyped ==
    ASSUME TypeOK, NextDay
    PROVE  TypeOK'
BY ConstantsAssumption DEF TypeOK, NextDay, dbVars, adminVars, Days

\* Every step keeps the types.
LEMMA NextTyped == TypeOK /\ [Next]_vars => TypeOK'
<1> SUFFICES ASSUME TypeOK, [Next]_vars PROVE TypeOK'
    OBVIOUS
<1>1. ASSUME NEW s \in Syncs, SyncStart(s) PROVE TypeOK'
    BY <1>1, SyncStartTyped
<1>2. ASSUME NEW s \in Syncs, SyncGoesOn(s) PROVE TypeOK'
    BY <1>2, SyncFetchTyped, SyncBeginTyped, SyncAdObjectTyped, SyncPayTyped,
       SyncCommitTyped
    DEF SyncGoesOn
<1>3. ASSUME NEW s \in Syncs, SyncFail(s) PROVE TypeOK'
  <2>1. failures' \in Nat
      BY <1>3 DEF SyncFail, TypeOK
  <2> QED
      BY <1>3, <2>1, SyncAbortsTyped DEF SyncFail
<1>4. ASSUME NEW u \in Users, LinkGoesOn(u) PROVE TypeOK'
    BY <1>4, LinkQueryAdsTyped, LinkUpsertLinksTyped, LinkQuerySnapshotsTyped,
       LinkInsertEntriesTyped, LinkCommitTyped
    DEF LinkGoesOn
<1>5. ASSUME NEW u \in Users, LinkFail(u) PROVE TypeOK'
  <2>1. failures' \in Nat
      BY <1>5 DEF LinkFail, TypeOK
  <2> QED
      BY <1>5, <2>1, LinkAbortsTyped DEF LinkFail
<1>6. ASSUME NEW s \in Syncs, NEW u \in Users, DeadlockVictim(s, u) PROVE TypeOK'
  <2>1. failures' \in Nat
      BY <1>6 DEF DeadlockVictim, TypeOK
  <2> QED
      BY <1>6, <2>1, SyncAbortsTyped, LinkAbortsTyped DEF DeadlockVictim
<1>7. CASE Restart
    BY <1>7, RestartTyped
<1>8. ASSUME NEW u \in Users, NEW row \in UserRow,
             CreateCollaborator(u, row) \/ UpdateCollaborator(u, row)
      PROVE  TypeOK'
    BY <1>8, AdministratorsTyped
<1>9. ASSUME NEW u \in Users, DeleteCollaborator(u) PROVE TypeOK'
  <2>1. users[u] \in UserRow
      BY <1>9 DEF DeleteCollaborator, TypeOK, IsTable
  <2> QED
      BY <1>9, <2>1, AdministratorsTyped
<1>10. ASSUME NEW d \in 1 .. today, NEW a \in Ads, NEW name \in AdNames,
              NEW net \in Nets, Revise(d, a, [name |-> name, net |-> net])
       PROVE  TypeOK'
    BY <1>10, ReviseTyped
<1>11. CASE NextDay
    BY <1>11, NextDayTyped
<1>12. CASE UNCHANGED vars
    BY <1>12 DEF TypeOK, vars
<1> QED
    BY <1>1, <1>2, <1>3, <1>4, <1>5, <1>6, <1>7, <1>8, <1>9, <1>10, <1>11, <1>12
    DEF Next

\* Every variable always has its type: the tables hold what their columns
\* allow and the processes what their code assigns.
THEOREM TypeCorrect == Spec => []TypeOK
<1> QED
    BY InitTyped, NextTyped, PTL DEF Spec

(***************************************************************************)
(* That nobody is linked to an ad, or paid, by accident.  The inductive    *)
(* invariant follows every row back to the report and to the               *)
(* collaborator's row it was computed from, through the local state of the *)
(* processes and through the open transactions.  R stands for reported and *)
(* G for registered.                                                       *)
(***************************************************************************)

Owed(R, G, a, u, r, pct) ==
    \E x \in R, y \in G :
        /\ x[1] = a /\ y[1] = u
        /\ Names(x[3].name, y[2].code)
        /\ RoleForCode(x[3].name, y[2].code) = r
        /\ y[2].rate = pct

Priced(R, a, d, row) ==
    \E x \in R :
        /\ x[1] = a /\ x[2] = d
        /\ row.base \in {x[3].net, BackfillBase(x[3].net)}
        /\ row.value = ProfitBasedCommission(x[3].net, row.pct)

Named(R, a, name) == \E x \in R : x[1] = a /\ x[3].name = name
Earned(R, a, d, net) == \E x \in R : x[1] = a /\ x[2] = d /\ x[3].net = net
KnownAs(G, u, code, rate) ==
    \E y \in G : y[1] = u /\ y[2].code = code /\ y[2].rate = rate

LinksOwed(R, G, t) == \A k \in DOMAIN t : Owed(R, G, k[1], k[2], k[3], t[k])

EntriesOwed(R, G, t) ==
    \A k \in DOMAIN t : /\ Owed(R, G, k[1], k[3], k[4], t[k].pct)
                        /\ Priced(R, k[1], k[2], t[k])

TablesOwed(R, G, t) ==
    /\ \A a \in DOMAIN t.ads : Named(R, a, t.ads[a])
    /\ \A k \in DOMAIN t.snapshots : Earned(R, k[1], k[2], t.snapshots[k].net)
    /\ LinksOwed(R, G, t.links)
    /\ EntriesOwed(R, G, t.entries)

SyncOwed(R, G, r) ==
    /\ \A a \in DOMAIN r.batch : <<a, r.day, r.batch[a]>> \in R
    /\ LinksOwed(R, G, r.links)
    /\ EntriesOwed(R, G, r.entries)

BackfillOwed(R, G, u, r) ==
    /\ r.pc \in LinkRunningPCs => KnownAs(G, u, r.code, r.rate)
    /\ LinksOwed(R, G, r.links)
    /\ \A k \in DOMAIN r.nets : /\ Owed(R, G, k[1], k[3], k[4], r.rate)
                                /\ Earned(R, k[1], k[2], r.nets[k])

\* The histories record what the world and the users table hold.
Recorded(R, G) ==
    /\ \A u \in DOMAIN users : <<u, users[u]>> \in G
    /\ \A d \in Days : \A a \in DOMAIN report[d] : <<a, d, report[d][a]>> \in R

OwedInv ==
    /\ Recorded(reported, registered)
    /\ TablesOwed(reported, registered, db)
    /\ \A p \in Processes : TablesOwed(reported, registered, tx[p])
    /\ \A s \in Syncs : SyncOwed(reported, registered, sync[s])
    /\ \A u \in Users : BackfillOwed(reported, registered, u, link[u])

(***************************************************************************)
(* Facts about justified rows                                              *)
(***************************************************************************)

\* What was once justified remains so: the histories only grow.
LEMMA OwedForever ==
    ASSUME NEW R, NEW R2, R \subseteq R2, NEW G, NEW G2, G \subseteq G2
    PROVE  /\ \A t : LinksOwed(R, G, t) => LinksOwed(R2, G2, t)
           /\ \A t : EntriesOwed(R, G, t) => EntriesOwed(R2, G2, t)
           /\ \A t : TablesOwed(R, G, t) => TablesOwed(R2, G2, t)
           /\ \A r : SyncOwed(R, G, r) => SyncOwed(R2, G2, r)
           /\ \A u, r : BackfillOwed(R, G, u, r) => BackfillOwed(R2, G2, u, r)
<1>1. \A a, u, r, pct : Owed(R, G, a, u, r, pct) => Owed(R2, G2, a, u, r, pct)
    BY DEF Owed
<1>2. \A a, d, row : Priced(R, a, d, row) => Priced(R2, a, d, row)
    BY DEF Priced
<1>3. \A a, name : Named(R, a, name) => Named(R2, a, name)
    BY DEF Named
<1>4. \A a, d, net : Earned(R, a, d, net) => Earned(R2, a, d, net)
    BY DEF Earned
<1>5. \A u, code, rate : KnownAs(G, u, code, rate) => KnownAs(G2, u, code, rate)
    BY DEF KnownAs
<1>6. \A t : LinksOwed(R, G, t) => LinksOwed(R2, G2, t)
    BY <1>1 DEF LinksOwed
<1>7. \A t : EntriesOwed(R, G, t) => EntriesOwed(R2, G2, t)
    BY <1>1, <1>2 DEF EntriesOwed
<1>8. \A t : TablesOwed(R, G, t) => TablesOwed(R2, G2, t)
    BY <1>3, <1>4, <1>6, <1>7 DEF TablesOwed
<1>9. \A r : SyncOwed(R, G, r) => SyncOwed(R2, G2, r)
    BY <1>6, <1>7 DEF SyncOwed
<1>10. \A u, r : BackfillOwed(R, G, u, r) => BackfillOwed(R2, G2, u, r)
    BY <1>1, <1>4, <1>5, <1>6 DEF BackfillOwed
<1> QED
    BY <1>6, <1>7, <1>8, <1>9, <1>10

\* Tables without rows.
LEMMA NothingOwed ==
    ASSUME NEW R, NEW G
    PROVE  /\ LinksOwed(R, G, NoRows) /\ EntriesOwed(R, G, NoRows)
           /\ TablesOwed(R, G, NoTables) /\ TablesOwed(R, G, OnlyDashboard)
           /\ SyncOwed(R, G, SyncAtRest)
           /\ \A u : \A pc \in {"none", "done", "failed"} :
                BackfillOwed(R, G, u, LinkAtRest(pc))
<1>1. DOMAIN NoRows = {}
    BY DEF NoRows
<1>2. LinksOwed(R, G, NoRows) /\ EntriesOwed(R, G, NoRows)
    BY <1>1 DEF LinksOwed, EntriesOwed
<1>3. TablesOwed(R, G, NoTables) /\ TablesOwed(R, G, OnlyDashboard)
    BY <1>1, <1>2 DEF TablesOwed, NoTables, OnlyDashboard
<1>4. SyncOwed(R, G, SyncAtRest)
    BY <1>1, <1>2 DEF SyncOwed, SyncAtRest, SyncAt
<1>5. \A u : \A pc \in {"none", "done", "failed"} : BackfillOwed(R, G, u, LinkAtRest(pc))
    BY <1>1, <1>2 DEF BackfillOwed, LinkAtRest, LinkAt, LinkRunningPCs
<1> QED
    BY <1>2, <1>3, <1>4, <1>5

\* A commit, or a later statement.
LEMMA OverOwed ==
    ASSUME NEW R, NEW G, NEW new, NEW old,
           TablesOwed(R, G, new), TablesOwed(R, G, old)
    PROVE  TablesOwed(R, G, Over(new, old))
<1>1. /\ Over(new, old).ads = Upsert(new.ads, old.ads)
      /\ Over(new, old).snapshots = Upsert(new.snapshots, old.snapshots)
      /\ Over(new, old).links = Upsert(new.links, old.links)
      /\ Over(new, old).entries = Upsert(new.entries, old.entries)
    BY DEF Over
<1>2. \A a \in DOMAIN Upsert(new.ads, old.ads) :
        Named(R, a, Upsert(new.ads, old.ads)[a])
    BY DEF TablesOwed, Upsert
<1>3. \A k \in DOMAIN Upsert(new.snapshots, old.snapshots) :
        Earned(R, k[1], k[2], Upsert(new.snapshots, old.snapshots)[k].net)
    BY DEF TablesOwed, Upsert
<1>4. LinksOwed(R, G, Upsert(new.links, old.links))
    BY DEF TablesOwed, LinksOwed, Upsert
<1>5. EntriesOwed(R, G, Upsert(new.entries, old.entries))
    BY DEF TablesOwed, EntriesOwed, Upsert
<1> QED
    BY <1>1, <1>2, <1>3, <1>4, <1>5 DEF TablesOwed

\* A statement that writes links and entries.
LEMMA WritesOwed ==
    ASSUME NEW R, NEW G, NEW links, LinksOwed(R, G, links),
           NEW entries, EntriesOwed(R, G, entries)
    PROVE  TablesOwed(R, G, Writes(links, entries))
BY DEF TablesOwed, Writes, NoRows

\* What a sync writes for an ad object Utmify reported.
LEMMA SyncRowsOwed ==
    ASSUME NEW R, NEW G, Recorded(R, G),
           NEW a, NEW d, NEW obj, <<a, d, obj>> \in R, NEW asOf
    PROVE  /\ TablesOwed(R, G, AdRows(a, d, obj, asOf))
           /\ LinksOwed(R, G, SyncLinks(a, obj.name))
           /\ EntriesOwed(R, G, SyncEntries(a, d, obj))
<1>1. \A u \in Payees(obj.name) :
        Owed(R, G, a, u, RoleForCode(obj.name, users[u].code), users[u].rate)
  <2> SUFFICES ASSUME NEW u \in Payees(obj.name)
               PROVE  Owed(R, G, a, u, RoleForCode(obj.name, users[u].code), users[u].rate)
      OBVIOUS
  <2>1. <<u, users[u]>> \in G /\ Names(obj.name, users[u].code)
      BY DEF Payees, Recorded
  <2> DEFINE x == <<a, d, obj>>
             y == <<u, users[u]>>
  <2>2. x \in R /\ y \in G /\ x[1] = a /\ x[3] = obj /\ y[1] = u /\ y[2] = users[u]
      BY <2>1
  <2> HIDE DEF x, y
  <2> QED
      BY <2>1, <2>2 DEF Owed
<1>2. LinksOwed(R, G, SyncLinks(a, obj.name))
    BY <1>1 DEF LinksOwed, SyncLinks
<1>3. \A p : Priced(R, a, d, [base |-> obj.net, pct |-> p,
                              value |-> ProfitBasedCommission(obj.net, p)])
    BY DEF Priced
<1>4. EntriesOwed(R, G, SyncEntries(a, d, obj))
    BY <1>1, <1>3 DEF EntriesOwed, SyncEntries
<1>5. Named(R, a, obj.name) /\ Earned(R, a, d, obj.net)
    BY DEF Named, Earned
<1>6. TablesOwed(R, G, AdRows(a, d, obj, asOf))
    BY <1>5, NothingOwed DEF TablesOwed, AdRows
<1> QED
    BY <1>2, <1>4, <1>6

(***************************************************************************)
(* Preservation                                                            *)
(***************************************************************************)

\* The initial state satisfies the invariant.
LEMMA InitOwed == Init => OwedInv
<1> SUFFICES ASSUME Init PROVE OwedInv
    OBVIOUS
<1>1. Recorded(reported, registered)
    BY DEF Init, Recorded, NoRows
<1>2. TablesOwed(reported, registered, db)
    BY NothingOwed DEF Init
<1>3. \A p \in Processes : TablesOwed(reported, registered, tx[p])
    BY NothingOwed DEF Init
<1>4. \A s \in Syncs : SyncOwed(reported, registered, sync[s])
    BY NothingOwed DEF Init
<1>5. \A u \in Users : BackfillOwed(reported, registered, u, link[u])
    BY NothingOwed DEF Init
<1> QED
    BY <1>1, <1>2, <1>3, <1>4, <1>5 DEF OwedInv

\* Steps of a process: what it leaves in its transaction, in the committed
\* tables and in its local state is justified, and the histories are as
\* they were.
LEMMA ProcessStepOwed ==
    ASSUME OwedInv, UNCHANGED <<users, report, reported, registered>>,
           TablesOwed(reported, registered, db'),
           \A p \in Processes : TablesOwed(reported, registered, tx'[p]),
           \A s \in Syncs : SyncOwed(reported, registered, sync'[s]),
           \A u \in Users : BackfillOwed(reported, registered, u, link'[u])
    PROVE  OwedInv'
<1>1. Recorded(reported, registered)'
    BY DEF OwedInv, Recorded
<1> QED
    BY <1>1 DEF OwedInv

\* A call starts or fetches: a batch is what Utmify reports at that time.
LEMMA SyncReadsOwed ==
    ASSUME TypeOK, OwedInv, NEW s \in Syncs, SyncStart(s) \/ SyncFetch(s)
    PROVE  OwedInv'
<1>1. UNCHANGED <<users, db, tx, link, report, reported, registered>>
    BY DEF SyncStart, SyncFetch, dbVars, worldVars, adminVars
<1>2. SyncOwed(reported, registered, sync'[s])
  <2>1. CASE SyncStart(s)
    <3>1. sync'[s] = SyncAt("dated", today, 0, NoRows, {}, NoRows, NoRows)
        BY <2>1 DEF SyncStart, TypeOK
    <3>2. /\ sync'[s].batch = NoRows /\ sync'[s].links = NoRows
          /\ sync'[s].entries = NoRows
        BY <3>1 DEF SyncAt
    <3> QED
        BY <3>2, NothingOwed DEF SyncOwed, NoRows
  <2>2. CASE SyncFetch(s)
    <3>1. sync'[s] = SyncAt("fetched", sync[s].day, revisions, report[sync[s].day],
                            {}, NoRows, NoRows)
        BY <2>2 DEF SyncFetch, TypeOK
    <3>2. /\ sync'[s].batch = report[sync[s].day] /\ sync'[s].day = sync[s].day
          /\ sync'[s].links = NoRows /\ sync'[s].entries = NoRows
        BY <3>1 DEF SyncAt
    <3>3. sync[s].day \in Days
        BY DEF TypeOK, SyncState
    <3> QED
        BY <3>2, <3>3, NothingOwed DEF SyncOwed, OwedInv, Recorded
  <2> QED
      BY <2>1, <2>2
<1>3. \A t \in Syncs \ {s} : sync'[t] = sync[t]
    BY DEF SyncStart, SyncFetch, TypeOK
<1>4. \A t \in Syncs : SyncOwed(reported, registered, sync'[t])
    BY <1>2, <1>3 DEF OwedInv
<1> QED
    BY <1>1, <1>4, ProcessStepOwed DEF OwedInv

\* A call takes the lock.
LEMMA SyncBeginOwed ==
    ASSUME TypeOK, OwedInv, NEW s \in Syncs, SyncBegin(s)
    PROVE  OwedInv'
<1>1. UNCHANGED <<users, db, link, report, reported, registered>>
    BY DEF SyncBegin, worldVars, adminVars
<1>2. sync'[s] = SyncAt("writing", sync[s].day, sync[s].asOf, sync[s].batch,
                        DOMAIN sync[s].batch, NoRows, NoRows)
    BY DEF SyncBegin, TypeOK
<1>3. /\ sync'[s].batch = sync[s].batch /\ sync'[s].day = sync[s].day
      /\ sync'[s].links = NoRows /\ sync'[s].entries = NoRows
    BY <1>2 DEF SyncAt
<1>4. SyncOwed(reported, registered, sync'[s])
    BY <1>3, NothingOwed DEF SyncOwed, OwedInv
<1>5. \A t \in Syncs : SyncOwed(reported, registered, sync'[t])
    BY <1>4 DEF OwedInv, SyncBegin, TypeOK
<1>6. \A p \in Processes : TablesOwed(reported, registered, tx'[p])
    BY NothingOwed DEF OwedInv, SyncBegin, TypeOK
<1> QED
    BY <1>1, <1>5, <1>6, ProcessStepOwed DEF OwedInv

\* It writes an ad and its snapshot, and prices its payees.
LEMMA SyncAdObjectOwed ==
    ASSUME TypeOK, OwedInv, NEW s \in Syncs, NEW a \in Ads, SyncAdObject(s, a)
    PROVE  OwedInv'
<1> DEFINE obj == sync[s].batch[a]
           d == sync[s].day
           rows == AdRows(a, d, obj, sync[s].asOf)
           links == SyncLinks(a, obj.name)
           entries == SyncEntries(a, d, obj)
<1>1. UNCHANGED <<users, db, link, report, reported, registered>>
    BY DEF SyncAdObject, worldVars, adminVars
<1>2. /\ tx' = [tx EXCEPT ![s] = Over(rows, tx[s])]
      /\ sync' = [sync EXCEPT ![s] =
            SyncAt("paying", d, sync[s].asOf, sync[s].batch, sync[s].todo \ {a},
                   links, entries)]
    BY DEF SyncAdObject
<1>3. a \in DOMAIN sync[s].batch
    BY DEF SyncAdObject, TypeOK, SyncState
<1>4. <<a, d, obj>> \in reported
    BY <1>3 DEF OwedInv, SyncOwed
<1> HIDE DEF obj, d
<1>5. /\ TablesOwed(reported, registered, rows)
      /\ LinksOwed(reported, registered, links)
      /\ EntriesOwed(reported, registered, entries)
    BY <1>4, SyncRowsOwed DEF OwedInv
<1> HIDE DEF rows, links, entries
<1>6. \A p \in Processes : TablesOwed(reported, registered, tx'[p])
  <2>1. s \in Processes /\ TablesOwed(reported, registered, tx[s])
      BY DEF OwedInv, Processes
  <2>2. TablesOwed(reported, registered, Over(rows, tx[s]))
      BY <1>5, <2>1, OverOwed
  <2> QED
      BY <1>2, <2>2 DEF OwedInv, TypeOK
<1>7. \A t \in Syncs : SyncOwed(reported, registered, sync'[t])
  <2>1. sync'[s] = SyncAt("paying", d, sync[s].asOf, sync[s].batch,
                          sync[s].todo \ {a}, links, entries)
      BY <1>2 DEF TypeOK
  <2>2. /\ sync'[s].batch = sync[s].batch /\ sync'[s].day = sync[s].day
        /\ sync'[s].links = links /\ sync'[s].entries = entries
      BY <2>1 DEF SyncAt, d
  <2>3. SyncOwed(reported, registered, sync'[s])
      BY <2>2, <1>5 DEF SyncOwed, OwedInv
  <2> QED
      BY <1>2, <2>3 DEF OwedInv, TypeOK
<1> QED
    BY <1>1, <1>6, <1>7, ProcessStepOwed DEF OwedInv

\* It writes the links and entries it found.
LEMMA SyncPayOwed ==
    ASSUME TypeOK, OwedInv, NEW s \in Syncs, SyncPay(s)
    PROVE  OwedInv'
<1>1. UNCHANGED <<users, db, link, report, reported, registered>>
    BY DEF SyncPay, worldVars, adminVars
<1>2. /\ s \in Processes
      /\ TablesOwed(reported, registered,
                    Over(Writes(sync[s].links, sync[s].entries), tx[s]))
    BY WritesOwed, OverOwed DEF OwedInv, SyncOwed, Processes
<1>3. \A p \in Processes : TablesOwed(reported, registered, tx'[p])
    BY <1>2 DEF SyncPay, OwedInv, TypeOK
<1>4. sync'[s] = SyncAt("writing", sync[s].day, sync[s].asOf, sync[s].batch,
                        sync[s].todo, NoRows, NoRows)
    BY DEF SyncPay, TypeOK
<1>5. /\ sync'[s].batch = sync[s].batch /\ sync'[s].day = sync[s].day
      /\ sync'[s].links = NoRows /\ sync'[s].entries = NoRows
    BY <1>4 DEF SyncAt
<1>6. SyncOwed(reported, registered, sync'[s])
    BY <1>5, NothingOwed DEF SyncOwed, OwedInv
<1>7. \A t \in Syncs : SyncOwed(reported, registered, sync'[t])
    BY <1>6 DEF OwedInv, SyncPay, TypeOK
<1> QED
    BY <1>1, <1>3, <1>7, ProcessStepOwed DEF OwedInv

\* It commits or rolls back.
LEMMA SyncEndsOwed ==
    ASSUME TypeOK, OwedInv, NEW s \in Syncs, SyncCommit(s) \/ SyncAborts(s)
    PROVE  OwedInv'
<1>1. UNCHANGED <<users, link, report, reported, registered>>
    BY DEF SyncCommit, SyncAborts, worldVars, adminVars
<1>2. TablesOwed(reported, registered, Over(tx[s], db))
    BY OverOwed DEF OwedInv, Processes
<1>3. TablesOwed(reported, registered, db')
    BY <1>2 DEF SyncCommit, SyncAborts, OwedInv
<1>4. \A p \in Processes : TablesOwed(reported, registered, tx'[p])
    BY NothingOwed DEF SyncCommit, SyncAborts, OwedInv, TypeOK
<1>5. \A t \in Syncs : SyncOwed(reported, registered, sync'[t])
    BY NothingOwed DEF SyncCommit, SyncAborts, OwedInv, TypeOK
<1> QED
    BY <1>1, <1>3, <1>4, <1>5, ProcessStepOwed DEF OwedInv

\* A code and a rate a collaborator once had, and a name an ad once had.
LEMMA KnownOwed ==
    ASSUME NEW R, NEW G, NEW a, NEW name, Named(R, a, name),
           NEW u, NEW code, NEW rate, KnownAs(G, u, code, rate), Names(name, code)
    PROVE  Owed(R, G, a, u, RoleForCode(name, code), rate)
BY DEF Named, KnownAs, Owed

\* A backfill looks for the ads: the links it is to write.
LEMMA LinkQueryAdsOwed ==
    ASSUME TypeOK, OwedInv, NEW u \in Users, LinkQueryAds(u)
    PROVE  OwedInv'
<1> DEFINE keys == {<<a, u, RoleOn(u, a)>> : a \in MatchingAds(u)}
           rows == [k \in keys |-> link[u].rate]
<1>1. UNCHANGED <<users, db, tx, sync, report, reported, registered>>
    BY DEF LinkQueryAds, dbVars, worldVars, adminVars
<1>2. KnownAs(registered, u, link[u].code, link[u].rate)
    BY DEF LinkQueryAds, OwedInv, BackfillOwed, LinkRunningPCs
<1>3. \A a \in MatchingAds(u) :
        Owed(reported, registered, a, u, RoleOn(u, a), link[u].rate)
    BY <1>2, KnownOwed DEF MatchingAds, RoleOn, OwedInv, TablesOwed
<1>4. LinksOwed(reported, registered, rows)
    BY <1>3 DEF LinksOwed
<1>5. link' = [link EXCEPT ![u] = LinkAt("matching", link[u].code, link[u].rate,
                                         rows, NoRows)]
    BY DEF LinkQueryAds
<1> HIDE DEF rows
<1>6. link'[u] = LinkAt("matching", link[u].code, link[u].rate, rows, NoRows)
    BY <1>5 DEF TypeOK
<1>7. /\ link'[u].code = link[u].code /\ link'[u].rate = link[u].rate
      /\ link'[u].links = rows /\ link'[u].nets = NoRows
    BY <1>6 DEF LinkAt
<1>8. BackfillOwed(reported, registered, u, link'[u])
    BY <1>2, <1>4, <1>7 DEF BackfillOwed, NoRows
<1>9. \A v \in Users : BackfillOwed(reported, registered, v, link'[v])
    BY <1>5, <1>8 DEF OwedInv, TypeOK
<1> QED
    BY <1>1, <1>9, ProcessStepOwed DEF OwedInv

\* It writes them.
LEMMA LinkUpsertLinksOwed ==
    ASSUME TypeOK, OwedInv, NEW u \in Users, LinkUpsertLinks(u)
    PROVE  OwedInv'
<1>1. UNCHANGED <<users, db, sync, report, reported, registered>>
    BY DEF LinkUpsertLinks, worldVars, adminVars
<1>2. TablesOwed(reported, registered, Writes(link[u].links, NoRows))
    BY NothingOwed, WritesOwed DEF OwedInv, BackfillOwed
<1>3. /\ u \in Processes
      /\ TablesOwed(reported, registered, Over(Writes(link[u].links, NoRows), tx[u]))
    BY <1>2, OverOwed DEF OwedInv, Processes
<1>4. \A p \in Processes : TablesOwed(reported, registered, tx'[p])
    BY <1>3 DEF LinkUpsertLinks, OwedInv, TypeOK
<1>5. link'[u] = LinkAt("matched", link[u].code, link[u].rate, NoRows, NoRows)
    BY DEF LinkUpsertLinks, TypeOK
<1>6. /\ link'[u].code = link[u].code /\ link'[u].rate = link[u].rate
      /\ link'[u].links = NoRows /\ link'[u].nets = NoRows
      /\ link[u].pc \in LinkRunningPCs
    BY <1>5 DEF LinkAt, LinkUpsertLinks, LinkRunningPCs
<1>7. BackfillOwed(reported, registered, u, link'[u])
    BY <1>6, NothingOwed DEF BackfillOwed, OwedInv, NoRows
<1>8. \A v \in Users : BackfillOwed(reported, registered, v, link'[v])
    BY <1>7 DEF OwedInv, LinkUpsertLinks, TypeOK
<1> QED
    BY <1>1, <1>4, <1>8, ProcessStepOwed DEF OwedInv

\* It looks for the snapshots: the net profits it is to price.
LEMMA LinkQuerySnapshotsOwed ==
    ASSUME TypeOK, OwedInv, NEW u \in Users, LinkQuerySnapshots(u)
    PROVE  OwedInv'
<1> DEFINE keys == {<<f[1], f[2], u, RoleOn(u, f[1])>> : f \in MatchingSnapshots(u)}
           rows == [k \in keys |-> db.snapshots[<<k[1], k[2]>>].net]
<1>1. UNCHANGED <<users, db, tx, sync, report, reported, registered>>
    BY DEF LinkQuerySnapshots, dbVars, worldVars, adminVars
<1>2. KnownAs(registered, u, link[u].code, link[u].rate)
    BY DEF LinkQuerySnapshots, OwedInv, BackfillOwed, LinkRunningPCs
<1>3. \A a \in MatchingAds(u) :
        Owed(reported, registered, a, u, RoleOn(u, a), link[u].rate)
    BY <1>2, KnownOwed DEF MatchingAds, RoleOn, OwedInv, TablesOwed
<1>4. \A f \in MatchingSnapshots(u) :
        /\ f[1] \in MatchingAds(u) /\ f \in DOMAIN db.snapshots
        /\ f = <<f[1], f[2]>>
    BY DEF MatchingSnapshots, TypeOK, IsTables, IsTable, SnapshotKey
<1>5. \A f \in MatchingSnapshots(u) :
        Earned(reported, f[1], f[2], db.snapshots[<<f[1], f[2]>>].net)
    BY <1>4 DEF OwedInv, TablesOwed
<1>6. \A k \in keys :
        /\ Owed(reported, registered, k[1], k[3], k[4], link[u].rate)
        /\ Earned(reported, k[1], k[2], rows[k])
  <2> SUFFICES ASSUME NEW k \in keys
               PROVE  /\ Owed(reported, registered, k[1], k[3], k[4], link[u].rate)
                      /\ Earned(reported, k[1], k[2], rows[k])
      OBVIOUS
  <2>1. PICK f \in MatchingSnapshots(u) : k = <<f[1], f[2], u, RoleOn(u, f[1])>>
      OBVIOUS
  <2>2. /\ k[1] = f[1] /\ k[2] = f[2] /\ k[3] = u /\ k[4] = RoleOn(u, f[1])
      BY <2>1
  <2>3. rows[k] = db.snapshots[<<f[1], f[2]>>].net
      BY <2>2
  <2>4. Owed(reported, registered, k[1], k[3], k[4], link[u].rate)
      BY <1>3, <1>4, <2>2
  <2>5. Earned(reported, k[1], k[2], rows[k])
      BY <1>5, <2>2, <2>3
  <2> QED
      BY <2>4, <2>5
<1>7. link' = [link EXCEPT ![u] = LinkAt("pricing", link[u].code, link[u].rate,
                                         NoRows, rows)]
    BY DEF LinkQuerySnapshots
<1>8. DOMAIN rows = keys
    OBVIOUS
<1> HIDE DEF rows, keys
<1>9. link'[u] = LinkAt("pricing", link[u].code, link[u].rate, NoRows, rows)
    BY <1>7 DEF TypeOK
<1>10. /\ link'[u].code = link[u].code /\ link'[u].rate = link[u].rate
       /\ link'[u].links = NoRows /\ link'[u].nets = rows
    BY <1>9 DEF LinkAt
<1>11. BackfillOwed(reported, registered, u, link'[u])
    BY <1>2, <1>6, <1>8, <1>10, NothingOwed DEF BackfillOwed
<1>12. \A v \in Users : BackfillOwed(reported, registered, v, link'[v])
    BY <1>7, <1>11 DEF OwedInv, TypeOK
<1> QED
    BY <1>1, <1>12, ProcessStepOwed DEF OwedInv

\* Its insert prices what it found, and DO NOTHING keeps a part of it.
LEMMA LinkInsertEntriesOwed ==
    ASSUME TypeOK, OwedInv, NEW u \in Users, LinkInsertEntries(u)
    PROVE  OwedInv'
<1> DEFINE rows == Missing(BackfillRows(u), db.entries)
<1>1. UNCHANGED <<users, db, sync, report, reported, registered>>
    BY DEF LinkInsertEntries, worldVars, adminVars
<1>2. /\ KnownAs(registered, u, link[u].code, link[u].rate)
      /\ link[u].rate \in Nat /\ link[u].pc \in LinkRunningPCs
    BY ConstantsAssumption
    DEF LinkInsertEntries, OwedInv, BackfillOwed, LinkRunningPCs, TypeOK, LinkState
<1>3. \A k \in DOMAIN link[u].nets :
        /\ Owed(reported, registered, k[1], k[3], k[4], BackfillRows(u)[k].pct)
        /\ Priced(reported, k[1], k[2], BackfillRows(u)[k])
  <2> SUFFICES ASSUME NEW k \in DOMAIN link[u].nets
               PROVE  /\ Owed(reported, registered, k[1], k[3], k[4],
                              BackfillRows(u)[k].pct)
                      /\ Priced(reported, k[1], k[2], BackfillRows(u)[k])
      OBVIOUS
  <2> DEFINE net == link[u].nets[k]
  <2>1. /\ BackfillRows(u)[k].base = BackfillBase(net)
        /\ BackfillRows(u)[k].pct = link[u].rate
        /\ BackfillRows(u)[k].value = BackfillCommission(net, link[u].rate)
      BY DEF BackfillRows
  <2>2. net \in Int
      BY DEF TypeOK, LinkState, IsTable
  <2>3. BackfillCommission(net, link[u].rate) = ProfitBasedCommission(net, link[u].rate)
      BY <1>2, <2>2 DEF BackfillCommission, ProfitBasedCommission
  <2>4. /\ Owed(reported, registered, k[1], k[3], k[4], link[u].rate)
        /\ Earned(reported, k[1], k[2], net)
      BY DEF OwedInv, BackfillOwed
  <2>5. Priced(reported, k[1], k[2], BackfillRows(u)[k])
      BY <2>1, <2>3, <2>4 DEF Earned, Priced
  <2> QED
      BY <2>1, <2>4, <2>5
<1>4. DOMAIN BackfillRows(u) = DOMAIN link[u].nets
    BY DEF BackfillRows
<1>5. EntriesOwed(reported, registered, rows)
    BY <1>3, <1>4 DEF EntriesOwed, Missing
<1> HIDE DEF rows
<1>6. TablesOwed(reported, registered, Writes(NoRows, rows))
    BY <1>5, NothingOwed, WritesOwed
<1>7. /\ u \in Processes
      /\ TablesOwed(reported, registered, Over(Writes(NoRows, rows), tx[u]))
    BY <1>6, OverOwed DEF OwedInv, Processes
<1>8. \A p \in Processes : TablesOwed(reported, registered, tx'[p])
    BY <1>7 DEF LinkInsertEntries, OwedInv, TypeOK, rows
<1>9. link'[u] = LinkAt("priced", link[u].code, link[u].rate, NoRows, NoRows)
    BY DEF LinkInsertEntries, TypeOK
<1>10. /\ link'[u].code = link[u].code /\ link'[u].rate = link[u].rate
       /\ link'[u].links = NoRows /\ link'[u].nets = NoRows
    BY <1>9 DEF LinkAt
<1>11. BackfillOwed(reported, registered, u, link'[u])
    BY <1>2, <1>10, NothingOwed DEF BackfillOwed, NoRows
<1>12. \A v \in Users : BackfillOwed(reported, registered, v, link'[v])
    BY <1>11 DEF OwedInv, LinkInsertEntries, TypeOK
<1> QED
    BY <1>1, <1>8, <1>12, ProcessStepOwed DEF OwedInv

\* It commits or rolls back.
LEMMA LinkEndsOwed ==
    ASSUME TypeOK, OwedInv, NEW u \in Users, LinkCommit(u) \/ LinkAborts(u)
    PROVE  OwedInv'
<1>1. UNCHANGED <<users, sync, report, reported, registered>>
    BY DEF LinkCommit, LinkAborts, worldVars, adminVars
<1>2. TablesOwed(reported, registered, Over(tx[u], db))
    BY OverOwed DEF OwedInv, Processes
<1>3. TablesOwed(reported, registered, db')
    BY <1>2 DEF LinkCommit, LinkAborts, OwedInv
<1>4. \A p \in Processes : TablesOwed(reported, registered, tx'[p])
    BY NothingOwed DEF LinkCommit, LinkAborts, OwedInv, TypeOK
<1>5. \A v \in Users : BackfillOwed(reported, registered, v, link'[v])
  <2>1. \/ link' = [link EXCEPT ![u] = LinkAtRest("done")]
        \/ link' = [link EXCEPT ![u] = LinkAtRest("failed")]
      BY DEF LinkCommit, LinkAborts
  <2>2. /\ link'[u] \in {LinkAtRest("done"), LinkAtRest("failed")}
        /\ \A v \in Users \ {u} : link'[v] = link[v]
      BY <2>1 DEF TypeOK
  <2>3. /\ BackfillOwed(reported, registered, u, LinkAtRest("done"))
        /\ BackfillOwed(reported, registered, u, LinkAtRest("failed"))
      BY NothingOwed
  <2>4. BackfillOwed(reported, registered, u, link'[u])
      BY <2>2, <2>3
  <2> QED
      BY <2>2, <2>4 DEF OwedInv
<1> QED
    BY <1>1, <1>3, <1>4, <1>5, ProcessStepOwed DEF OwedInv

\* The process is restarted.
LEMMA RestartOwed ==
    ASSUME TypeOK, OwedInv, Restart
    PROVE  OwedInv'
<1>1. UNCHANGED <<users, db, report, reported, registered>>
    BY DEF Restart, worldVars, adminVars
<1>2. /\ \A p \in Processes : TablesOwed(reported, registered, tx'[p])
      /\ \A s \in Syncs : SyncOwed(reported, registered, sync'[s])
    BY NothingOwed DEF Restart
<1>3. \A u \in Users : BackfillOwed(reported, registered, u, link'[u])
    BY NothingOwed DEF Restart, OwedInv
<1> QED
    BY <1>1, <1>2, <1>3, ProcessStepOwed DEF OwedInv

\* A collaborator's row is recorded in the history when it is written.
LEMMA AdministratorsOwed ==
    ASSUME TypeOK, OwedInv, NEW u \in Users, NEW row \in UserRow,
           \/ CreateCollaborator(u, row)
           \/ UpdateCollaborator(u, row)
           \/ DeleteCollaborator(u)
    PROVE  OwedInv'
<1>1. UNCHANGED <<db, tx, sync, report, reported>>
    BY DEF CreateCollaborator, UpdateCollaborator, DeleteCollaborator, worldVars
<1>2. PICK written : SetUser(u, written)
    BY DEF CreateCollaborator, UpdateCollaborator, DeleteCollaborator
<1>3. registered \subseteq registered' /\ <<u, written>> \in registered'
    BY <1>2 DEF SetUser
<1>4. \A v \in DOMAIN users' : <<v, users'[v]>> \in registered'
    BY <1>2, <1>3 DEF SetUser, Upsert, OwedInv, Recorded
<1>5. Recorded(reported, registered)'
    BY <1>1, <1>4 DEF OwedInv, Recorded
<1>6. /\ TablesOwed(reported, registered', db)
      /\ \A p \in Processes : TablesOwed(reported, registered', tx[p])
      /\ \A s \in Syncs : SyncOwed(reported, registered', sync[s])
      /\ \A v \in Users : BackfillOwed(reported, registered', v, link[v])
    BY <1>3, OwedForever DEF OwedInv
<1>7. \A v \in Users : BackfillOwed(reported, registered', v, link'[v])
  <2>1. CASE CreateCollaborator(u, row)
    <3>1. link'[u] = LinkAt("queued", row.code, row.rate, NoRows, NoRows)
        BY <2>1 DEF CreateCollaborator, TypeOK
    <3>2. <<u, row>> \in registered'
        BY <2>1 DEF CreateCollaborator, SetUser
    <3>3. KnownAs(registered', u, row.code, row.rate)
        BY <3>2 DEF KnownAs
    <3>4. /\ link'[u].code = row.code /\ link'[u].rate = row.rate
          /\ link'[u].links = NoRows /\ link'[u].nets = NoRows
        BY <3>1 DEF LinkAt
    <3>5. LinksOwed(reported, registered', NoRows)
        BY NothingOwed
    <3>6. BackfillOwed(reported, registered', u, link'[u])
        BY <3>3, <3>4, <3>5 DEF BackfillOwed, NoRows
    <3>7. \A v \in Users \ {u} : link'[v] = link[v]
        BY <2>1 DEF CreateCollaborator, TypeOK
    <3> QED
        BY <1>6, <3>6, <3>7
  <2>2. CASE UpdateCollaborator(u, row) \/ DeleteCollaborator(u)
      BY <1>6, <2>2 DEF UpdateCollaborator, DeleteCollaborator
  <2> QED
      BY <2>1, <2>2
<1> QED
    BY <1>1, <1>5, <1>6, <1>7 DEF OwedInv

\* Utmify's new figures are recorded in the history when they appear.
LEMMA ReviseOwed ==
    ASSUME TypeOK, OwedInv, NEW d \in Days, NEW a \in Ads, NEW obj,
           Revise(d, a, obj)
    PROVE  OwedInv'
<1>1. UNCHANGED <<users, db, tx, sync, link, registered>>
    BY DEF Revise, dbVars, adminVars
<1>2. reported \subseteq reported' /\ <<a, d, obj>> \in reported'
    BY DEF Revise
<1>3. \A e \in Days : \A b \in DOMAIN report'[e] :
        <<b, e, report'[e][b]>> \in reported'
  <2> SUFFICES ASSUME NEW e \in Days, NEW b \in DOMAIN report'[e]
               PROVE  <<b, e, report'[e][b]>> \in reported'
      OBVIOUS
  <2>1. CASE e = d
    <3>1. report'[d] = Upsert([c \in {a} |-> obj], report[d])
        BY DEF Revise, TypeOK
    <3> QED
        BY <2>1, <3>1, <1>2 DEF Upsert, OwedInv, Recorded
  <2>2. CASE e # d
    <3>1. report'[e] = report[e]
        BY <2>2 DEF Revise, TypeOK
    <3> QED
        BY <3>1, <1>2 DEF OwedInv, Recorded
  <2> QED
      BY <2>1, <2>2
<1>4. Recorded(reported, registered)'
    BY <1>1, <1>3 DEF OwedInv, Recorded
<1>5. /\ TablesOwed(reported', registered, db)
      /\ \A p \in Processes : TablesOwed(reported', registered, tx[p])
      /\ \A s \in Syncs : SyncOwed(reported', registered, sync[s])
      /\ \A v \in Users : BackfillOwed(reported', registered, v, link[v])
    BY <1>2, OwedForever DEF OwedInv
<1> QED
    BY <1>1, <1>4, <1>5 DEF OwedInv

\* Every step preserves the invariant.
LEMMA NextOwed == TypeOK /\ OwedInv /\ [Next]_vars => OwedInv'
<1> SUFFICES ASSUME TypeOK, OwedInv, [Next]_vars
             PROVE  OwedInv'
    OBVIOUS
<1>1. ASSUME NEW s \in Syncs, SyncStart(s) \/ SyncGoesOn(s) \/ SyncFail(s)
      PROVE  OwedInv'
    BY <1>1, SyncReadsOwed, SyncBeginOwed, SyncAdObjectOwed, SyncPayOwed,
       SyncEndsOwed DEF SyncGoesOn, SyncFail
<1>2. ASSUME NEW u \in Users, LinkGoesOn(u) \/ LinkFail(u)
      PROVE  OwedInv'
    BY <1>2, LinkQueryAdsOwed, LinkUpsertLinksOwed, LinkQuerySnapshotsOwed,
       LinkInsertEntriesOwed, LinkEndsOwed DEF LinkGoesOn, LinkFail
<1>3. ASSUME NEW s \in Syncs, NEW u \in Users, DeadlockVictim(s, u)
      PROVE  OwedInv'
    BY <1>3, SyncEndsOwed, LinkEndsOwed DEF DeadlockVictim
<1>4. CASE Restart
    BY <1>4, RestartOwed
<1>5. ASSUME NEW u \in Users, NEW row \in UserRow,
             CreateCollaborator(u, row) \/ UpdateCollaborator(u, row)
      PROVE  OwedInv'
    BY <1>5, AdministratorsOwed
<1>6. ASSUME NEW u \in Users, DeleteCollaborator(u)
      PROVE  OwedInv'
  <2>1. users[u] \in UserRow
      BY <1>6 DEF DeleteCollaborator, TypeOK, IsTable
  <2> QED
      BY <1>6, <2>1, AdministratorsOwed
<1>7. ASSUME NEW d \in 1 .. today, NEW a \in Ads, NEW name \in AdNames, NEW net \in Nets,
             Revise(d, a, [name |-> name, net |-> net])
      PROVE  OwedInv'
  <2>1. d \in Days
      BY ConstantsAssumption DEF TypeOK, Days
  <2> QED
      BY <1>7, <2>1, ReviseOwed
<1>8. CASE NextDay
  <2>1. UNCHANGED <<users, db, tx, sync, link, report, reported, registered>>
      BY <1>8 DEF NextDay, dbVars, adminVars
  <2> QED
      BY <2>1 DEF OwedInv, Recorded
<1>9. CASE UNCHANGED vars
    BY <1>9 DEF OwedInv, Recorded, vars
<1> QED
    BY <1>1, <1>2, <1>3, <1>4, <1>5, <1>6, <1>7, <1>8, <1>9 DEF Next

(***************************************************************************)
(* Theorems                                                                *)
(***************************************************************************)

\* The invariant holds in every reachable state.
LEMMA AlwaysOwed == Spec => []OwedInv
<1>1. Init => OwedInv
    BY InitOwed
<1>2. TypeOK /\ OwedInv /\ [Next]_vars => OwedInv'
    BY NextOwed
<1> QED
    BY <1>1, <1>2, TypeCorrect, PTL DEF Spec

\* Whatever a sync and a backfill interleave, and wherever they fail, every
\* committed link follows from a name its ad had and from a code and a rate
\* its collaborator had.
THEOREM LinksAlwaysJustified == Spec => []LinksJustified
<1>1. OwedInv => LinksJustified
    BY DEF OwedInv, TablesOwed, LinksOwed, Owed, LinksJustified, LinkJustified
<1> QED
    BY <1>1, AlwaysOwed, PTL

\* And every committed amount is the commission on a net profit Utmify
\* reported for that ad and that day.
THEOREM EntriesAlwaysJustified == Spec => []EntriesJustified
<1>1. OwedInv => EntriesJustified
    BY DEF OwedInv, TablesOwed, EntriesOwed, Owed, Priced, EntriesJustified,
           LinkJustified, EntryAmountJustified
<1> QED
    BY <1>1, AlwaysOwed, PTL
=============================================================================
