--------------------------- MODULE CommissionSync ---------------------------
(***************************************************************************)
(* How ad metrics become commission entries, for one company and one       *)
(* Utmify dashboard.                                                       *)
(*                                                                         *)
(* Two kinds of process write the same tables, each in one Read Committed  *)
(* transaction: SyncToday (started by the scheduler's ticker and by POST   *)
(* /sync/today) and LinkCollaboratorToAds, a goroutine started when a      *)
(* collaborator is created.  Administrators create, update and deactivate  *)
(* collaborators, Utmify revises its figures, days go by, calls fail and   *)
(* the process is restarted at any point between two of these steps.       *)
(*                                                                         *)
(* A transaction's uncommitted rows are kept apart, in tx, from the        *)
(* committed ones, in db.  A statement that meets an uncommitted row of    *)
(* another transaction waits, which is a guard here.                       *)
(***************************************************************************)
EXTENDS Nomenclature, Tables

CONSTANTS
    Users,        \* collaborators that may be created
    Syncs,        \* callers of SyncToday that may overlap
    Ticker,       \* the one, if any, that is the scheduler's loop
    Ads,          \* external ids of ads
    LastDay,      \* bound: the days are 1 .. LastDay
    AdNames,      \* names media buyers give to ads
    Nets,         \* net profits (revenue - spend + chargeback) reported
    Rates,        \* commission rates collaborators are given
    MaxRevisions, \* bound: changes of Utmify's figures
    MaxEdits,     \* bound: updates of collaborators
    MaxFailures   \* bound: failures, timeouts and restarts

ASSUME ConstantsAssumption ==
    /\ Syncs \cap Users = {}
    /\ LastDay \in Nat \ {0}
    /\ AdNames \subseteq AdName
    /\ Nets \subseteq Int
    /\ Rates \subseteq Nat
    /\ {MaxRevisions, MaxEdits, MaxFailures} \subseteq Nat

Dashboard == "dashboard"   \* the external id of the one dashboard
Days == 1 .. LastDay
Processes == Syncs \cup Users   \* a user stands for its backfill goroutine

VARIABLES
    \* --- the database
    users,      \* table of collaborators: code, rate (minimum) and status
    db,         \* committed tables written by the two kinds of process
    tx,         \* tx[p]: the uncommitted rows of process p
    \* --- the processes
    sync,       \* sync[s]: local state of a call of SyncToday
    link,       \* link[u]: local state of the backfill goroutine of u
    \* --- the world
    report,     \* report[d]: what Utmify reports of the ads for day d
    today,      \* the dashboard's local date
    revisions, edits, failures,   \* bounded counters
    \* --- history, read by no guard
    reported,   \* every <<ad, day, object>> Utmify has ever reported
    registered  \* every <<user, row>> the users table has ever held

dbVars == <<users, db, tx>>
worldVars == <<report, today, revisions, reported>>
adminVars == <<edits, registered>>
vars == <<users, db, tx, sync, link, report, today, revisions, edits,
          failures, reported, registered>>

(***************************************************************************)
(* Rows                                                                    *)
(***************************************************************************)

UserRow == [code : Codes, rate : Rates, status : {"active", "inactive"}]
AdObject == [name : AdName, net : Int]

\* payees and asOf are history: whom the sync that wrote the snapshot paid,
\* and how many revisions Utmify had made when its figures were fetched.
SnapshotRow == [net : Int, asOf : Nat, payees : SUBSET (Users \X Roles)]
EntryRow == [base : Int, pct : Rates, value : Int]

SnapshotKey == Ads \X Days
LinkKey == Ads \X Users \X Roles
EntryKey == Ads \X Days \X Users \X Roles

\* What a transaction, or the database, holds: utmify_dashboards, ads,
\* ad_metric_snapshots, ad_collaborators and commission_entries.
NoTables == [dashboards |-> {}, ads |-> NoRows, snapshots |-> NoRows,
             links |-> NoRows, entries |-> NoRows]

\* The one dashboard, registered.
OnlyDashboard ==
    [dashboards |-> {Dashboard}, ads |-> NoRows, snapshots |-> NoRows,
     links |-> NoRows, entries |-> NoRows]

IsTables(t) ==
    /\ t = [dashboards |-> t.dashboards, ads |-> t.ads,
            snapshots |-> t.snapshots, links |-> t.links,
            entries |-> t.entries]
    /\ t.dashboards \subseteq {Dashboard}
    /\ IsTable(t.ads, Ads, AdName)
    /\ IsTable(t.snapshots, SnapshotKey, SnapshotRow)
    /\ IsTable(t.links, LinkKey, Rates)
    /\ IsTable(t.entries, EntryKey, EntryRow)

\* new's rows over old's: what a commit, or a later statement of the same
\* transaction, does.
Over(new, old) ==
    [dashboards |-> new.dashboards \cup old.dashboards,
     ads       |-> Upsert(new.ads, old.ads),
     snapshots |-> Upsert(new.snapshots, old.snapshots),
     links     |-> Upsert(new.links, old.links),
     entries   |-> Upsert(new.entries, old.entries)]

\* What a statement that writes ad_collaborators or commission_entries adds.
Writes(links, entries) ==
    [dashboards |-> {}, ads |-> NoRows, snapshots |-> NoRows,
     links |-> links, entries |-> entries]

\* Some other open transaction holds an uncommitted row under these keys.
Blocked(p, linkKeys, entryKeys) ==
    \E q \in Processes \ {p} :
        \/ DOMAIN tx[q].links \cap linkKeys # {}
        \/ DOMAIN tx[q].entries \cap entryKeys # {}

(***************************************************************************)
(* Processes at rest                                                       *)
(***************************************************************************)

\* A call of SyncToday: where it is, the date it took, the revision Utmify's
\* figures were fetched at, the ad objects fetched, those left to write, and
\* the links and entries of the collaborators found for the current one.
SyncAt(pc, day, asOf, batch, todo, links, entries) ==
    [pc |-> pc, day |-> day, asOf |-> asOf, batch |-> batch, todo |-> todo,
     links |-> links, entries |-> entries]

SyncAtRest == SyncAt("idle", 1, 0, NoRows, {}, NoRows, NoRows)

\* A backfill: where it is, its arguments, and the rows its current
\* statement found: links to write, or net profits of snapshots to price.
LinkAt(pc, code, rate, links, nets) ==
    [pc |-> pc, code |-> code, rate |-> rate, links |-> links, nets |-> nets]

LinkAtRest(pc) == LinkAt(pc, NoCode, 0, NoRows, NoRows)

SyncWritingPCs == {"writing", "paying"}   \* holds the lock on the niche row
SyncPCs == {"idle", "dated", "fetched"} \cup SyncWritingPCs
LinkRunningPCs == {"queued", "matching", "matched", "pricing", "priced"}
LinkPCs == {"none", "done", "failed"} \cup LinkRunningPCs

\* Empty tables; an earlier sync that found no ads may have registered the
\* dashboard already.
Init ==
    /\ users = NoRows
    /\ db \in {NoTables, OnlyDashboard}
    /\ tx = [p \in Processes |-> NoTables]
    /\ sync = [s \in Syncs |-> SyncAtRest]
    /\ link = [u \in Users |-> LinkAtRest("none")]
    /\ report = [d \in Days |-> NoRows]
    /\ today = 1
    /\ revisions = 0 /\ edits = 0 /\ failures = 0
    /\ reported = {} /\ registered = {}

(***************************************************************************)
(* SyncToday and syncDashboard                                             *)
(***************************************************************************)

\* getCompaniesWithDashboards: the ticker only serves companies that already
\* have a dashboard registered; POST /sync/today serves its own company.
MayStart(s) == s = Ticker => db.dashboards # {}

\* Faulty variant: the date is taken once, when the process starts.
SyncStartWithBootDate(s) ==
    /\ sync[s].pc = "idle"
    /\ MayStart(s)
    /\ sync' = [sync EXCEPT ![s] = SyncAt("dated", 1, 0, NoRows, {}, NoRows, NoRows)]
    /\ UNCHANGED <<dbVars, link, worldVars, adminVars, failures>>

\* The call lists the dashboards and takes the local date of this one.
SyncStart(s) ==
    /\ sync[s].pc = "idle"
    /\ MayStart(s)
    /\ sync' = [sync EXCEPT ![s] =
            SyncAt("dated", today, 0, NoRows, {}, NoRows, NoRows)]
    /\ UNCHANGED <<dbVars, link, worldVars, adminVars, failures>>

\* The ad objects of the date taken earlier, as Utmify reports them now.
SyncFetch(s) ==
    /\ sync[s].pc = "dated"
    /\ sync' = [sync EXCEPT ![s] =
            SyncAt("fetched", sync[s].day, revisions, report[sync[s].day], {},
                   NoRows, NoRows)]
    /\ UNCHANGED <<dbVars, link, worldVars, adminVars, failures>>

\* Faulty variant: it walks all the ads, whether or not they were fetched.
SyncBeginOnAllAds(s) ==
    /\ sync[s].pc = "fetched"
    /\ \A r \in Syncs : sync[r].pc \notin SyncWritingPCs
    /\ sync' = [sync EXCEPT ![s] =
            SyncAt("writing", sync[s].day, sync[s].asOf, sync[s].batch, Ads,
                   NoRows, NoRows)]
    /\ tx' = [tx EXCEPT ![s] = OnlyDashboard]
    /\ UNCHANGED <<users, db, link, worldVars, adminVars, failures>>

\* Begin, and upsertDashboardScope: the upsert of the niche row waits for
\* any other transaction on the same dashboard to end.
SyncBegin(s) ==
    /\ sync[s].pc = "fetched"
    /\ \A r \in Syncs : sync[r].pc \notin SyncWritingPCs
    /\ sync' = [sync EXCEPT ![s] =
            SyncAt("writing", sync[s].day, sync[s].asOf, sync[s].batch,
                   DOMAIN sync[s].batch, NoRows, NoRows)]
    /\ tx' = [tx EXCEPT ![s] = OnlyDashboard]
    /\ UNCHANGED <<users, db, link, worldVars, adminVars, failures>>

\* Faulty variant: the query forgets the condition on the code.
PayeesOfAnyCode(name) == {u \in DOMAIN users : users[u].status = "active"}

\* findCollaboratorsByCodes: committed rows, at the time of the query.
Payees(name) ==
    {u \in DOMAIN users :
        users[u].status = "active" /\ Names(name, users[u].code)}

SyncLinks(a, name) ==
    [k \in {<<a, u, RoleForCode(name, users[u].code)>> : u \in Payees(name)}
        |-> users[k[2]].rate]

SyncEntries(a, d, obj) ==
    [k \in {<<a, d, u, RoleForCode(obj.name, users[u].code)>> :
                u \in Payees(obj.name)}
        |-> [base |-> obj.net, pct |-> users[k[3]].rate,
             value |-> ProfitBasedCommission(obj.net, users[k[3]].rate)]]

\* The rows of the ad and of its snapshot.
AdRows(a, d, obj, asOf) ==
    [dashboards |-> {},
     ads |-> [k \in {a} |-> obj.name],
     snapshots |-> [k \in {<<a, d>>} |->
        [net |-> obj.net, asOf |-> asOf,
         payees |-> {<<u, RoleForCode(obj.name, users[u].code)>> :
                        u \in Payees(obj.name)}]],
     links |-> NoRows, entries |-> NoRows]

\* syncAdObject up to its query of the collaborators.
SyncAdObject(s, a) ==
    /\ sync[s].pc = "writing"
    /\ a \in sync[s].todo
    /\ LET obj == sync[s].batch[a]
       IN  /\ tx' = [tx EXCEPT ![s] =
                Over(AdRows(a, sync[s].day, obj, sync[s].asOf), tx[s])]
           /\ sync' = [sync EXCEPT ![s] =
                SyncAt("paying", sync[s].day, sync[s].asOf, sync[s].batch,
                       sync[s].todo \ {a}, SyncLinks(a, obj.name),
                       SyncEntries(a, sync[s].day, obj))]
    /\ UNCHANGED <<users, db, link, worldVars, adminVars, failures>>

\* Its loop over the collaborators found, whose upserts wait for a backfill
\* that holds the same rows.
SyncPay(s) ==
    /\ sync[s].pc = "paying"
    /\ ~Blocked(s, DOMAIN sync[s].links, DOMAIN sync[s].entries)
    /\ tx' = [tx EXCEPT ![s] =
            Over(Writes(sync[s].links, sync[s].entries), tx[s])]
    /\ sync' = [sync EXCEPT ![s] =
            SyncAt("writing", sync[s].day, sync[s].asOf, sync[s].batch,
                   sync[s].todo, NoRows, NoRows)]
    /\ UNCHANGED <<users, db, link, worldVars, adminVars, failures>>

SyncCommit(s) ==
    /\ sync[s].pc = "writing"
    /\ sync[s].todo = {}
    /\ db' = Over(tx[s], db)
    /\ tx' = [tx EXCEPT ![s] = NoTables]
    /\ sync' = [sync EXCEPT ![s] = SyncAtRest]
    /\ UNCHANGED <<users, link, worldVars, adminVars, failures>>

\* Faulty variants: an error part-way keeps what was written so far, or only
\* the commission entries.
SyncAbortsByCommitting(s) ==
    /\ db' = Over(tx[s], db)
    /\ tx' = [tx EXCEPT ![s] = NoTables]
    /\ sync' = [sync EXCEPT ![s] = SyncAtRest]
    /\ UNCHANGED <<users, link, worldVars, adminVars>>

SyncAbortsKeepingEntries(s) ==
    /\ db' = Over(Writes(NoRows, tx[s].entries), db)
    /\ tx' = [tx EXCEPT ![s] = NoTables]
    /\ sync' = [sync EXCEPT ![s] = SyncAtRest]
    /\ UNCHANGED <<users, link, worldVars, adminVars>>

\* Rolls back whatever the call had written; SyncToday goes on to the next
\* dashboard and the next call starts over.
SyncAborts(s) ==
    /\ tx' = [tx EXCEPT ![s] = NoTables]
    /\ sync' = [sync EXCEPT ![s] = SyncAtRest]
    /\ UNCHANGED <<users, db, link, worldVars, adminVars>>

\* Utmify's error, the three minute timeout or a database error.
SyncFail(s) ==
    /\ sync[s].pc # "idle"
    /\ failures < MaxFailures
    /\ failures' = failures + 1
    /\ SyncAborts(s)

(***************************************************************************)
(* LinkCollaboratorToAds.  A statement sees what was committed when it     *)
(* began, and may then wait for the rows it writes: two actions each.      *)
(***************************************************************************)

MatchingAds(u) == {a \in DOMAIN db.ads : Names(db.ads[a], link[u].code)}

MatchingSnapshots(u) ==
    {k \in DOMAIN db.snapshots : k[1] \in MatchingAds(u)}

RoleOn(u, a) == RoleForCode(db.ads[a], link[u].code)

LinkQueryAds(u) ==
    /\ link[u].pc = "queued"
    /\ link' = [link EXCEPT ![u] =
            LinkAt("matching", link[u].code, link[u].rate,
                   [k \in {<<a, u, RoleOn(u, a)>> : a \in MatchingAds(u)}
                        |-> link[u].rate],
                   NoRows)]
    /\ UNCHANGED <<dbVars, sync, worldVars, adminVars, failures>>

\* ON CONFLICT DO UPDATE.
LinkUpsertLinks(u) ==
    /\ link[u].pc = "matching"
    /\ ~Blocked(u, DOMAIN link[u].links, {})
    /\ tx' = [tx EXCEPT ![u] = Over(Writes(link[u].links, NoRows), tx[u])]
    /\ link' = [link EXCEPT ![u] =
            LinkAt("matched", link[u].code, link[u].rate, NoRows, NoRows)]
    /\ UNCHANGED <<users, db, sync, worldVars, adminVars, failures>>

\* The second statement looks for the ads again, and joins their snapshots.
LinkQuerySnapshots(u) ==
    /\ link[u].pc = "matched"
    /\ link' = [link EXCEPT ![u] =
            LinkAt("pricing", link[u].code, link[u].rate, NoRows,
                   [k \in {<<f[1], f[2], u, RoleOn(u, f[1])>> :
                                f \in MatchingSnapshots(u)}
                        |-> db.snapshots[<<k[1], k[2]>>].net])]
    /\ UNCHANGED <<dbVars, sync, worldVars, adminVars, failures>>

BackfillRows(u) ==
    [k \in DOMAIN link[u].nets |->
        [base |-> BackfillBase(link[u].nets[k]),
         pct |-> link[u].rate,
         value |-> BackfillCommission(link[u].nets[k], link[u].rate)]]

\* Faulty variants: DO UPDATE as in the other statement, and no wait for the
\* uncommitted rows of a sync.
LinkOverwritesEntries(u) ==
    /\ link[u].pc = "pricing"
    /\ ~Blocked(u, {}, DOMAIN link[u].nets)
    /\ tx' = [tx EXCEPT ![u] = Over(Writes(NoRows, BackfillRows(u)), tx[u])]
    /\ link' = [link EXCEPT ![u] =
            LinkAt("priced", link[u].code, link[u].rate, NoRows, NoRows)]
    /\ UNCHANGED <<users, db, sync, worldVars, adminVars, failures>>

LinkInsertsWithoutWaiting(u) ==
    /\ link[u].pc = "pricing"
    /\ tx' = [tx EXCEPT ![u] =
            Over(Writes(NoRows, Missing(BackfillRows(u), db.entries)), tx[u])]
    /\ link' = [link EXCEPT ![u] =
            LinkAt("priced", link[u].code, link[u].rate, NoRows, NoRows)]
    /\ UNCHANGED <<users, db, sync, worldVars, adminVars, failures>>

\* ON CONFLICT DO NOTHING.
LinkInsertEntries(u) ==
    /\ link[u].pc = "pricing"
    /\ ~Blocked(u, {}, DOMAIN link[u].nets)
    /\ tx' = [tx EXCEPT ![u] =
            Over(Writes(NoRows, Missing(BackfillRows(u), db.entries)), tx[u])]
    /\ link' = [link EXCEPT ![u] =
            LinkAt("priced", link[u].code, link[u].rate, NoRows, NoRows)]
    /\ UNCHANGED <<users, db, sync, worldVars, adminVars, failures>>

LinkCommit(u) ==
    /\ link[u].pc = "priced"
    /\ db' = Over(tx[u], db)
    /\ tx' = [tx EXCEPT ![u] = NoTables]
    /\ link' = [link EXCEPT ![u] = LinkAtRest("done")]
    /\ UNCHANGED <<users, sync, worldVars, adminVars, failures>>

\* The error is logged: nothing tries again.
LinkAborts(u) ==
    /\ tx' = [tx EXCEPT ![u] = NoTables]
    /\ link' = [link EXCEPT ![u] = LinkAtRest("failed")]
    /\ UNCHANGED <<users, db, sync, worldVars, adminVars>>

\* The sixty second timeout or a database error.
LinkFail(u) ==
    /\ link[u].pc \in LinkRunningPCs
    /\ failures < MaxFailures
    /\ failures' = failures + 1
    /\ LinkAborts(u)

(***************************************************************************)
(* Deadlock detection and restart                                          *)
(***************************************************************************)

\* s waits for a link of u's transaction, which waits for an entry of s's:
\* PostgreSQL aborts either one.
Deadlocked(s, u) ==
    /\ sync[s].pc = "paying" /\ link[u].pc = "pricing"
    /\ DOMAIN link[u].nets \cap DOMAIN tx[s].entries # {}
    /\ DOMAIN sync[s].links \cap DOMAIN tx[u].links # {}

DeadlockVictim(s, u) ==
    /\ Deadlocked(s, u)
    /\ SyncAborts(s) \/ LinkAborts(u)
    /\ UNCHANGED failures

\* The process dies and is started again: only committed rows survive.
Restart ==
    /\ failures < MaxFailures
    /\ failures' = failures + 1
    /\ tx' = [p \in Processes |-> NoTables]
    /\ sync' = [s \in Syncs |-> SyncAtRest]
    /\ link' = [u \in Users |-> IF link[u].pc \in LinkRunningPCs
                                THEN LinkAtRest("failed") ELSE link[u]]
    /\ UNCHANGED <<users, db, worldVars, adminVars>>

(***************************************************************************)
(* Administrators                                                          *)
(***************************************************************************)

\* UNIQUE (company_id, code): anything else is answered 409.
CodeIsFree(u, code) == \A v \in DOMAIN users \ {u} : users[v].code # code

SetUser(u, row) ==
    /\ users' = Upsert([v \in {u} |-> row], users)
    /\ registered' = registered \cup {<<u, row>>}

\* INSERT INTO users, then the goroutine with the values of the request.
CreateCollaborator(u, row) ==
    /\ u \notin DOMAIN users
    /\ CodeIsFree(u, row.code)
    /\ SetUser(u, row)
    /\ link' = [link EXCEPT ![u] =
            LinkAt("queued", row.code, row.rate, NoRows, NoRows)]
    /\ UNCHANGED <<db, tx, sync, worldVars, edits, failures>>

\* The full-row UPDATE; fields the request omits come from a row read
\* earlier, so any combination of values can be written.
UpdateCollaborator(u, row) ==
    /\ u \in DOMAIN users
    /\ edits < MaxEdits
    /\ CodeIsFree(u, row.code)
    /\ edits' = edits + 1
    /\ SetUser(u, row)
    /\ UNCHANGED <<db, tx, sync, link, worldVars, failures>>

\* Soft delete.
DeleteCollaborator(u) ==
    /\ u \in DOMAIN users
    /\ SetUser(u, [code |-> users[u].code, rate |-> users[u].rate,
                   status |-> "inactive"])
    /\ UNCHANGED <<db, tx, sync, link, worldVars, edits, failures>>

(***************************************************************************)
(* Utmify and the calendar                                                 *)
(***************************************************************************)

\* An ad appears, is renamed, or its figures for a day up to today change.
Revise(d, a, obj) ==
    /\ revisions < MaxRevisions
    /\ revisions' = revisions + 1
    /\ report' = [report EXCEPT ![d] = Upsert([b \in {a} |-> obj], report[d])]
    /\ reported' = reported \cup {<<a, d, obj>>}
    /\ UNCHANGED <<dbVars, sync, link, today, adminVars, failures>>

NextDay ==
    /\ today < LastDay
    /\ today' = today + 1
    /\ UNCHANGED <<dbVars, sync, link, report, revisions, reported, adminVars,
                   failures>>

(***************************************************************************)
(* Specification                                                           *)
(***************************************************************************)

\* What a call of SyncToday does once it is started.
SyncGoesOn(s) ==
    \/ SyncFetch(s)
    \/ SyncBegin(s)
    \/ \E a \in Ads : SyncAdObject(s, a)
    \/ SyncPay(s)
    \/ SyncCommit(s)

LinkGoesOn(u) ==
    \/ LinkQueryAds(u)
    \/ LinkUpsertLinks(u)
    \/ LinkQuerySnapshots(u)
    \/ LinkInsertEntries(u)
    \/ LinkCommit(u)

Next ==
    \/ \E s \in Syncs : SyncStart(s) \/ SyncGoesOn(s) \/ SyncFail(s)
    \/ \E u \in Users : LinkGoesOn(u) \/ LinkFail(u)
    \/ \E s \in Syncs, u \in Users : DeadlockVictim(s, u)
    \/ Restart
    \/ \E u \in Users, row \in UserRow :
         CreateCollaborator(u, row) \/ UpdateCollaborator(u, row)
    \/ \E u \in Users : DeleteCollaborator(u)
    \/ \E d \in 1 .. today, a \in Ads, name \in AdNames, net \in Nets :
         Revise(d, a, [name |-> name, net |-> net])
    \/ NextDay

Spec == Init /\ [][Next]_vars

\* The ticker keeps firing, goroutines that can go on do, and PostgreSQL
\* detects deadlocks.  A backfill whose rows a sync releases again and again,
\* as the victim of one deadlock after another, is woken by PostgreSQL and
\* takes them before the next tick does: its fairness is strong.  Nobody is
\* obliged to call POST /sync/today.
Fairness ==
    /\ \A s \in Syncs \cap {Ticker} : WF_vars(SyncStart(s))
    /\ \A s \in Syncs : WF_vars(SyncGoesOn(s))
    /\ \A u \in Users : SF_vars(LinkGoesOn(u))
    /\ \A s \in Syncs, u \in Users : WF_vars(DeadlockVictim(s, u))

FairSpec == Spec /\ Fairness

(***************************************************************************)
(* Properties                                                              *)
(***************************************************************************)

SyncState(r) ==
    /\ r = SyncAt(r.pc, r.day, r.asOf, r.batch, r.todo, r.links, r.entries)
    /\ r.pc \in SyncPCs
    /\ r.day \in Days
    /\ r.asOf \in Nat
    /\ IsTable(r.batch, Ads, AdObject)
    /\ r.todo \subseteq DOMAIN r.batch
    /\ IsTable(r.links, LinkKey, Rates)
    /\ IsTable(r.entries, EntryKey, EntryRow)

LinkState(r) ==
    /\ r = LinkAt(r.pc, r.code, r.rate, r.links, r.nets)
    /\ r.pc \in LinkPCs
    /\ r.pc \in LinkRunningPCs => r.code \in Codes /\ r.rate \in Rates
    /\ IsTable(r.links, LinkKey, Rates)
    /\ IsTable(r.nets, EntryKey, Int)

\* Every variable has its type.
TypeOK ==
    /\ IsTable(users, Users, UserRow)
    /\ IsTables(db)
    /\ DOMAIN tx = Processes /\ \A p \in Processes : IsTables(tx[p])
    /\ DOMAIN sync = Syncs /\ \A s \in Syncs : SyncState(sync[s])
    /\ DOMAIN link = Users /\ \A u \in Users : LinkState(link[u])
    /\ DOMAIN report = Days
    /\ \A d \in Days : IsTable(report[d], Ads, AdObject)
    /\ today \in Days
    /\ {revisions, edits, failures} \subseteq Nat
    /\ reported \subseteq Ads \X Days \X AdObject
    /\ registered \subseteq Users \X UserRow

\* The snapshot an entry is about, and the entry of a snapshot's payee.
SnapshotOf(e) == <<e[1], e[2]>>
EntryOf(k, p) == <<k[1], k[2], p[1], p[2]>>

\* A commission entry is always about a snapshot that is committed: neither
\* a rollback between the two upserts of syncAdObject nor the backfill's
\* join leaves an entry for an ad and a day without metrics.
EntriesHaveSnapshots ==
    \A e \in DOMAIN db.entries : SnapshotOf(e) \in DOMAIN db.snapshots

\* Nobody is linked to an ad by accident: for each ad_collaborators row the
\* ad once had a name, and the collaborator once had a code and a rate, from
\* which that role and that percentage follow.
LinkJustified(a, u, r, pct) ==
    \E x \in reported, y \in registered :
        /\ x[1] = a /\ y[1] = u
        /\ Names(x[3].name, y[2].code)
        /\ RoleForCode(x[3].name, y[2].code) = r
        /\ y[2].rate = pct

LinksJustified ==
    \A k \in DOMAIN db.links : LinkJustified(k[1], k[2], k[3], db.links[k])

\* Nobody is paid by accident: besides, the amount of an entry is the
\* commission on a net profit Utmify did report for that ad and that day,
\* at that percentage, whichever of the two writers computed it.
EntryAmountJustified(a, d, row) ==
    \E x \in reported :
        /\ x[1] = a /\ x[2] = d
        /\ row.base \in {x[3].net, BackfillBase(x[3].net)}
        /\ row.value = ProfitBasedCommission(x[3].net, row.pct)

EntriesJustified ==
    \A k \in DOMAIN db.entries :
        /\ LinkJustified(k[1], k[3], k[4], db.entries[k].pct)
        /\ EntryAmountJustified(k[1], k[2], db.entries[k])

\* Whoever the sync that wrote a snapshot paid has an entry computed on that
\* snapshot's net profit: an overlapping sync or a backfill working from an
\* older statement snapshot never replaces it.
PaidOnSnapshot ==
    \A k \in DOMAIN db.snapshots : \A p \in db.snapshots[k].payees :
        /\ EntryOf(k, p) \in DOMAIN db.entries
        /\ db.entries[EntryOf(k, p)].base = db.snapshots[k].net

\* A dashboard's day changes as a whole: only the commit of a sync changes
\* snapshots, it leaves every ad of the batch it fetched with the name and the
\* figures of that fetch, and it touches no other ad and no other day.
SyncIsAtomic ==
    [][db'.snapshots # db.snapshots =>
        \E s \in Syncs :
            /\ sync[s].pc = "writing" /\ sync'[s].pc = "idle"
            /\ \A a \in DOMAIN sync[s].batch :
                LET k == <<a, sync[s].day>>
                IN  /\ k \in DOMAIN db'.snapshots
                    /\ db'.ads[a] = sync[s].batch[a].name
                    /\ db'.snapshots[k].net = sync[s].batch[a].net
                    /\ db'.snapshots[k].asOf = sync[s].asOf
            /\ \A k \in DOMAIN db'.snapshots :
                \/ k[1] \in DOMAIN sync[s].batch /\ k[2] = sync[s].day
                \/ k \in DOMAIN db.snapshots /\ db'.snapshots[k] = db.snapshots[k]]_vars

\* The backfill completes what is there and corrects nothing: its commit
\* leaves every entry that was already committed as it was.
BackfillOnlyAdds ==
    [][\A u \in Users : link[u].pc = "priced" /\ link'[u].pc = "done" =>
        \A k \in DOMAIN db.entries :
            k \in DOMAIN db'.entries /\ db'.entries[k] = db.entries[k]]_vars

\* A day is closed when it is over for the dashboard and no call of SyncToday
\* that took its date is still under way.
Closed(d) ==
    /\ d < today
    /\ \A s \in Syncs : sync[s].pc = "idle" \/ sync[s].day # d

\* What a collaborator earned on a closed day is final.  No later call takes
\* its date again, not even to repair a failure; its snapshots and entries
\* stay as they are, whatever Utmify still revises and whoever is edited; and
\* what it gains are entries of one collaborator alone, at the commit of the
\* backfill of that collaborator.
ClosedDaysStay ==
    [][\A d \in Days : Closed(d) =>
        /\ Closed(d)'
        /\ \A a \in Ads :
            LET k == <<a, d>>
            IN  /\ k \in DOMAIN db'.snapshots <=> k \in DOMAIN db.snapshots
                /\ k \in DOMAIN db.snapshots => db'.snapshots[k] = db.snapshots[k]
        /\ \A e \in DOMAIN db.entries : e[2] = d =>
            e \in DOMAIN db'.entries /\ db'.entries[e] = db.entries[e]
        /\ \A e \in DOMAIN db'.entries \ DOMAIN db.entries : e[2] = d =>
            link[e[3]].pc = "priced" /\ link'[e[3]].pc = "done"]_vars

\* The database agrees with what Utmify reports today: names, figures, and
\* a link and an entry at the current rate for every active collaborator
\* the names refer to.
Settled ==
    \A a \in DOMAIN report[today] :
        LET obj == report[today][a]
        IN  /\ a \in DOMAIN db.ads /\ db.ads[a] = obj.name
            /\ <<a, today>> \in DOMAIN db.snapshots
            /\ db.snapshots[<<a, today>>].net = obj.net
            /\ \A u \in Payees(obj.name) :
                 LET r == RoleForCode(obj.name, users[u].code)
                 IN  /\ <<a, u, r>> \in DOMAIN db.links
                     /\ db.links[<<a, u, r>>] = users[u].rate
                     /\ <<a, today, u, r>> \in DOMAIN db.entries
                     /\ db.entries[<<a, today, u, r>>].base = obj.net
                     /\ db.entries[<<a, today, u, r>>].pct = users[u].rate

\* Once some sync has registered the dashboard, the periodic sync brings the
\* database in line with Utmify and with the collaborators, whatever failed,
\* deadlocked or was restarted before, and it stays so when neither changes.
EventuallySettled == <>(db.dashboards # {}) => <>[]Settled

(***************************************************************************)
(* What the comments of LinkCollaboratorToAds promise.                     *)
(***************************************************************************)

\* "Create commission_entries for every existing snapshot of those ads",
\* those being the ads that statement 1 linked: an entry has its link.
EntriesHaveLinks ==
    \A k \in DOMAIN db.entries : <<k[1], k[3], k[4]>> \in DOMAIN db.links

\* "historical data is linked without requiring a full re-sync": once the
\* backfill of an active collaborator, whose row never changed, has succeeded
\* and no sync is writing, every snapshot of an ad that names the code has
\* its entry.
HistoryIsLinked ==
    \A u \in DOMAIN users :
        /\ users[u].status = "active"
        /\ link[u].pc = "done"
        /\ {y \in registered : y[1] = u} = {<<u, users[u]>>}
        /\ \A s \in Syncs : sync[s].pc \notin SyncWritingPCs
        => \A k \in DOMAIN db.snapshots :
             LET name == db.ads[k[1]]
             IN  Names(name, users[u].code) =>
                   <<k[1], k[2], u, RoleForCode(name, users[u].code)>>
                        \in DOMAIN db.entries
=============================================================================
