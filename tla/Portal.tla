------------------------------- MODULE Portal -------------------------------
(***************************************************************************)
(* What a collaborator is shown of their ads and commissions, and what an  *)
(* administrator is shown of them for a month.                             *)
(*                                                                         *)
(* A page is made of two queries, between which a sync or the backfill of  *)
(* the collaborator may commit.  The queries join ads, links, snapshots    *)
(* and entries, of which there may be several for one ad: a collaborator   *)
(* has a link and an entry for each role an ad's name ever gave them.      *)
(*                                                                         *)
(* An ad earns the same every day, and whoever has a part in it gets as    *)
(* much: a sum tells which rows it counts, and how often.                  *)
(***************************************************************************)
EXTENDS Naturals, FiniteSetsExt

CONSTANTS
    Ads, Dashboards,
    Roles,       \* those a name may give the collaborator
    LastDay,     \* bound: days
    Period,      \* the days of the page, and of the month
    Earned,      \* Earned[a]: revenue, spend, profit and commission of a day
    None,        \* no role, no ad, no filter
    MaxChanges   \* bound: changes Utmify makes to its ads

Days == 1 .. LastDay

VARIABLES
    utmify,     \* utmify[a]: the dashboard that lists it, the role in its name
    today, changes,
    hired,      \* there is a collaborator
    sync,       \* a sync under way: what it fetched, whom it looked up
    backfill,   \* where the backfill is, and the ads its first statement found
    ads,        \* ads[a]: niche and parsed name
    links,      \* links[<<a, role>>]: niche of the row
    snapshots,  \* rows <<ad, day>>
    entries,    \* rows <<ad, day, role>>
    request     \* the page that is being made

tables == <<ads, links, snapshots, entries>>
world == <<utmify, today, changes, hired>>
vars == <<world, sync, backfill, tables, request>>

Nothing == [a \in {} |-> None]
Backfill(pc, found) == [pc |-> pc, found |-> found]

NoPage == [pc |-> "none", kind |-> "", want |-> None, total |-> 0,
           first |-> [t \in Period |-> 0], second |-> [t \in Period |-> 0], calm |-> TRUE]

Init ==
    /\ utmify \in [Ads -> [dashboard : Dashboards, role : Roles]]
    /\ today = 1 /\ changes = 0
    /\ hired = FALSE
    /\ sync = None
    /\ backfill = Backfill("none", Nothing)
    /\ ads = [a \in Ads |-> None]
    /\ links = [x \in Ads \X Roles |-> None]
    /\ snapshots = {} /\ entries = {}
    /\ request = NoPage

(***************************************************************************)
(* Utmify, the clock and Create                                            *)
(***************************************************************************)

\* An ad is renamed, or listed by another dashboard.
Changes(a) ==
    /\ changes < MaxChanges
    /\ changes' = changes + 1
    /\ \/ \E role \in Roles \cup {None} : utmify' = [utmify EXCEPT ![a].role = role]
       \/ \E d \in Dashboards : utmify' = [utmify EXCEPT ![a].dashboard = d]
    /\ UNCHANGED <<today, hired, sync, backfill, tables, request>>

NextDay ==
    /\ today < LastDay
    /\ today' = today + 1
    /\ UNCHANGED <<utmify, changes, hired, sync, backfill, tables, request>>

\* The row is committed, the backfill runs in the background.
Create ==
    /\ ~hired
    /\ hired' = TRUE
    /\ backfill' = [backfill EXCEPT !.pc = "linking"]
    /\ UNCHANGED <<utmify, today, changes, sync, tables, request>>

(***************************************************************************)
(* SyncToday and LinkCollaboratorToAds, as CommissionSync has them in full *)
(***************************************************************************)

\* A commit that comes between the two queries of a page.
Commits ==
    request' = [request EXCEPT !.calm = @ /\ request.pc # "second"]

\* The dashboard's ads are fetched and the collaborators looked up.
SyncReads(d) ==
    /\ sync = None
    /\ sync' = [day |-> today, hired |-> hired,
                listed |-> [a \in {x \in Ads : utmify[x].dashboard = d} |-> utmify[a]]]
    /\ UNCHANGED <<world, backfill, tables, request>>

\* The links of the ads in rows whose name has a role for the collaborator.
LinksOf(rows) == {<<a, rows[a].role>> : a \in {x \in DOMAIN rows : rows[x].role # None}}

\* A link keeps the niche it was made with.
WithLinks(rows) ==
    [x \in DOMAIN links |-> IF x \in LinksOf(rows) /\ links[x] = None
                            THEN rows[x[1]].dashboard ELSE links[x]]

\* Who was hired after the lookup gets nothing; a link that the backfill
\* has made and not committed is waited for.
SyncCommits ==
    /\ sync # None
    /\ LET paid == IF sync.hired THEN sync.listed ELSE Nothing IN
       /\ LinksOf(paid) \cap LinksOf(backfill.found) = {}
       /\ links' = WithLinks(paid)
       /\ entries' = entries \cup {<<x[1], sync.day, x[2]>> : x \in LinksOf(paid)}
    /\ ads' = [a \in Ads |-> IF a \in DOMAIN sync.listed THEN sync.listed[a] ELSE ads[a]]
    /\ snapshots' = snapshots \cup {<<a, sync.day>> : a \in DOMAIN sync.listed}
    /\ sync' = None
    /\ Commits
    /\ UNCHANGED <<world, backfill>>

SyncFails ==
    /\ sync # None
    /\ sync' = None
    /\ UNCHANGED <<world, backfill, tables, request>>

\* The ads whose stored name has the collaborator's code.
Matching == {a \in Ads : ads[a] # None /\ ads[a].role # None}

\* Statement 1.
BackfillLinks ==
    /\ backfill.pc = "linking"
    /\ backfill' = Backfill("paying", [a \in Matching |-> ads[a]])
    /\ UNCHANGED <<world, sync, tables, request>>

\* Statement 2, which looks the ads up again, and the commit.
BackfillCommits ==
    /\ backfill.pc = "paying"
    /\ backfill' = Backfill("done", Nothing)
    /\ links' = WithLinks(backfill.found)
    /\ entries' = entries \cup {<<x[1], x[2], ads[x[1]].role>> :
                                  x \in {s \in snapshots : s[1] \in Matching}}
    /\ Commits
    /\ UNCHANGED <<world, sync, ads, snapshots>>

BackfillFails ==
    /\ backfill.pc \in {"linking", "paying"}
    /\ backfill' = Backfill("done", Nothing)
    /\ UNCHANGED <<world, sync, tables, request>>

(***************************************************************************)
(* The queries                                                             *)
(***************************************************************************)

\* SUM(...) over rows.
Total(rows) == MapThenSumSet(LAMBDA row : Earned[row[1]], rows)

\* collaborator_ads: DISTINCT, by the niche the ad has now.
MyAds(want) ==
    {a \in Ads : /\ \E role \in Roles : links[<<a, role>>] # None
                 /\ want # None => ads[a].dashboard = want}

\* Faulty variant: without DISTINCT, an ad counts once for each of its links.
CommissionsPerLink(want) ==
    {<<x[1], x[2], x[3], role>> :
        x \in {y \in entries : y[1] \in MyAds(want) /\ y[2] \in Period},
        role \in {q \in Roles : \E a \in Ads : links[<<a, q>>] # None}}

\* The rows of commissions_by_ad for the ads that have snapshots.
Commissions(want) ==
    {x \in entries : /\ x[1] \in MyAds(want) /\ x[2] \in Period
                     /\ \E t \in Period : <<x[1], t>> \in snapshots}

\* loadCollaboratorCreatives, and what Me adds up of it.
TotalCommission(want) == Total(Commissions(want))

\* A day of loadCollaboratorCommissionHistory: snapshots LEFT JOIN entries.
Snapshots(want, t) == {x \in snapshots : x[1] \in MyAds(want) /\ x[2] = t}
EntriesOf(x) == {y \in entries : <<y[1], y[2]>> = x}
Joined(want, t) ==
    UNION {IF EntriesOf(x) = {} THEN {<<x[1], x[2], None>>} ELSE EntriesOf(x) :
             x \in Snapshots(want, t)}

HistoryRevenue(want, t) == Total(Joined(want, t))
HistoryCommission(want, t) == Total({x \in Joined(want, t) : x[3] # None})

\* A day of loadCollaboratorSpendByDate: no entries.
Spend(t) == Total(Snapshots(None, t))

\* Faulty variant: the niche of the link, which stays when the ad moves.
MonthlyCommissionOfLinks(want) ==
    Total({x \in entries : /\ x[2] \in Period
                           /\ want # None => links[<<x[1], x[3]>>] = want})

\* MonthlyCommissions: entries of any ad, linked or not.
MonthlyCommission(want) ==
    Total({x \in entries : /\ x[2] \in Period
                           /\ want # None => ads[x[1]].dashboard = want})

(***************************************************************************)
(* Me and MeHistory                                                        *)
(***************************************************************************)

\* loadCollaboratorDashboards, by the niche of the link.
Accessible == {links[x] : x \in Ads \X Roles} \ {None}

Asks(kind, want) ==
    /\ request.pc = "none" /\ hired
    /\ want # None => kind = "me" /\ want \in Accessible
    /\ request' = [NoPage EXCEPT !.pc = "first", !.kind = kind, !.want = want]
    /\ UNCHANGED <<world, sync, backfill, tables>>

\* The creatives, and the history that takes their place in MeHistory.
FirstQuery ==
    /\ request.pc = "first"
    /\ \/ /\ request.kind = "me"
          /\ request' = [request EXCEPT !.pc = "second", !.total = TotalCommission(request.want)]
       \/ /\ request.kind = "history"
          /\ request' = [request EXCEPT !.pc = "second",
                            !.first = [t \in Period |-> HistoryRevenue(None, t)]]
    /\ UNCHANGED <<world, sync, backfill, tables>>

\* The history of Me, the spend of MeHistory.
SecondQuery ==
    /\ request.pc = "second"
    /\ request' = [request EXCEPT !.pc = "shown",
                     !.second = [t \in Period |->
                        IF request.kind = "me" THEN HistoryCommission(request.want, t)
                                               ELSE Spend(t)]]
    /\ UNCHANGED <<world, sync, backfill, tables>>

\* It is shown, or a query failed.
Returns ==
    /\ request.pc # "none"
    /\ request' = NoPage
    /\ UNCHANGED <<world, sync, backfill, tables>>

Next ==
    \/ \E a \in Ads : Changes(a)
    \/ NextDay \/ Create
    \/ \E d \in Dashboards : SyncReads(d)
    \/ SyncCommits \/ SyncFails
    \/ BackfillLinks \/ BackfillCommits \/ BackfillFails
    \/ \E kind \in {"me", "history"}, want \in Dashboards \cup {None} : Asks(kind, want)
    \/ FirstQuery \/ SecondQuery \/ Returns

Spec == Init /\ [][Next]_vars

(***************************************************************************)
(* Properties                                                              *)
(***************************************************************************)

\* Nothing was committed between the two queries of the page.
CalmPage(kind) == request.pc = "shown" /\ request.kind = kind /\ request.calm

SumOf(points) == MapThenSumSet(LAMBDA t : points[t], Period)

\* The two queries of Me join the entries in different ways, yet unless
\* something was committed in between both count each commission once: the
\* total is the sum of the history.
TotalIsTheHistorys == CalmPage("me") => request.total = SumOf(request.second)

\* What a collaborator is shown of the month, an administrator is shown too,
\* and as much, unless the backfill left entries without a link.
MonthlyShowsNoLess ==
    \A want \in Dashboards \cup {None} :
        IF \A x \in entries : \E role \in Roles : links[<<x[1], role>>] # None
        THEN MonthlyCommission(want) = TotalCommission(want)
        ELSE MonthlyCommission(want) >= TotalCommission(want)

\* "Reload spend values so ROAS reflects the same period aggregation": the
\* revenue and the spend of a point are those of the same snapshots.
RoasIsOfOneAggregation == CalmPage("history") => request.first = request.second
=============================================================================
