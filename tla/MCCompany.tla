------------------------------ MODULE MCCompany ------------------------------
(***************************************************************************)
(* An instance for TLC of three modules about a company: how it is made    *)
(* (CompanySetup), its users' accounts (CompanyAccounts), and what its     *)
(* collaborators read of its dashboards (DashboardReads, here for what     *)
(* must happen at last).                                                   *)
(*                                                                         *)
(* The three share no state in these models.  A behaviour is one of one of *)
(* them, which `part' names from the start, and the variables of the       *)
(* others stay as they were: the run has the states of each of them, never *)
(* their product, and a property of a part is checked on all of its        *)
(* behaviours and holds of the others by itself.                           *)
(***************************************************************************)
EXTENDS MCCompanyAccounts

CONSTANTS
    \* CompanySetup's, with the requests under a name of their own
    SetupRequests, Slugs,
    \* a collaborator, two dashboards and a request for DashboardReads
    c1, d1, d2, g1, AllOfThem, NoEntry, Unstored, Staff

VARIABLES part,
    slugRow, userRow, committed, step, input, answer, met,
    linked, blocked, stored, cache, req

setupVars == <<slugRow, userRow, committed, step, input, answer, met>>
readsVars == <<linked, blocked, stored, cache, req>>

Setup == INSTANCE CompanySetup WITH Requests <- SetupRequests, pc <- step

\* None is no request, and e-mails can be counted.
ASSUME SetupAssumption == None \notin SetupRequests /\ IsFiniteSet(Emails)

\* Five minutes of a history, in two ticks.
Reads == INSTANCE DashboardReads WITH
    Collaborators <- {c1}, Dashboards <- {d1, d2}, Named <- {}, Requests <- {g1},
    Kinds <- {"history"}, TTL <- "history" :> 2, MaxVersions <- 2, NoRow <- None

\* The staff's requests have a key of their own and wait for nobody; only the
\* collaborator asks here.
CollaboratorAsks == req'[g1].pc # "idle" => req'[g1].reader = c1

MCInit ==
    /\ part \in {"accounts", "setup", "reads"}
    /\ Init
    /\ Setup!Init
    /\ Reads!Init

MCNext ==
    /\ UNCHANGED part
    /\ \/ part = "accounts" /\ Next /\ UNCHANGED <<setupVars, readsVars>>
       \/ part = "setup" /\ Setup!Next /\ UNCHANGED <<vars, readsVars>>
       \/ part = "reads" /\ Reads!Next /\ CollaboratorAsks /\ UNCHANGED <<vars, setupVars>>

\* Fairness, Setup!Fairness and Reads!Fairness, each for its own behaviours.
Of(p, A) == part = p /\ A

MCFairness ==
    /\ WF_vars(Of("accounts", Tick))
    /\ \A r \in Requests : WF_vars(Of("accounts", LoginReads(r) \/ LoginRecords(r)))
    /\ \A r \in SetupRequests : WF_setupVars(Of("setup", Setup!Steps(r)))
    /\ WF_readsVars(Of("reads", Reads!Tick))
    /\ WF_readsVars(Of("reads", Reads!Serve(g1)))

MCSpec == MCInit /\ [][MCNext]_<<part, vars, setupVars, readsVars>> /\ MCFairness

\* CompanySetup: who is told of a conflict met a committed row.
ConflictsAreReal == Setup!ConflictsAreReal

\* CompanySetup: no list shows a company without a user.
ListsAreWhole == Setup!ListsAreWhole

\* CompanySetup: nobody waits for ever.
EveryRequestEnds == Setup!EveryRequestEnds

\* CompanySetup: it implements CompanyDirectory.
ImplementsDirectory == Setup!ImplementsDirectory

\* DashboardReads: a block takes effect at last.
BlockTakesEffect == Reads!BlockTakesEffect

\* DashboardReads: figures that are stored are shown at last.
StoredIsShown == Reads!StoredIsShown
=============================================================================
