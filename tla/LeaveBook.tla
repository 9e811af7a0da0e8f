----------------------------- MODULE LeaveBook -----------------------------
(***************************************************************************)
(* The leave balances of one year, a row for each kind of leave, and the   *)
(* number the personnel system (ezpass) keeps beside them.                 *)
(*                                                                         *)
(* Won auctions add AUCTION days and a notice that will add a day over     *)
(* there; unsold lots may become EVENT days; the synchronisation of the    *)
(* members copies that system's total into the REGULAR row; leave is used  *)
(* in the order AUCTION, EVENT, REGULAR; an administrator may reconcile.   *)
(* The synchronisation lists the company's members and then writes row     *)
(* after row, the reconciliation reads our rows and writes the other       *)
(* system's number later: anything may happen between.  What the           *)
(* synchronisation does to the users table is in Membership; Personnel     *)
(* has both.                                                               *)
(***************************************************************************)
EXTENDS Integers, FiniteSets, Functions

CONSTANTS
  Users,
  Atmc,            \* the days the personnel system grants each user by law
  Regular,         \* the REGULAR days of each user in a new installation
  Lots,            \* unsold lots at the beginning
  MaxWins,         \* bound: auctions a user wins
  MaxUse,          \* bound: days asked for at once
  MaxLists,        \* bound: synchronisations
  MaxReconciles,   \* bound: reconciliations
  None

LeaveAssumption ==
  /\ {Atmc, Regular} \subseteq [Users -> Nat] /\ Lots \in Nat /\ MaxWins \in Nat /\ MaxUse \in Nat \ {0}
  /\ MaxLists \in Nat /\ MaxReconciles \in Nat /\ None \notin Users

Kinds == {"AUCTION", "EVENT", "REGULAR"}

VARIABLES
  entitled,    \* leave_balance: granted_days + adjusted_days of each kind
  used,        \* leave_balance: used_days
  lots,        \* auctions that are UNSOLD
  won,         \* auctions each user has won
  notices,     \* outbox notices of a day for the user, not yet delivered
  mdat,        \* the personnel system's adjustable days of the user
  listing,     \* the members the synchronisation has listed and not yet written
  task,        \* the reconciliation under way
  lists, reconciles

book   == <<entitled, used, lots, won>>
theirs == <<notices, mdat>>
jobs   == <<listing, task, lists, reconciles>>
vars   == <<book, theirs, jobs>>

Nobody == [u \in {} |-> 0]
Idle   == [user |-> None, ours |-> 0, target |-> 0]

Init ==
  /\ entitled = [u \in Users |-> [k \in Kinds |-> IF k = "REGULAR" THEN Regular[u] ELSE 0]]
  /\ used = [u \in Users |-> [k \in Kinds |-> 0]]
  /\ lots = Lots /\ won = [u \in Users |-> 0]
  /\ notices = [u \in Users |-> 0] /\ mdat = [u \in Users |-> 0]
  /\ listing = Nobody /\ task = Idle
  /\ lists = 0 /\ reconciles = 0

Left(u) == [k \in Kinds |-> entitled[u][k] - used[u][k]]

-----------------------------------------------------------------------------
(* The plan of a use: the kinds in their order, each as far as it goes.    *)

Smaller(a, b) == IF a < b THEN a ELSE b

TakenUncapped(days, most) == days    \* Mutant: all from one kind, whatever is left of it.
\* One round of the loop, which stops when no day is left to take.
Taken(days, most) == IF days = 0 THEN 0 ELSE Smaller(most, days)

PlanReversed(left, days) ==        \* Mutant: REGULAR first.
  LET r == Taken(days, left["REGULAR"])
      e == Taken(days - r, left["EVENT"])
      a == Taken(days - r - e, left["AUCTION"])
  IN [k \in Kinds |-> CASE k = "AUCTION" -> a [] k = "EVENT" -> e [] k = "REGULAR" -> r]
Plan(left, days) ==
  LET a == Taken(days, left["AUCTION"])
      e == Taken(days - a, left["EVENT"])
      r == Taken(days - a - e, left["REGULAR"])
  IN [k \in Kinds |-> CASE k = "AUCTION" -> a [] k = "EVENT" -> e [] k = "REGULAR" -> r]

Sufficient(left, days) == left["AUCTION"] + left["EVENT"] + left["REGULAR"] >= days

UseLeave(u, days) ==
  /\ Sufficient(Left(u), days)
  /\ used' = [used EXCEPT ![u] = [k \in Kinds |-> @[k] + Plan(Left(u), days)[k]]]
  /\ UNCHANGED <<entitled, lots, won, theirs, jobs>>

-----------------------------------------------------------------------------
(* Days that come from auctions.                                           *)

Win(u) ==
  /\ won[u] < MaxWins
  /\ won' = [won EXCEPT ![u] = @ + 1]
  /\ entitled' = [entitled EXCEPT ![u]["AUCTION"] = @ + 1]
  /\ notices' = [notices EXCEPT ![u] = @ + 1]
  /\ UNCHANGED <<used, lots, mdat, jobs>>

\* The relay's day (its steps are those of OutboxRelay).
Deliver(u) ==
  /\ notices[u] > 0
  /\ notices' = [notices EXCEPT ![u] = @ - 1]
  /\ mdat' = [mdat EXCEPT ![u] = @ + 1]
  /\ UNCHANGED <<book, jobs>>

Unsold(n) == n > 0

GrantEvent(u) ==
  /\ Unsold(lots)
  /\ lots' = lots - 1
  /\ entitled' = [entitled EXCEPT ![u]["EVENT"] = @ + 1]
  /\ UNCHANGED <<used, won, theirs, jobs>>

-----------------------------------------------------------------------------
(* The synchronisation.                                                    *)

ListMembers(listed) ==
  /\ listing = Nobody
  /\ lists < MaxLists /\ lists' = lists + 1
  /\ listing' = [u \in listed |-> Atmc[u] + mdat[u]]
  /\ UNCHANGED <<book, theirs, task, reconciles>>

Unlist(u) == u \in DOMAIN listing /\ listing' = Restrict(listing, DOMAIN listing \ {u})

\* The upsert of the REGULAR row takes the days listed, whatever they have become.
SyncMember(u) ==
  /\ Unlist(u)
  /\ entitled' = [entitled EXCEPT ![u]["REGULAR"] = listing[u]]
  /\ UNCHANGED <<used, lots, won, theirs, task, lists, reconciles>>

\* An error, of this write or of the user's row before it, is noted and the next member follows.
SkipMember(u) ==
  /\ Unlist(u)
  /\ UNCHANGED <<book, theirs, task, lists, reconciles>>

-----------------------------------------------------------------------------
(* The reconciliation.                                                     *)

Ours(u) == Left(u)["REGULAR"] + Left(u)["AUCTION"]

TargetUnreduced(u) == Ours(u)         \* Mutant: the days granted by law are not subtracted.
Target(u) == Ours(u) - Atmc[u]

ReadOurs(u) ==
  /\ task = Idle
  /\ reconciles < MaxReconciles /\ reconciles' = reconciles + 1
  /\ task' = [user |-> u, ours |-> Ours(u), target |-> Target(u)]
  /\ UNCHANGED <<book, theirs, listing, lists>>

\* The write, or an error of the other system.
PutTarget ==
  /\ task # Idle
  /\ \/ mdat' = [mdat EXCEPT ![task.user] = task.target]
     \/ UNCHANGED mdat
  /\ task' = Idle
  /\ UNCHANGED <<book, notices, listing, lists, reconciles>>

\* What users and administrators do with a user's balances.
OfUser(u) ==
  \/ Win(u) \/ GrantEvent(u) \/ ReadOurs(u)
  \/ \E days \in 1..MaxUse : UseLeave(u, days)

Next ==
  \/ \E u \in Users : OfUser(u) \/ Deliver(u) \/ SyncMember(u) \/ SkipMember(u)
  \/ \E listed \in SUBSET Users : ListMembers(listed)
  \/ PutTarget

Spec == Init /\ [][Next]_vars

-----------------------------------------------------------------------------
(* Properties.                                                             *)

TypeOK ==
  /\ entitled \in [Users -> [Kinds -> Int]] /\ used \in [Users -> [Kinds -> Int]]
  /\ lots \in Nat /\ won \in [Users -> Nat]
  /\ notices \in [Users -> Nat] /\ mdat \in [Users -> Int]
  /\ DOMAIN listing \subseteq Users /\ listing \in [DOMAIN listing -> Int]
  /\ task \in [user : Users \cup {None}, ours : Int, target : Int]
  /\ (task = Idle <=> task.user = None)
  /\ lists \in Nat /\ reconciles \in Nat

\* What was won or given is never used beyond what there was, and nothing is ever
\* given back by a use, even while REGULAR, which the synchronisation overwrites,
\* is below what was used of it (planLeaveDeduction, deductPriority).
NothingOverdrawn ==
  \A u \in Users :
    /\ \A k \in {"AUCTION", "EVENT"} : Left(u)[k] >= 0
    /\ \A k \in Kinds : used[u][k] >= 0

\* A day of a later kind is used only when the kinds before it are used up
\* (leave-deduction.ts: AUCTION, EVENT, REGULAR, without a choice).
UsedInOrder ==
  [][\A u \in Users :
       /\ used'[u]["EVENT"] > used[u]["EVENT"] => Left(u)'["AUCTION"] = 0
       /\ used'[u]["REGULAR"] > used[u]["REGULAR"] =>
            Left(u)'["AUCTION"] = 0 /\ Left(u)'["EVENT"] = 0 /\ Left(u)'["REGULAR"] >= 0]_vars

\* A reconciliation whose rows did not change meanwhile makes both systems agree
\* (reconcile-user-leave: atmc + mdat = ours), whatever mdat was.
ReconciledAgrees ==
  [][mdat' # mdat /\ task # Idle /\ task' = Idle /\ Ours(task.user) = task.ours =>
       Atmc[task.user] + mdat'[task.user] = Ours(task.user)]_vars

\* Once every notice has arrived and no job is under way, both systems agree, as long
\* as nobody used leave (get-leave-sync-report: atmc + mdat = REGULAR + AUCTION; the
\* notices are said to keep it so).
BooksAgree ==
  /\ listing = Nobody /\ task = Idle
  /\ \A u \in Users : notices[u] = 0 /\ \A k \in Kinds : used[u][k] = 0
  => \A u \in Users : Atmc[u] + mdat[u] = Ours(u)
=============================================================================
