----------------------------- MODULE Personnel -----------------------------
(***************************************************************************)
(* The members (Membership) and their leave (LeaveBook), which the         *)
(* synchronisation with the personnel system writes both: it lists the     *)
(* company's members with their days, and for each of them reads the row,  *)
(* upserts it, and then upserts the REGULAR balance.  Every await is a     *)
(* step, and an error at any of them skips the rest of that member.        *)
(***************************************************************************)
EXTENDS Integers, FiniteSets

CONSTANTS
  Emails, None, MaxSyncs,
  OfCompany, Listable, Seeded, Logins, Editors, MaxEdits, MaxMoves,    \* of Membership
  Atmc, Regular, Lots, MaxWins, MaxUse, MaxReconciles                  \* of LeaveBook

VARIABLES
  row,       \* users
  directory, login, sync, edit, edits, moves, adopted,
  entitled, used,    \* leave_balance
  lots, won, notices, mdat, listing, task, reconciles,
  syncs

members  == <<row, directory, login, sync, edit, edits, moves, adopted>>
balances == <<entitled, used, lots, won, notices, mdat, listing, task, reconciles>>
vars     == <<members, balances, syncs>>

Roster == INSTANCE Membership
Book   == INSTANCE LeaveBook WITH Users <- Emails, lists <- syncs, MaxLists <- MaxSyncs

\* Who has no row has no balance.
ASSUME PersonnelAssumption ==
  /\ Roster!MembershipAssumption /\ Book!LeaveAssumption
  /\ \A e \in Emails : Seeded[e] = Roster!Absent => Regular[e] = 0

Init == Roster!Init /\ Book!Init

Known(e) == row[e] # Roster!Absent

-----------------------------------------------------------------------------
(* The synchronisation.                                                    *)

Todo == {m[1] : m \in sync.todo}
\* Whose row is written, and whose balance is not.
Due == DOMAIN listing \ (Todo \cup {sync.email})

ListCompany ==
  /\ Roster!ListDirectory
  /\ Book!ListMembers({e \in Emails : directory[e] # "none"})

ReadMember   == Due = {} /\ Roster!ReadListed /\ UNCHANGED balances
MirrorMember == Roster!WriteListed /\ UNCHANGED balances
SkipMember   == Roster!SkipListed /\ Book!SkipMember(sync.email)

SyncBalance(e) ==
  /\ e \in Due
  /\ Book!SyncMember(e) \/ Book!SkipMember(e)
  /\ UNCHANGED members

-----------------------------------------------------------------------------
(* Everything else is about the members or about their leave.              *)

AtRoster ==
  /\ (\E l \in Logins : Roster!LogsIn(l)) \/ (\E a \in Editors : Roster!Administers(a)) \/ Roster!Moves
  /\ UNCHANGED balances

AtLeave ==
  /\ \/ \E e \in Emails : Known(e) /\ Book!OfUser(e)
     \/ \E e \in Emails : Book!Deliver(e)
     \/ Book!PutTarget
  /\ UNCHANGED members

Next ==
  \/ AtRoster \/ AtLeave
  \/ ListCompany \/ ReadMember \/ MirrorMember \/ SkipMember
  \/ \E e \in Emails : SyncBalance(e)

Spec == Init /\ [][Next]_vars

-----------------------------------------------------------------------------
(* Properties.                                                             *)

TypeOK == Roster!TypeOK /\ Book!TypeOK

\* A member's company, once it is set, is the one of the role, whoever wrote the row last
\* and however the writers overtook each other (login, sync-members, manage-members), but
\* for members listed from another domain and administrators an edit made EXAM's.
CompanyFollowsRole == Roster!CompanyFollowsRole

\* An administrator loses the role to an administrator's edit, or to a login or a
\* synchronisation that had read the row before the promotion, and to nothing else
\* (resolveRole and the synchronisation keep administrators).
DemotedOnlyByOthers == Roster!DemotedOnlyByOthers

\* What was won or given is never used beyond what there was, and nothing is ever
\* given back by a use, whatever the synchronisation writes (planLeaveDeduction).
NothingOverdrawn == Book!NothingOverdrawn

\* A day of a later kind is used only when the kinds before it are used up
\* (leave-deduction.ts: AUCTION, EVENT, REGULAR, without a choice).
UsedInOrder == Book!UsedInOrder

\* A reconciliation whose rows did not change meanwhile makes both systems agree
\* (reconcile-user-leave: atmc + mdat = ours), whatever mdat was.
ReconciledAgrees == Book!ReconciledAgrees
=============================================================================
