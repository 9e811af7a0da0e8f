----------------------------- MODULE ChargeDesk -----------------------------
(***************************************************************************)
(* Charge requests: a member asks for points, an administrator approves or *)
(* rejects the request, and administrators may correct a wallet by hand.   *)
(*                                                                         *)
(* Submission, approval and the correction are one transaction each.  The  *)
(* rejection reads the request first and writes it in a later transaction  *)
(* without looking again, so another administrator's decision may come     *)
(* between.  Desks runs this module beside RedemptionDesk, over one wallet. *)
(***************************************************************************)
EXTENDS Integers, FiniteSets, Functions

CONSTANTS
  Members, Admins,
  Ids,              \* the ids of the requests that may be made
  Amounts,          \* the points one may ask for
  Corrections,      \* what an administrator may add to a wallet, or take (< 0)
  InitialBalance,
  MaxCorrections,   \* bound: corrections made by hand
  None              \* no request

ChargeAssumption ==
  /\ Amounts \subseteq Nat \ {0} /\ Corrections \subseteq Int \ {0}
  /\ InitialBalance \in [Members -> Nat] /\ MaxCorrections \in Nat
  /\ None \notin Ids

VARIABLES
  wallet,       \* wallet.balance
  request,      \* charge_request: its user, amount and status
  credits,      \* sum of each member's CREDIT_ADMIN entries
  approvals,    \* CREDIT_ADMIN entries that name the request
  refusals,     \* CHARGE_REJECTED entries that name the request
  rejecting,    \* the request each administrator's rejection has read
  corrections

vars == <<wallet, request, credits, approvals, refusals, rejecting, corrections>>

Absent == [status |-> "ABSENT"]

Init ==
  /\ wallet = InitialBalance
  /\ request = [r \in Ids |-> Absent]
  /\ credits = [u \in Members |-> 0]
  /\ approvals = [r \in Ids |-> 0] /\ refusals = [r \in Ids |-> 0]
  /\ rejecting = [a \in Admins |-> None]
  /\ corrections = 0

-----------------------------------------------------------------------------

Submit(r, u, x) ==
  /\ request[r] = Absent
  /\ request' = [request EXCEPT ![r] = [status |-> "PENDING", user |-> u, amount |-> x]]
  /\ UNCHANGED <<wallet, credits, approvals, refusals, rejecting, corrections>>

ApprovableAgain(r) == request[r].status \in {"PENDING", "APPROVED"}  \* Mutant: a second approval passes.
Approvable(r) == request[r].status = "PENDING"

PaidOver(u, x) == wallet[u]    \* Mutant: the entry is written, the wallet is not.
Paid(u, x) == wallet[u] + x

Approve(r) ==
  /\ Approvable(r)
  /\ LET u == request[r].user
         x == request[r].amount IN
     /\ wallet' = [wallet EXCEPT ![u] = Paid(u, x)]
     /\ credits' = [credits EXCEPT ![u] = @ + x]
  /\ request' = [request EXCEPT ![r].status = "APPROVED"]
  /\ approvals' = [approvals EXCEPT ![r] = @ + 1]
  /\ UNCHANGED <<refusals, rejecting, corrections>>

Rejectable(r) == request[r].status = "PENDING"

\* reject: findUnique, outside the transaction.
ReadForReject(a, r) ==
  /\ rejecting[a] = None
  /\ Rejectable(r)
  /\ rejecting' = [rejecting EXCEPT ![a] = r]
  /\ UNCHANGED <<wallet, request, credits, approvals, refusals, corrections>>

\* reject: the transaction, whatever the request has become.
WriteReject(a) ==
  /\ rejecting[a] # None
  /\ request' = [request EXCEPT ![rejecting[a]].status = "REJECTED"]
  /\ refusals' = [refusals EXCEPT ![rejecting[a]] = @ + 1]
  /\ rejecting' = [rejecting EXCEPT ![a] = None]
  /\ UNCHANGED <<wallet, credits, approvals, corrections>>

\* The process dies before the transaction of a rejection commits.
LoseReject(a) ==
  /\ rejecting[a] # None
  /\ rejecting' = [rejecting EXCEPT ![a] = None]
  /\ UNCHANGED <<wallet, request, credits, approvals, refusals, corrections>>

Covered(u, x) == wallet[u] + x >= 0

Correct(u, x) ==
  /\ corrections < MaxCorrections /\ corrections' = corrections + 1
  /\ Covered(u, x)
  /\ wallet' = [wallet EXCEPT ![u] = @ + x]
  /\ credits' = [credits EXCEPT ![u] = @ + x]
  /\ UNCHANGED <<request, approvals, refusals, rejecting>>

Next ==
  \/ \E r \in Ids : Approve(r) \/ \E u \in Members, x \in Amounts : Submit(r, u, x)
  \/ \E a \in Admins : WriteReject(a) \/ LoseReject(a) \/ \E r \in Ids : ReadForReject(a, r)
  \/ \E u \in Members, x \in Corrections : Correct(u, x)

Spec == Init /\ [][Next]_vars

-----------------------------------------------------------------------------
(* Properties.                                                             *)

Pending  == [status : {"PENDING", "APPROVED", "REJECTED"}, user : Members, amount : Amounts]

TypeOK ==
  /\ wallet \in [Members -> Nat] /\ request \in [Ids -> {Absent} \cup Pending]
  /\ credits \in [Members -> Int]
  /\ approvals \in [Ids -> Nat] /\ refusals \in [Ids -> Nat]
  /\ rejecting \in [Admins -> Ids \cup {None}] /\ corrections \in 0..MaxCorrections

\* A request is credited at most once, and never while it is undecided, even when
\* decisions cross (the check of the status inside approve's transaction).
CreditedOnce ==
  \A r \in Ids : /\ approvals[r] <= 1
                 /\ request[r].status \in {"ABSENT", "PENDING"} => approvals[r] = 0
                 /\ request[r].status = "APPROVED" => approvals[r] = 1

\* The ledger says the same of a decided request as its status, once
\* (reject-charge-request: "already decided" is refused).
DecidedOnce ==
  \A r \in Ids : /\ approvals[r] = (IF request[r].status = "APPROVED" THEN 1 ELSE 0)
                 /\ refusals[r] = (IF request[r].status = "REJECTED" THEN 1 ELSE 0)
=============================================================================
