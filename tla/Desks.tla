------------------------------- MODULE Desks -------------------------------
(***************************************************************************)
(* The two desks of a member's wallet: at one (ChargeDesk) points are      *)
(* asked for, and an administrator credits them or takes some by hand; at  *)
(* the other (RedemptionDesk) they are spent, and come back when a request *)
(* is rejected.  Each desk has its own tables; the wallets are the same,   *)
(* and so is the ledger, whose entries either desk adds to its own sums.   *)
(***************************************************************************)
EXTENDS Integers, FiniteSets

CONSTANTS
  Members, InitialBalance,
  Admins, ChargeIds, Amounts, Corrections, MaxCorrections, None,    \* of ChargeDesk
  Items, Wish, Ids, Prices, Stocks, InitialStock, Unlimited, WishLimited, MaxEdits

VARIABLES
  wallet,
  charge,    \* charge_request
  credits, approvals, refusals, rejecting, corrections,
  request,   \* redemption_request
  spent, stock, price, active, supplied, edits

charges == <<charge, credits, approvals, refusals, rejecting, corrections>>
market  == <<request, spent, stock, price, active, supplied, edits>>
vars    == <<wallet, charges, market>>

Charge == INSTANCE ChargeDesk WITH Ids <- ChargeIds, request <- charge
Market == INSTANCE RedemptionDesk

ASSUME DesksAssumption == Charge!ChargeAssumption /\ Market!RedemptionAssumption

Init == Charge!Init /\ Market!Init

AtCharges == Charge!Next /\ UNCHANGED market
AtMarket  == Market!Next /\ UNCHANGED charges
Next == AtCharges \/ AtMarket

Spec == Init /\ [][Next]_vars

-----------------------------------------------------------------------------
(* Properties.                                                             *)

TypeOK == Charge!TypeOK /\ Market!TypeOK

\* A wallet is what it was, plus what the ledger credits, less what it says was spent
\* (approve-charge-request, credit-wallet-admin, submit- and reject-redemption-request):
\* no entry without its points, no points without their entry, whichever desk moves them.
WalletsFollowLedger ==
  \A u \in Members : wallet[u] = InitialBalance[u] + credits[u] - spent[u]

\* A request for points is credited at most once, and never while it is undecided, even
\* when decisions cross (the check of the status inside approve's transaction).
CreditedOnce == Charge!CreditedOnce

\* What the ledger says was spent is what the requests that were not rejected cost when
\* they were made (pricePAtRequest; reject-redemption-request).
SpentOnRequests == Market!SpentOnRequests

\* No unit is sold twice, none is lost, and a rejection puts back one that was taken.
StockBalanced == Market!StockBalanced
=============================================================================
