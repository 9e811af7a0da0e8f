--------------------------- MODULE RedemptionDesk ---------------------------
(***************************************************************************)
(* The redemption market: members spend points on items of a catalogue, or *)
(* propose an item of their own; an administrator sends the coupon or      *)
(* rejects the request, and the member confirms what was received.  The    *)
(* catalogue changes meanwhile.  Every operation is one transaction.       *)
(*                                                                         *)
(* Points are taken, and a unit of a limited stock, when the request is    *)
(* submitted; a rejection gives both back.  A proposal is a request for    *)
(* the catalogue's wish item that takes no unit of it.  Desks runs this    *)
(* module beside ChargeDesk, over one wallet.                              *)
(***************************************************************************)
EXTENDS Integers, FiniteSets, Functions

CONSTANTS
  Members, Items, Wish,
  Ids,             \* the ids of the requests that may be made
  Prices,          \* what an item, or a proposal, may cost
  Stocks,          \* what an administrator may set a stock to
  InitialBalance,
  InitialStock,
  Unlimited,       \* a stock of NULL
  WishLimited,     \* whether an administrator may limit the wish item's stock
  MaxEdits         \* bound: changes of the catalogue

RedemptionAssumption ==
  /\ Wish \in Items /\ IsFiniteSet(Ids)
  /\ Prices \subseteq Nat \ {0} /\ Stocks \subseteq Nat /\ Unlimited \notin Int
  /\ InitialBalance \in [Members -> Nat]
  /\ InitialStock \in [Items -> Nat \cup {Unlimited}] /\ InitialStock[Wish] = Unlimited
  /\ WishLimited \in BOOLEAN /\ MaxEdits \in Nat

VARIABLES
  wallet,   \* wallet.balance
  spent,    \* -(sum of REDEEM and REDEEM_REFUND entries) of each member
  stock, price, active,   \* redemption_item
  supplied, \* what administrators put into each stock, less what they took out
  request,  \* redemption_request
  edits

catalogue == <<price, active, edits>>
vars == <<wallet, spent, stock, supplied, catalogue, request>>

Absent == [status |-> "ABSENT"]

Init ==
  /\ wallet = InitialBalance /\ spent = [u \in Members |-> 0]
  /\ stock = InitialStock /\ supplied = InitialStock
  /\ price \in [Items -> Prices] /\ active = [i \in Items |-> TRUE]
  /\ request = [r \in Ids |-> Absent] /\ edits = 0

-----------------------------------------------------------------------------

AddedAny(n, k) == IF n = Unlimited THEN k ELSE n + k    \* Mutant: NULL counts as zero.
Added(n, k) == IF n = Unlimited THEN n ELSE n + k

AffordsAny(u, p) == wallet[u] > 0    \* Mutant: any purse that is not empty will do.
Affords(u, p) == wallet[u] >= p

Order(r, u, i, p, proposed) ==
  /\ request[r] = Absent /\ Affords(u, p)
  /\ wallet' = [wallet EXCEPT ![u] = @ - p]
  /\ spent' = [spent EXCEPT ![u] = @ + p]
  /\ request' = [request EXCEPT ![r] =
       [status |-> "PENDING", user |-> u, item |-> i, paid |-> p, proposed |-> proposed]]

Submit(r, u, i) ==
  /\ active[i] /\ stock[i] # 0
  /\ stock' = [stock EXCEPT ![i] = Added(@, -1)]
  /\ Order(r, u, i, price[i], FALSE)
  /\ UNCHANGED <<supplied, catalogue>>

SubmitCustom(r, u, p) ==
  /\ active[Wish]
  /\ Order(r, u, Wish, p, TRUE)
  /\ UNCHANGED <<stock, supplied, catalogue>>

Approve(r) ==
  /\ request[r].status = "PENDING"
  /\ request' = [request EXCEPT ![r].status = "APPROVED"]
  /\ UNCHANGED <<wallet, spent, stock, supplied, catalogue>>

RefundListed(r) == price[request[r].item]    \* Mutant: today's price comes back.
Refund(r) == request[r].paid

RepaidNever(u, r) == wallet[u]    \* Mutant: the entry is written, the wallet is not.
Repaid(u, r) == wallet[u] + Refund(r)

DecidableLate(r) == request[r].status \in {"PENDING", "APPROVED", "REJECTED"}  \* Mutant
Decidable(r) == request[r].status = "PENDING"

Reject(r) ==
  /\ Decidable(r)
  /\ LET u == request[r].user IN
     /\ wallet' = [wallet EXCEPT ![u] = Repaid(u, r)]
     /\ spent' = [spent EXCEPT ![u] = @ - Refund(r)]
  /\ stock' = [stock EXCEPT ![request[r].item] = Added(@, 1)]
  /\ request' = [request EXCEPT ![r].status = "REJECTED"]
  /\ UNCHANGED <<supplied, catalogue>>

\* Only the member who made the request.
ConfirmReceived(r, u) ==
  /\ request[r].status = "APPROVED" /\ request[r].user = u
  /\ request' = [request EXCEPT ![r].status = "RECEIVED"]
  /\ UNCHANGED <<wallet, spent, stock, supplied, catalogue>>

\* Units of the item that requests have taken, or that NULL stock let them have.
Held(i) == Cardinality({r \in Ids : /\ request[r].status \in {"PENDING", "APPROVED", "RECEIVED"}
                                    /\ request[r].item = i /\ ~ request[r].proposed})

\* An administrator changes an item: its price, whether it is on offer, its stock.
Edit(i) ==
  /\ edits < MaxEdits /\ edits' = edits + 1
  /\ \/ \E p \in Prices : price' = [price EXCEPT ![i] = p] /\ UNCHANGED <<active, stock, supplied>>
     \/ active' = [active EXCEPT ![i] = ~ @] /\ UNCHANGED <<price, stock, supplied>>
     \/ \E n \in Stocks :
          /\ i = Wish => WishLimited
          /\ stock' = [stock EXCEPT ![i] = n]
          /\ supplied' = [supplied EXCEPT ![i] = n + Held(i)]
          /\ UNCHANGED <<price, active>>
     \/ /\ stock' = [stock EXCEPT ![i] = Unlimited]
        /\ supplied' = [supplied EXCEPT ![i] = Unlimited]
        /\ UNCHANGED <<price, active>>
  /\ UNCHANGED <<wallet, spent, request>>

Next ==
  \/ \E r \in Ids :
       \/ Approve(r) \/ Reject(r)
       \/ \E u \in Members :
            ConfirmReceived(r, u) \/ (\E i \in Items : Submit(r, u, i))
                                  \/ (\E p \in Prices : SubmitCustom(r, u, p))
  \/ \E i \in Items : Edit(i)

Spec == Init /\ [][Next]_vars

-----------------------------------------------------------------------------
(* Properties.                                                             *)

Made == [status : {"PENDING", "APPROVED", "REJECTED", "RECEIVED"}, user : Members,
         item : Items, paid : Prices, proposed : BOOLEAN]

TypeOK ==
  /\ wallet \in [Members -> Nat] /\ spent \in [Members -> Int]
  /\ stock \in [Items -> Nat \cup {Unlimited}] /\ supplied \in [Items -> Int \cup {Unlimited}]
  /\ price \in [Items -> Prices] /\ active \in [Items -> BOOLEAN]
  /\ request \in [Ids -> {Absent} \cup Made] /\ edits \in 0..MaxEdits

\* What the ledger says was spent is what the requests that were not rejected cost
\* when they were made, whatever the catalogue asks for the items now
\* (pricePAtRequest; reject-redemption-request).
SpentOnRequests ==
  \A u \in Members :
    LET kept == {r \in Ids : /\ request[r].status \in {"PENDING", "APPROVED", "RECEIVED"}
                             /\ request[r].user = u} IN
    spent[u] = SumFunction([r \in kept |-> request[r].paid])

\* No unit is sold twice, none is lost, and a rejection puts back one that was taken.
StockBalanced ==
  \A i \in Items : stock[i] # Unlimited => stock[i] + Held(i) = supplied[i]
=============================================================================
