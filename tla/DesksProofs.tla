----------------------------- MODULE DesksProofs -----------------------------
(***************************************************************************)
(* For any members, administrators, items, prices, requests and changes of *)
(* the catalogue, and however decisions cross at the two desks: every      *)
(* wallet is what the ledger says, no request for points is credited       *)
(* twice, what the ledger says was spent is what the requests cost; and as *)
(* long as nobody limits the wish item's stock, no unit of an item is lost *)
(* or sold twice.                                                          *)
(***************************************************************************)
EXTENDS Desks, Sums

\* What each desk knows of its constants.
LEMMA ChargeConstants ==
  /\ Amounts \subseteq Nat \ {0} /\ Corrections \subseteq Int \ {0}
  /\ InitialBalance \in [Members -> Nat] /\ MaxCorrections \in Nat
  /\ None \notin ChargeIds
BY DesksAssumption DEF Charge!ChargeAssumption

\* The same of the market.
LEMMA MarketConstants ==
  /\ Wish \in Items /\ IsFiniteSet(Ids)
  /\ Prices \subseteq Nat \ {0} /\ Stocks \subseteq Nat /\ Unlimited \notin Int
  /\ InitialBalance \in [Members -> Nat]
  /\ InitialStock \in [Items -> Nat \cup {Unlimited}] /\ InitialStock[Wish] = Unlimited
  /\ WishLimited \in BOOLEAN /\ MaxEdits \in Nat
BY DesksAssumption DEF Market!RedemptionAssumption, Market!IsFiniteSet, IsFiniteSet

-----------------------------------------------------------------------------
(* Where points are asked for.                                             *)

\* A rejection under way has read a request that was made; none is ever unmade.
RejectingMade == \A a \in Admins : rejecting[a] # None => charge[rejecting[a]] # Charge!Absent

\* What this desk keeps, of the other one only that what was spent is a number.
ChargeInv ==
  /\ Charge!TypeOK /\ RejectingMade /\ Charge!CreditedOnce
  /\ spent \in [Members -> Int] /\ WalletsFollowLedger

\* A request that may be approved or rejected has been made.
LEMMA ChargeMade ==
  ASSUME Charge!TypeOK, NEW r \in ChargeIds, charge[r].status = "PENDING"
  PROVE  /\ charge[r] \in Charge!Pending /\ charge[r] # Charge!Absent
         /\ charge[r].user \in Members /\ charge[r].amount \in Amounts
BY DEF Charge!TypeOK, Charge!Absent, Charge!Pending

\* Changing the status of a request that was made leaves it a request.
LEMMA ChargeChanged ==
  ASSUME Charge!TypeOK, NEW r \in ChargeIds, charge[r] # Charge!Absent,
         NEW s \in {"APPROVED", "REJECTED"},
         charge' = [charge EXCEPT ![r].status = s]
  PROVE  /\ charge' \in [ChargeIds -> {Charge!Absent} \cup Charge!Pending]
         /\ charge'[r].status = s /\ charge'[r] # Charge!Absent
         /\ \A q \in ChargeIds \ {r} : charge'[q] = charge[q]
<1> DEFINE p == [charge[r] EXCEPT !.status = s]
<1>1. charge[r] \in Charge!Pending
  BY DEF Charge!TypeOK
<1>2. p \in Charge!Pending /\ p.status = s
  BY <1>1 DEF Charge!Pending
<1>3. p # Charge!Absent
  BY <1>2 DEF Charge!Absent
<1>4. charge' = [charge EXCEPT ![r] = p]
  OBVIOUS
<1> HIDE DEF p
<1>5. charge \in [ChargeIds -> {Charge!Absent} \cup Charge!Pending]
  BY DEF Charge!TypeOK
<1> QED BY <1>2, <1>3, <1>4, <1>5

\* Points that are added to a wallet and to the member's entries keep the two in step.
LEMMA BothRaised ==
  ASSUME ChargeInv, UNCHANGED market, NEW u \in Members, NEW x \in Int,
         wallet' = [wallet EXCEPT ![u] = wallet[u] + x],
         credits' = [credits EXCEPT ![u] = credits[u] + x]
  PROVE  WalletsFollowLedger'
<1>1. SUFFICES ASSUME NEW v \in Members
               PROVE  wallet'[v] = InitialBalance[v] + credits'[v] - spent'[v]
  BY DEF WalletsFollowLedger
<1>2. wallet[v] = InitialBalance[v] + credits[v] - spent[v] /\ spent' = spent
  BY DEF ChargeInv, WalletsFollowLedger, market
<1>3. /\ wallet'[v] = IF v = u THEN wallet[v] + x ELSE wallet[v]
      /\ credits'[v] = IF v = u THEN credits[v] + x ELSE credits[v]
  BY DEF ChargeInv, Charge!TypeOK
<1>4. InitialBalance \in [Members -> Nat] /\ credits \in [Members -> Int]
  /\ spent \in [Members -> Int]
  BY ChargeConstants DEF ChargeInv, Charge!TypeOK
<1>5. InitialBalance[v] \in Nat /\ credits[v] \in Int /\ spent[v] \in Int
  BY <1>4
<1> QED BY <1>2, <1>3, <1>5

\* Every step keeps the invariant, whoever has read a request in the meantime.
LEMMA ChargeNext == ASSUME ChargeInv, AtCharges PROVE ChargeInv'
<1> USE DEF ChargeInv
<1>1. UNCHANGED market /\ Charge!Next /\ spent' = spent
  BY DEF AtCharges, market
<1>2. ASSUME NEW r \in ChargeIds, NEW u \in Members, NEW x \in Amounts, Charge!Submit(r, u, x)
      PROVE  ChargeInv'
  <2> DEFINE p == [status |-> "PENDING", user |-> u, amount |-> x]
  <2>1. p \in Charge!Pending /\ p # Charge!Absent /\ p.status = "PENDING"
    BY DEF Charge!Pending, Charge!Absent
  <2>2. charge[r] = Charge!Absent /\ charge' = [charge EXCEPT ![r] = p]
    BY <1>2 DEF Charge!Submit
  <2>3. UNCHANGED <<wallet, credits, approvals, refusals, rejecting, corrections>>
    BY <1>2 DEF Charge!Submit
  <2> HIDE DEF p
  <2>4. Charge!TypeOK'
    BY <2>1, <2>2, <2>3 DEF Charge!TypeOK
  <2>5. RejectingMade'
    BY <2>1, <2>2, <2>3 DEF Charge!TypeOK, RejectingMade
  <2>6. WalletsFollowLedger'
    BY <1>1, <2>3 DEF WalletsFollowLedger
  <2>7. approvals[r] = 0
    BY <2>2 DEF Charge!CreditedOnce, Charge!Absent
  <2>8. Charge!CreditedOnce'
    BY <2>1, <2>2, <2>3, <2>7 DEF Charge!TypeOK, Charge!CreditedOnce
  <2> QED BY <1>1, <2>4, <2>5, <2>6, <2>8
<1>3. ASSUME NEW r \in ChargeIds, Charge!Approve(r) PROVE ChargeInv'
  <2> DEFINE u == charge[r].user
             x == charge[r].amount
  <2>1. /\ charge[r].status = "PENDING"
        /\ wallet' = [wallet EXCEPT ![u] = wallet[u] + x]
        /\ credits' = [credits EXCEPT ![u] = credits[u] + x]
        /\ charge' = [charge EXCEPT ![r].status = "APPROVED"]
        /\ approvals' = [approvals EXCEPT ![r] = @ + 1]
        /\ UNCHANGED <<refusals, rejecting, corrections>>
    BY <1>3 DEF Charge!Approve, Charge!Approvable, Charge!Paid
  <2>2. charge[r] # Charge!Absent /\ u \in Members /\ x \in Nat
    BY <2>1, ChargeMade, ChargeConstants
  <2>3. /\ charge' \in [ChargeIds -> {Charge!Absent} \cup Charge!Pending]
        /\ charge'[r].status = "APPROVED" /\ charge'[r] # Charge!Absent
        /\ \A q \in ChargeIds \ {r} : charge'[q] = charge[q]
    BY <2>1, <2>2, ChargeChanged
  <2> HIDE DEF u, x
  <2>4. wallet' \in [Members -> Nat] /\ credits' \in [Members -> Int]
    BY <2>1, <2>2 DEF Charge!TypeOK
  <2>5. approvals' \in [ChargeIds -> Nat]
    BY <2>1 DEF Charge!TypeOK
  <2>6. Charge!TypeOK'
    BY <2>1, <2>3, <2>4, <2>5 DEF Charge!TypeOK
  <2>7. RejectingMade'
    BY <2>1, <2>3 DEF RejectingMade, Charge!TypeOK
  <2>8. WalletsFollowLedger'
    <3>1. x \in Int
      BY <2>2
    <3> QED BY <2>1, <2>2, <3>1, <1>1, BothRaised
  <2>9. approvals[r] = 0
    BY <2>1 DEF Charge!CreditedOnce
  <2>10. Charge!CreditedOnce'
    BY <2>1, <2>3, <2>9 DEF Charge!CreditedOnce, Charge!TypeOK
  <2> QED BY <1>1, <2>6, <2>7, <2>8, <2>10
<1>4. ASSUME NEW a \in Admins, NEW r \in ChargeIds, Charge!ReadForReject(a, r) PROVE ChargeInv'
  <2>1. charge[r] # Charge!Absent
    BY <1>4, ChargeMade DEF Charge!ReadForReject, Charge!Rejectable
  <2> QED BY <1>1, <1>4, <2>1
          DEF Charge!ReadForReject, Charge!TypeOK, RejectingMade, WalletsFollowLedger,
          Charge!CreditedOnce
<1>5. ASSUME NEW a \in Admins, Charge!WriteReject(a) PROVE ChargeInv'
  <2> DEFINE r == rejecting[a]
  <2>1. /\ charge' = [charge EXCEPT ![r].status = "REJECTED"]
        /\ refusals' = [refusals EXCEPT ![r] = @ + 1]
        /\ rejecting' = [rejecting EXCEPT ![a] = None]
        /\ UNCHANGED <<wallet, credits, approvals, corrections>>
    BY <1>5 DEF Charge!WriteReject
  <2>2. r \in ChargeIds /\ charge[r] # Charge!Absent
    BY <1>5 DEF Charge!WriteReject, Charge!TypeOK, RejectingMade
  <2>3. /\ charge' \in [ChargeIds -> {Charge!Absent} \cup Charge!Pending]
        /\ charge'[r].status = "REJECTED" /\ charge'[r] # Charge!Absent
        /\ \A q \in ChargeIds \ {r} : charge'[q] = charge[q]
    BY <2>1, <2>2, ChargeChanged
  <2> HIDE DEF r
  <2>4. Charge!TypeOK'
    BY <2>1, <2>2, <2>3 DEF Charge!TypeOK
  <2>5. RejectingMade'
    BY <2>1, <2>3 DEF RejectingMade, Charge!TypeOK
  <2>6. WalletsFollowLedger'
    BY <1>1, <2>1 DEF WalletsFollowLedger
  <2>7. Charge!CreditedOnce'
    BY <2>1, <2>2, <2>3 DEF Charge!CreditedOnce
  <2> QED BY <1>1, <2>4, <2>5, <2>6, <2>7
<1>6. ASSUME NEW a \in Admins, Charge!LoseReject(a) PROVE ChargeInv'
  BY <1>1, <1>6 DEF Charge!LoseReject, Charge!TypeOK, RejectingMade, WalletsFollowLedger,
     Charge!CreditedOnce
<1>7. ASSUME NEW u \in Members, NEW x \in Corrections, Charge!Correct(u, x) PROVE ChargeInv'
  <2>1. /\ x \in Int /\ corrections' \in 0..MaxCorrections
        /\ wallet[u] + x >= 0
        /\ wallet' = [wallet EXCEPT ![u] = wallet[u] + x]
        /\ credits' = [credits EXCEPT ![u] = credits[u] + x]
        /\ UNCHANGED <<charge, approvals, refusals, rejecting>>
    BY <1>7, ChargeConstants DEF Charge!Correct, Charge!Covered, Charge!TypeOK
  <2>2. Charge!TypeOK'
    BY <2>1 DEF Charge!TypeOK
  <2>3. RejectingMade' /\ Charge!CreditedOnce'
    BY <2>1 DEF RejectingMade, Charge!CreditedOnce
  <2>4. WalletsFollowLedger'
    BY <2>1, <1>1, BothRaised
  <2> QED BY <1>1, <2>2, <2>3, <2>4
<1> QED BY <1>1, <1>2, <1>3, <1>4, <1>5, <1>6, <1>7 DEF Charge!Next

-----------------------------------------------------------------------------
(* Where they are spent.                                                   *)

\* What this desk keeps, of the other one only that what was credited is a number.
LedgerInv == Market!TypeOK /\ credits \in [Members -> Int] /\ WalletsFollowLedger

\* The requests that hold a unit of an item.
Holders(i) == {r \in Ids : /\ request[r].status \in {"PENDING", "APPROVED", "RECEIVED"}
                           /\ request[r].item = i /\ ~ request[r].proposed}

\* They can be counted.
LEMMA HoldersFinite ==
  ASSUME NEW i \in Items
  PROVE  IsFiniteSet(Holders(i)) /\ Market!Held(i) = Cardinality(Holders(i))
    /\ Market!Held(i) \in Nat
<1>1. Holders(i) \subseteq Ids
  BY DEF Holders
<1>2. IsFiniteSet(Holders(i))
  BY <1>1, FS_Subset, MarketConstants
<1> QED BY <1>2, FS_CardinalityType DEF Market!Held, Holders, Market!Cardinality, Cardinality

\* A unit more or less leaves a stock a stock, and an unlimited one unlimited.
LEMMA StockAdded ==
  ASSUME NEW n \in Nat \cup {Unlimited}, NEW k \in {-1, 1}, k = -1 => n # 0
  PROVE  /\ Market!Added(n, k) \in Nat \cup {Unlimited}
         /\ Market!Added(n, k) = Unlimited <=> n = Unlimited
         /\ n # Unlimited => Market!Added(n, k) = n + k
BY MarketConstants DEF Market!Added

\* A request that was made and is not decided has its member, item and price.
LEMMA MadeBefore ==
  ASSUME Market!TypeOK, NEW r \in Ids, request[r] # Market!Absent
  PROVE  /\ request[r] \in Market!Made /\ request[r].user \in Members
         /\ request[r].item \in Items /\ request[r].paid \in Nat
BY MarketConstants DEF Market!TypeOK, Market!Made

\* A request that has a status other than ABSENT was made.
LEMMA StatusMade ==
  ASSUME Market!TypeOK, NEW r \in Ids, request[r].status # "ABSENT"
  PROVE  request[r] # Market!Absent
BY DEF Market!Absent

\* A new status leaves the rest of a request as it is.
LEMMA StatusChanged ==
  ASSUME Market!TypeOK, NEW r \in Ids, request[r] # Market!Absent,
         NEW s \in {"APPROVED", "REJECTED", "RECEIVED"},
         request' = [request EXCEPT ![r].status = s]
  PROVE  /\ request' \in [Ids -> {Market!Absent} \cup Market!Made]
         /\ request'[r] = [request[r] EXCEPT !.status = s]
         /\ request'[r].status = s /\ request'[r].item = request[r].item
         /\ request'[r].proposed = request[r].proposed
         /\ \A q \in Ids \ {r} : request'[q] = request[q]
<1> DEFINE p == [request[r] EXCEPT !.status = s]
<1>1. request[r] \in Market!Made
  BY MadeBefore
<1>2. /\ p \in Market!Made /\ p.status = s /\ p.item = request[r].item
      /\ p.proposed = request[r].proposed
  BY <1>1 DEF Market!Made
<1>3. request' = [request EXCEPT ![r] = p] /\ request \in [Ids -> {Market!Absent} \cup Market!Made]
  BY DEF Market!TypeOK
<1>4. p = [request[r] EXCEPT !.status = s]
  OBVIOUS
<1> HIDE DEF p
<1> QED BY <1>2, <1>3, <1>4

\* Points that leave a wallet are booked as spent, and those that come back are not.
LEMMA BothMoved ==
  ASSUME LedgerInv, UNCHANGED charges, NEW u \in Members, NEW x \in Int, wallet[u] - x >= 0,
         wallet' = [wallet EXCEPT ![u] = wallet[u] - x],
         spent' = [spent EXCEPT ![u] = spent[u] + x]
  PROVE  /\ wallet' \in [Members -> Nat] /\ spent' \in [Members -> Int]
         /\ WalletsFollowLedger'
<1>1. wallet \in [Members -> Nat] /\ spent \in [Members -> Int]
  BY DEF LedgerInv, Market!TypeOK
<1>2. wallet' \in [Members -> Nat] /\ spent' \in [Members -> Int]
  BY <1>1
<1>3. SUFFICES ASSUME NEW v \in Members
               PROVE  wallet'[v] = InitialBalance[v] + credits'[v] - spent'[v]
  BY <1>2 DEF WalletsFollowLedger
<1>4. /\ wallet[v] = InitialBalance[v] + credits[v] - spent[v]
      /\ wallet[v] \in Nat /\ spent[v] \in Int /\ credits[v] \in Int /\ InitialBalance[v] \in Nat
      /\ credits' = credits
  BY <1>1, MarketConstants DEF LedgerInv, WalletsFollowLedger, charges
<1>5. /\ wallet'[v] = IF v = u THEN wallet[v] - x ELSE wallet[v]
      /\ spent'[v] = IF v = u THEN spent[v] + x ELSE spent[v]
  BY <1>1
<1> QED BY <1>4, <1>5

\* A request is made, and its price leaves the wallet and is booked.
LEMMA OrderKeeps ==
  ASSUME LedgerInv, UNCHANGED charges, NEW r \in Ids, NEW u \in Members, NEW i \in Items,
         NEW p \in Prices, NEW b \in BOOLEAN, Market!Order(r, u, i, p, b)
  PROVE  /\ wallet' \in [Members -> Nat] /\ spent' \in [Members -> Int]
         /\ request' \in [Ids -> {Market!Absent} \cup Market!Made]
         /\ WalletsFollowLedger'
         /\ request[r] = Market!Absent /\ request'[r].item = i /\ request'[r].proposed = b
         /\ request'[r].status = "PENDING"
         /\ \A q \in Ids \ {r} : request'[q] = request[q]
<1>1. p \in Int /\ wallet[u] \in Nat
  BY MarketConstants DEF LedgerInv, Market!TypeOK
<1>2. wallet[u] - p >= 0
  BY <1>1, MarketConstants DEF Market!Order, Market!Affords
<1>3. /\ wallet' = [wallet EXCEPT ![u] = wallet[u] - p]
      /\ spent' = [spent EXCEPT ![u] = spent[u] + p]
  BY DEF Market!Order
<1>4. /\ wallet' \in [Members -> Nat] /\ spent' \in [Members -> Int]
      /\ WalletsFollowLedger'
  BY <1>1, <1>2, <1>3, BothMoved
<1> DEFINE q == [status |-> "PENDING", user |-> u, item |-> i, paid |-> p, proposed |-> b]
<1>5. q \in Market!Made /\ q.item = i /\ q.proposed = b /\ q.status = "PENDING"
  BY DEF Market!Made
<1>6. request[r] = Market!Absent /\ request' = [request EXCEPT ![r] = q]
  BY DEF Market!Order
<1>7. request \in [Ids -> {Market!Absent} \cup Market!Made]
  BY DEF LedgerInv, Market!TypeOK
<1> HIDE DEF q
<1> QED BY <1>4, <1>5, <1>6, <1>7

\* A rejection pays back what the request cost when it was made.
LEMMA RejectKeeps ==
  ASSUME LedgerInv, UNCHANGED charges, NEW r \in Ids, Market!Reject(r)
  PROVE  /\ wallet' \in [Members -> Nat] /\ spent' \in [Members -> Int]
         /\ WalletsFollowLedger'
         /\ request[r] # Market!Absent /\ request[r].item \in Items
<1> DEFINE u == request[r].user
           p == request[r].paid
<1>1. request[r] # Market!Absent
  BY DEF Market!Reject, Market!Decidable, Market!Absent
<1>2. u \in Members /\ p \in Nat /\ request[r].item \in Items
  BY <1>1, MadeBefore DEF LedgerInv
<1>3. /\ wallet' = [wallet EXCEPT ![u] = wallet[u] + p]
      /\ spent' = [spent EXCEPT ![u] = spent[u] - p]
  BY DEF Market!Reject, Market!Repaid, Market!Refund
<1> HIDE DEF u, p
<1>4. wallet[u] \in Nat /\ spent[u] \in Int
  BY <1>2 DEF LedgerInv, Market!TypeOK
<1> DEFINE x == -p
<1>5. x \in Int /\ wallet[u] - x = wallet[u] + p /\ spent[u] + x = spent[u] - p
  BY <1>2, <1>4
<1>6. wallet[u] - x >= 0
  BY <1>2, <1>4
<1>7. /\ wallet' = [wallet EXCEPT ![u] = wallet[u] - x]
      /\ spent' = [spent EXCEPT ![u] = spent[u] + x]
  BY <1>3, <1>5
<1> HIDE DEF x
<1>8. /\ wallet' \in [Members -> Nat] /\ spent' \in [Members -> Int]
      /\ WalletsFollowLedger'
  BY <1>2, <1>5, <1>6, <1>7, BothMoved
<1> QED BY <1>1, <1>2, <1>8

\* The two operations that make a request keep the ledger and the types.
LEMMA SubmitTyped ==
  ASSUME LedgerInv, UNCHANGED charges, NEW r \in Ids, NEW u \in Members, NEW i \in Items,
         Market!Submit(r, u, i)
  PROVE  LedgerInv'
<1>1. price[i] \in Prices /\ stock[i] \in Nat \cup {Unlimited}
  BY DEF LedgerInv, Market!TypeOK
<1>2. Market!Order(r, u, i, price[i], FALSE) /\ stock[i] # 0
  BY DEF Market!Submit
<1>3. /\ wallet' \in [Members -> Nat] /\ spent' \in [Members -> Int]
      /\ request' \in [Ids -> {Market!Absent} \cup Market!Made]
      /\ WalletsFollowLedger'
  BY <1>1, <1>2, OrderKeeps
<1>4. Market!Added(stock[i], -1) \in Nat \cup {Unlimited}
  BY <1>1, <1>2, StockAdded
<1>5. stock' = [stock EXCEPT ![i] = Market!Added(stock[i], -1)] /\ UNCHANGED <<supplied, price,
  active, edits>>
  BY DEF Market!Submit, Market!catalogue
<1>6. stock' \in [Items -> Nat \cup {Unlimited}]
  BY <1>4, <1>5 DEF LedgerInv, Market!TypeOK
<1>7. Market!TypeOK'
  BY <1>3, <1>5, <1>6 DEF LedgerInv, Market!TypeOK
<1> QED BY <1>3, <1>7 DEF LedgerInv, charges

\* A proposal takes points, and no unit.
LEMMA ProposalTyped ==
  ASSUME LedgerInv, UNCHANGED charges, NEW r \in Ids, NEW u \in Members, NEW p \in Prices,
         Market!SubmitCustom(r, u, p)
  PROVE  LedgerInv'
<1>1. Market!Order(r, u, Wish, p, TRUE) /\ Wish \in Items
  BY MarketConstants DEF Market!SubmitCustom
<1>2. /\ wallet' \in [Members -> Nat] /\ spent' \in [Members -> Int]
      /\ request' \in [Ids -> {Market!Absent} \cup Market!Made]
      /\ WalletsFollowLedger'
  BY <1>1, OrderKeeps
<1>3. UNCHANGED <<stock, supplied, price, active, edits>>
  BY DEF Market!SubmitCustom, Market!catalogue
<1>4. Market!TypeOK'
  BY <1>2, <1>3 DEF LedgerInv, Market!TypeOK
<1> QED BY <1>2, <1>4 DEF LedgerInv, charges

\* A rejection gives points and a unit back.
LEMMA RejectTyped ==
  ASSUME LedgerInv, UNCHANGED charges, NEW r \in Ids, Market!Reject(r)
  PROVE  LedgerInv'
<1>1. /\ wallet' \in [Members -> Nat] /\ spent' \in [Members -> Int]
      /\ WalletsFollowLedger'
      /\ request[r] # Market!Absent /\ request[r].item \in Items
  BY RejectKeeps
<1> DEFINE i == request[r].item
<1>2. /\ stock' = [stock EXCEPT ![i] = Market!Added(stock[i], 1)]
      /\ request' = [request EXCEPT ![r].status = "REJECTED"]
      /\ UNCHANGED <<supplied, price, active, edits>>
  BY DEF Market!Reject, Market!catalogue
<1>3. i \in Items
  BY <1>1
<1> HIDE DEF i
<1>4. stock[i] \in Nat \cup {Unlimited}
  BY <1>3 DEF LedgerInv, Market!TypeOK
<1>5. Market!Added(stock[i], 1) \in Nat \cup {Unlimited}
  BY <1>4, MarketConstants DEF Market!Added
<1>6. stock' \in [Items -> Nat \cup {Unlimited}]
  BY <1>2, <1>3, <1>5 DEF LedgerInv, Market!TypeOK
<1>7. request' \in [Ids -> {Market!Absent} \cup Market!Made]
  BY <1>1, <1>2, StatusChanged DEF LedgerInv
<1>8. Market!TypeOK'
  BY <1>1, <1>2, <1>6, <1>7 DEF LedgerInv, Market!TypeOK
<1> QED BY <1>1, <1>8 DEF LedgerInv, charges

\* An approval and a confirmation change the status alone.
LEMMA DecisionTyped ==
  ASSUME LedgerInv, UNCHANGED charges, NEW r \in Ids,
         Market!Approve(r) \/ \E u \in Members : Market!ConfirmReceived(r, u)
  PROVE  LedgerInv'
<1>1. PICK s \in {"APPROVED", "RECEIVED"} : request' = [request EXCEPT ![r].status = s]
  BY DEF Market!Approve, Market!ConfirmReceived
<1>2. UNCHANGED <<wallet, spent, stock, supplied, price, active, edits>>
  BY DEF Market!Approve, Market!ConfirmReceived, Market!catalogue
<1>3. request[r] # Market!Absent
  BY DEF Market!Approve, Market!ConfirmReceived, Market!Absent
<1>4. request' \in [Ids -> {Market!Absent} \cup Market!Made]
  BY <1>1, <1>3, StatusChanged DEF LedgerInv
<1>5. Market!TypeOK'
  BY <1>2, <1>4 DEF LedgerInv, Market!TypeOK
<1> QED BY <1>2, <1>5 DEF LedgerInv, WalletsFollowLedger, charges

\* An edit of the catalogue moves no points.
LEMMA EditTyped ==
  ASSUME LedgerInv, UNCHANGED charges, NEW i \in Items, Market!Edit(i)
  PROVE  LedgerInv'
<1>1. UNCHANGED <<wallet, spent, request>> /\ edits' \in 0..MaxEdits
  BY MarketConstants DEF Market!Edit, LedgerInv, Market!TypeOK
<1>2. Market!Held(i) \in Nat
  BY HoldersFinite
<1>3. /\ price' \in [Items -> Prices] /\ active' \in [Items -> BOOLEAN]
      /\ stock' \in [Items -> Nat \cup {Unlimited}] /\ supplied' \in [Items -> Int \cup {Unlimited}]
  <2>1. CASE \E p \in Prices : price' = [price EXCEPT ![i] = p] /\ UNCHANGED <<active, stock,
    supplied>>
    BY <2>1 DEF LedgerInv, Market!TypeOK
  <2>2. CASE active' = [active EXCEPT ![i] = ~ active[i]] /\ UNCHANGED <<price, stock, supplied>>
    BY <2>2 DEF LedgerInv, Market!TypeOK
  <2>3. CASE \E n \in Stocks : /\ stock' = [stock EXCEPT ![i] = n]
                              /\ supplied' = [supplied EXCEPT ![i] = n + Market!Held(i)]
                              /\ UNCHANGED <<price, active>>
    BY <1>2, <2>3, MarketConstants DEF LedgerInv, Market!TypeOK
  <2>4. CASE /\ stock' = [stock EXCEPT ![i] = Unlimited]
             /\ supplied' = [supplied EXCEPT ![i] = Unlimited]
             /\ UNCHANGED <<price, active>>
    BY <2>4 DEF LedgerInv, Market!TypeOK
  <2> QED BY <2>1, <2>2, <2>3, <2>4 DEF Market!Edit
<1>4. Market!TypeOK'
  BY <1>1, <1>3 DEF LedgerInv, Market!TypeOK
<1> QED BY <1>1, <1>4 DEF LedgerInv, WalletsFollowLedger, charges

\* Every step keeps the ledger and the types.
LEMMA LedgerNext == ASSUME LedgerInv, AtMarket PROVE LedgerInv'
<1>1. UNCHANGED charges
  BY DEF AtMarket
<1>2. CASE \E i \in Items : Market!Edit(i)
  BY <1>1, <1>2, EditTyped
<1>3. ASSUME NEW r \in Ids, Market!Approve(r) \/ \E u \in Members : Market!ConfirmReceived(r, u)
      PROVE  LedgerInv'
  BY <1>1, <1>3, DecisionTyped
<1>4. ASSUME NEW r \in Ids, Market!Reject(r) PROVE LedgerInv'
  BY <1>1, <1>4, RejectTyped
<1>5. ASSUME NEW r \in Ids, NEW u \in Members, \E i \in Items : Market!Submit(r, u, i)
      PROVE  LedgerInv'
  BY <1>1, <1>5, SubmitTyped
<1>6. ASSUME NEW r \in Ids, NEW u \in Members, \E p \in Prices : Market!SubmitCustom(r, u, p)
      PROVE  LedgerInv'
  BY <1>1, <1>6, ProposalTyped
<1> QED BY <1>2, <1>3, <1>4, <1>5, <1>6 DEF AtMarket, Market!Next

-----------------------------------------------------------------------------
(* Both.                                                                   *)

DeskInv == ChargeInv /\ LedgerInv

\* The desks open without a request, and with the wallets as they are.
LEMMA DesksInit == Init => DeskInv
<1> SUFFICES ASSUME Init PROVE DeskInv
  OBVIOUS
<1>1. Charge!TypeOK /\ RejectingMade /\ Charge!CreditedOnce
  BY ChargeConstants DEF Init, Charge!Init, Charge!TypeOK, RejectingMade, Charge!CreditedOnce,
     Charge!Absent
<1>2. Market!TypeOK
  BY MarketConstants DEF Init, Market!Init, Market!TypeOK
<1>3. credits \in [Members -> Int] /\ spent \in [Members -> Int]
  BY <1>1, <1>2 DEF Charge!TypeOK, Market!TypeOK
<1>4. WalletsFollowLedger
  BY ChargeConstants DEF Init, Charge!Init, Market!Init, WalletsFollowLedger
<1> QED BY <1>1, <1>2, <1>3, <1>4 DEF DeskInv, ChargeInv, LedgerInv

\* A step at one desk leaves the other its tables, and a wallet a wallet.
LEMMA DesksNext == DeskInv /\ [Next]_vars => DeskInv'
<1> SUFFICES ASSUME DeskInv, [Next]_vars PROVE DeskInv'
  OBVIOUS
<1>1. CASE UNCHANGED vars
  BY <1>1 DEF vars, charges, market, DeskInv, ChargeInv, LedgerInv, Charge!TypeOK, Market!TypeOK,
              RejectingMade, Charge!CreditedOnce, WalletsFollowLedger
<1>2. CASE AtCharges
  <2>1. ChargeInv'
    BY <1>2, ChargeNext DEF DeskInv
  <2>2. UNCHANGED <<request, spent, stock, price, active, supplied, edits>>
    BY <1>2 DEF AtCharges, market
  <2>3. wallet' \in [Members -> Nat] /\ credits' \in [Members -> Int] /\ WalletsFollowLedger'
    BY <2>1 DEF ChargeInv, Charge!TypeOK
  <2>4. Market!TypeOK'
    BY <2>2, <2>3 DEF DeskInv, LedgerInv, Market!TypeOK
  <2> QED BY <2>1, <2>3, <2>4 DEF DeskInv, LedgerInv
<1>3. CASE AtMarket
  <2>1. LedgerInv'
    BY <1>3, LedgerNext DEF DeskInv
  <2>2. UNCHANGED <<charge, credits, approvals, refusals, rejecting, corrections>>
    BY <1>3 DEF AtMarket, charges
  <2>3. wallet' \in [Members -> Nat] /\ spent' \in [Members -> Int] /\ WalletsFollowLedger'
    BY <2>1 DEF LedgerInv, Market!TypeOK
  <2>4. Charge!TypeOK' /\ RejectingMade' /\ Charge!CreditedOnce'
    BY <2>2, <2>3 DEF DeskInv, ChargeInv, Charge!TypeOK, RejectingMade, Charge!CreditedOnce
  <2> QED BY <2>1, <2>3, <2>4 DEF DeskInv, ChargeInv
<1> QED BY <1>1, <1>2, <1>3 DEF Next

\* In every behaviour both desks keep their types, and no wallet goes below zero, whatever
\* is corrected by hand or ordered meanwhile (credit-wallet-admin, submit-redemption-request).
THEOREM DesksTyped == Spec => []TypeOK
<1>1. DeskInv => TypeOK
  BY DEF DeskInv, ChargeInv, LedgerInv, TypeOK
<1> QED BY <1>1, DesksInit, DesksNext, PTL DEF Spec

\* Every wallet is what the ledger's entries of both desks say, however their operations
\* cross (approve-charge-request, credit-wallet-admin, submit- and reject-redemption-request).
THEOREM LedgerFollowed == Spec => []WalletsFollowLedger
<1>1. DeskInv => WalletsFollowLedger
  BY DEF DeskInv, ChargeInv
<1> QED BY <1>1, DesksInit, DesksNext, PTL DEF Spec

\* No request is credited twice, none before it is approved, although a rejection
\* acts on a status it read earlier (approve-charge-request.use-case.ts).
THEOREM NeverCreditedTwice == Spec => []CreditedOnce
<1>1. DeskInv => CreditedOnce
  BY DEF DeskInv, ChargeInv, CreditedOnce
<1> QED BY <1>1, DesksInit, DesksNext, PTL DEF Spec

-----------------------------------------------------------------------------
(* What the requests cost.                                                 *)

\* What a request costs a member: nothing, when it is another's, or was rejected.
Cost(u) ==
  [r \in Ids |-> IF /\ request[r].status \in {"PENDING", "APPROVED", "RECEIVED"}
                    /\ request[r].user = u
                 THEN request[r].paid ELSE 0]

CostInv == LedgerInv /\ \A u \in Members : spent[u] = SumFunctionOnSet(Cost(u), Ids)

\* The costs are numbers.
LEMMA CostType ==
  ASSUME Market!TypeOK, NEW u
  PROVE  Cost(u) = [r \in Ids |-> Cost(u)[r]] /\ IntOn(Cost(u), Ids) /\ IsFiniteSet(Ids)
<1>1. ASSUME NEW r \in Ids PROVE Cost(u)[r] \in Int
  <2>1. CASE request[r].status \in {"PENDING", "APPROVED", "RECEIVED"}
    BY <2>1, StatusMade, MadeBefore DEF Cost
  <2>2. CASE request[r].status \notin {"PENDING", "APPROVED", "RECEIVED"}
    BY <2>2 DEF Cost
  <2> QED BY <2>1, <2>2
<1> QED BY <1>1, MarketConstants DEF IntOn, Cost

\* The sum over the member's requests is the sum over all of them.
LEMMA CostMeaning == CostInv => SpentOnRequests
<1> SUFFICES ASSUME CostInv, NEW u \in Members
             PROVE  LET kept == {r \in Ids :
                                   /\ request[r].status \in {"PENDING", "APPROVED", "RECEIVED"}
                                   /\ request[r].user = u} IN
                    spent[u] = SumFunction([r \in kept |-> request[r].paid])
  BY DEF SpentOnRequests, Market!SpentOnRequests, Market!SumFunction, Market!SumFunctionOnSet,
     Market!FoldFunctionOnSet, Market!MapThenFoldSet, SumFunction, SumFunctionOnSet,
     FoldFunctionOnSet, MapThenFoldSet
<1> DEFINE kept == {r \in Ids : /\ request[r].status \in {"PENDING", "APPROVED", "RECEIVED"}
                                /\ request[r].user = u}
           f == Cost(u)
           g == [r \in kept |-> request[r].paid]
<1>1. \A r \in Ids \ kept : f[r] = 0
  BY DEF Cost
<1>2. \A r \in kept : f[r] = g[r]
  BY DEF Cost
<1>3. kept \in SUBSET Ids /\ SumFunction(g) = SumFunctionOnSet(g, kept)
  BY DEF SumFunction
<1>4. IntOn(f, Ids) /\ IsFiniteSet(Ids) /\ spent[u] = SumFunctionOnSet(f, Ids)
  BY CostType DEF CostInv, LedgerInv
<1> HIDE DEF kept, f, g
<1>5. SumFunctionOnSet(f, Ids) = SumFunctionOnSet(f, kept)
  BY <1>1, <1>3, <1>4, SumOfPart
<1>6. SumFunctionOnSet(f, kept) = SumFunctionOnSet(g, kept)
  BY <1>2, <1>3, <1>4, FS_Subset, SumSame
<1> QED BY <1>3, <1>4, <1>5, <1>6 DEF kept, g

\* What a change of one request must show.
LEMMA CostChanged ==
  ASSUME CostInv, LedgerInv', NEW r \in Ids, NEW u \in Members, NEW x \in Int,
         \A q \in Ids \ {r} : request'[q] = request[q],
         \A v \in Members : /\ spent'[v] = IF v = u THEN spent[v] + x ELSE spent[v]
                            /\ Cost(v)'[r] = IF v = u THEN Cost(v)[r] + x ELSE Cost(v)[r]
  PROVE  CostInv'
<1> SUFFICES ASSUME NEW v \in Members PROVE spent'[v] = SumFunctionOnSet(Cost(v)', Ids)
  BY DEF CostInv
<1> DEFINE f == Cost(v)
           g == Cost(v)'
<1>1. IntOn(f, Ids) /\ IsFiniteSet(Ids) /\ spent[v] = SumFunctionOnSet(f, Ids)
  BY CostType DEF CostInv, LedgerInv
<1>2. \A q \in Ids \ {r} : g[q] = f[q]
  BY DEF Cost
<1>3. g[r] = (IF v = u THEN f[r] + x ELSE f[r])
  /\ spent'[v] = IF v = u THEN spent[v] + x ELSE spent[v]
  OBVIOUS
<1> HIDE DEF f, g
<1>4. IntOn(g, Ids)
  BY <1>1, <1>2, <1>3 DEF IntOn
<1>5. SumFunctionOnSet(g, Ids) = SumFunctionOnSet(f, Ids) - f[r] + g[r]
  BY <1>1, <1>2, <1>4, SumChange
<1>6. f[r] \in Int /\ SumFunctionOnSet(f, Ids) \in Int
  BY <1>1, SumType DEF IntOn
<1>7. spent'[v] = SumFunctionOnSet(g, Ids)
  BY <1>1, <1>3, <1>5, <1>6
<1> QED BY <1>7 DEF g

\* A request costs what is taken for it.
LEMMA OrderCosts ==
  ASSUME CostInv, LedgerInv', NEW r \in Ids, NEW u \in Members, NEW i \in Items, NEW p \in Prices,
         NEW b \in BOOLEAN, Market!Order(r, u, i, p, b)
  PROVE  CostInv'
<1> DEFINE n == [status |-> "PENDING", user |-> u, item |-> i, paid |-> p, proposed |-> b]
<1>1. /\ request[r] = Market!Absent /\ request' = [request EXCEPT ![r] = n]
      /\ spent' = [spent EXCEPT ![u] = spent[u] + p]
      /\ request \in [Ids -> {Market!Absent} \cup Market!Made] /\ spent \in [Members -> Int]
  BY DEF Market!Order, CostInv, LedgerInv, Market!TypeOK
<1>2. n.status = "PENDING" /\ n.user = u /\ n.paid = p
  OBVIOUS
<1> HIDE DEF n
<1>3. request'[r] = n /\ \A q \in Ids \ {r} : request'[q] = request[q]
  BY <1>1
<1>4. \A v \in Members : Cost(v)[r] = 0 /\ Cost(v)'[r] = IF v = u THEN p ELSE 0
  BY <1>1, <1>2, <1>3 DEF Cost, Market!Absent
<1>5. p \in Int /\ \A v \in Members : spent'[v] = IF v = u THEN spent[v] + p ELSE spent[v]
  BY <1>1, MarketConstants
<1> QED BY <1>3, <1>4, <1>5, CostChanged

\* A rejection gives back what the request cost.
LEMMA RejectCosts ==
  ASSUME CostInv, UNCHANGED charges, NEW r \in Ids, Market!Reject(r)
  PROVE  CostInv'
<1>0. LedgerInv'
  BY RejectTyped DEF CostInv
<1> DEFINE u == request[r].user
           p == request[r].paid
<1>1. request[r] # Market!Absent /\ request[r].status = "PENDING"
  BY DEF Market!Reject, Market!Decidable, Market!Absent
<1>2. u \in Members /\ p \in Nat
  BY <1>1, MadeBefore DEF CostInv, LedgerInv
<1>3. /\ request' = [request EXCEPT ![r].status = "REJECTED"]
      /\ spent' = [spent EXCEPT ![u] = spent[u] - p] /\ spent \in [Members -> Int]
  BY DEF Market!Reject, Market!Refund, CostInv, LedgerInv, Market!TypeOK
<1>4. request'[r].status = "REJECTED" /\ \A q \in Ids \ {r} : request'[q] = request[q]
  BY <1>1, <1>3, StatusChanged DEF CostInv, LedgerInv
<1>5. \A v \in Members : Cost(v)[r] = (IF v = u THEN p ELSE 0) /\ Cost(v)'[r] = 0
  BY <1>1, <1>4 DEF Cost
<1> HIDE DEF u, p
<1> DEFINE x == -p
<1>6. x \in Int /\ p + x = 0
  /\ \A v \in Members : spent'[v] = IF v = u THEN spent[v] + x ELSE spent[v]
  BY <1>2, <1>3
<1> HIDE DEF x
<1>7. \A v \in Members : Cost(v)'[r] = IF v = u THEN Cost(v)[r] + x ELSE Cost(v)[r]
  BY <1>5, <1>6
<1> QED BY <1>0, <1>2, <1>4, <1>6, <1>7, CostChanged

\* An approval or a confirmation changes no cost.
LEMMA DecisionCosts ==
  ASSUME CostInv, UNCHANGED charges, NEW r \in Ids,
         Market!Approve(r) \/ \E u \in Members : Market!ConfirmReceived(r, u)
  PROVE  CostInv'
<1>1. LedgerInv' /\ Market!TypeOK
  BY DecisionTyped DEF CostInv, LedgerInv
<1>2. PICK s \in {"APPROVED", "RECEIVED"} : request' = [request EXCEPT ![r].status = s]
  BY DEF Market!Approve, Market!ConfirmReceived
<1>3. /\ request[r].status \in {"PENDING", "APPROVED"} /\ request[r] # Market!Absent
  /\ UNCHANGED spent
  BY DEF Market!Approve, Market!ConfirmReceived, Market!Absent
<1>4. request'[r] = [request[r] EXCEPT !.status = s] /\ request[r] \in Market!Made
      /\ \A q \in Ids \ {r} : request'[q] = request[q]
  BY <1>1, <1>2, <1>3, StatusChanged, MadeBefore
<1>5. /\ request'[r].status = s /\ request'[r].user = request[r].user
      /\ request'[r].paid = request[r].paid
  BY <1>4 DEF Market!Made
<1>6. \A v : Cost(v)' = Cost(v)
  <2>1. ASSUME NEW v, NEW q \in Ids PROVE Cost(v)'[q] = Cost(v)[q]
    BY <1>3, <1>4, <1>5 DEF Cost
  <2>2. \A v : Cost(v) = [q \in Ids |-> Cost(v)[q]] /\ Cost(v)' = [q \in Ids |-> Cost(v)'[q]]
    BY DEF Cost
  <2> QED BY <2>1, <2>2
<1> QED BY <1>1, <1>3, <1>6 DEF CostInv

\* Every step keeps the costs.
LEMMA CostNext == DeskInv /\ CostInv /\ [Next]_vars => CostInv'
<1> SUFFICES ASSUME DeskInv, CostInv, [Next]_vars PROVE CostInv'
  OBVIOUS
<1>0. LedgerInv'
  BY DesksNext DEF DeskInv
<1>1. CASE UNCHANGED <<spent, request>>
  BY <1>0, <1>1 DEF CostInv, Cost
<1>2. ASSUME NEW i \in Items, Market!Edit(i) PROVE UNCHANGED <<spent, request>>
  BY <1>2 DEF Market!Edit
<1>3. ASSUME NEW r \in Ids, NEW u \in Members, NEW i \in Items, Market!Submit(r, u, i)
  PROVE CostInv'
  <2>1. Market!Order(r, u, i, price[i], FALSE) /\ price[i] \in Prices
    BY <1>3 DEF Market!Submit, CostInv, LedgerInv, Market!TypeOK
  <2> QED BY <1>0, <2>1, OrderCosts
<1>4. ASSUME NEW r \in Ids, NEW u \in Members, NEW p \in Prices, Market!SubmitCustom(r, u, p)
      PROVE  CostInv'
  <2>1. Market!Order(r, u, Wish, p, TRUE) /\ Wish \in Items
    BY <1>4, MarketConstants DEF Market!SubmitCustom
  <2> QED BY <1>0, <2>1, OrderCosts
<1>5. ASSUME UNCHANGED vars \/ AtCharges PROVE UNCHANGED <<spent, request>>
  BY <1>5 DEF vars, market, AtCharges
<1>6. CASE AtMarket
  <2>1. UNCHANGED charges /\ Market!Next
    BY <1>6 DEF AtMarket
  <2> QED BY <1>1, <1>2, <1>3, <1>4, <2>1, RejectCosts, DecisionCosts DEF Market!Next
<1> QED BY <1>1, <1>5, <1>6 DEF Next

\* No request costs anything before it is made.
LEMMA CostInit == Init => CostInv
<1> SUFFICES ASSUME Init, NEW u \in Members PROVE spent[u] = SumFunctionOnSet(Cost(u), Ids)
  BY DesksInit DEF CostInv, DeskInv
<1>1. \A r \in Ids : Cost(u)[r] = 0
  BY DEF Init, Market!Init, Cost, Market!Absent
<1>2. SumFunctionOnSet(Cost(u), Ids) = 0
  BY <1>1, SumZero, MarketConstants
<1> QED BY <1>2 DEF Init, Market!Init

\* What the ledger says was spent is what the requests that were not rejected cost when they
\* were made, whatever the catalogue asks since (reject-redemption-request).
THEOREM RequestsPaidFor == Spec => []SpentOnRequests
<1> QED BY DesksInit, DesksNext, CostInit, CostNext, CostMeaning, PTL DEF Spec

-----------------------------------------------------------------------------
(* The units.                                                              *)

\* Proposals are for the wish item, and nobody has limited it.
WishInv ==
  /\ stock[Wish] = Unlimited
  /\ \A r \in Ids : request[r] # Market!Absent /\ request[r].proposed => request[r].item = Wish

StockInv == LedgerInv /\ WishInv /\ StockBalanced

\* Nobody holds a unit yet.
LEMMA StockInit == Init => StockInv
<1> SUFFICES ASSUME Init PROVE StockInv
  OBVIOUS
<1>1. LedgerInv
  BY DesksInit DEF DeskInv
<1>2. WishInv
  BY MarketConstants DEF Init, Market!Init, WishInv
<1>3. ASSUME NEW i \in Items, stock[i] # Unlimited PROVE stock[i] + Market!Held(i) = supplied[i]
  <2>1. Holders(i) = {}
    BY DEF Init, Market!Init, Holders, Market!Absent
  <2>2. Market!Held(i) = 0
    BY <2>1, HoldersFinite, FS_EmptySet
  <2>3. stock[i] \in Nat /\ supplied[i] = stock[i]
    BY <1>1, <1>3, MarketConstants DEF Init, Market!Init, LedgerInv, Market!TypeOK
  <2> QED BY <2>2, <2>3
<1> QED BY <1>1, <1>2, <1>3 DEF StockInv, StockBalanced, Market!StockBalanced

\* While one request is made or decided, the others hold what they held.
LEMMA HoldersOfOthers ==
  ASSUME NEW r \in Ids, \A q \in Ids \ {r} : request'[q] = request[q], NEW i \in Items
  PROVE  Holders(i)' \ {r} = Holders(i) \ {r}
BY DEF Holders

\* A request that begins to hold a unit adds one to those that do, a request that
\* ceases to takes one away.
LEMMA HeldCounted ==
  ASSUME NEW r \in Ids, \A q \in Ids \ {r} : request'[q] = request[q], NEW i \in Items
  PROVE  /\ Market!Held(i) \in Nat /\ Market!Held(i)' \in Nat
         /\ (r \in Holders(i) <=> r \in Holders(i)') => Market!Held(i)' = Market!Held(i)
         /\ r \notin Holders(i) /\ r \in Holders(i)' => Market!Held(i)' = Market!Held(i) + 1
         /\ r \in Holders(i) /\ r \notin Holders(i)' => Market!Held(i)' = Market!Held(i) - 1
<1>1. Holders(i)' \ {r} = Holders(i) \ {r}
  BY HoldersOfOthers
<1>2. Holders(i) \subseteq Ids /\ Holders(i)' \subseteq Ids
  BY DEF Holders
<1>3. IsFiniteSet(Holders(i)) /\ IsFiniteSet(Holders(i)')
  BY <1>2, FS_Subset, MarketConstants
<1>4. Market!Held(i) = Cardinality(Holders(i)) /\ Market!Held(i)' = Cardinality(Holders(i)')
  BY DEF Market!Held, Holders, Market!Cardinality, Cardinality
<1>5. Market!Held(i) \in Nat /\ Market!Held(i)' \in Nat
  BY <1>3, <1>4, FS_CardinalityType
<1>6. ASSUME r \in Holders(i) <=> r \in Holders(i)' PROVE Holders(i)' = Holders(i)
  BY <1>1, <1>6
<1>7. ASSUME r \notin Holders(i), r \in Holders(i)'
      PROVE  Cardinality(Holders(i)') = Cardinality(Holders(i)) + 1
  <2>1. Holders(i)' = Holders(i) \cup {r}
    BY <1>1, <1>7
  <2> QED BY <1>3, <1>7, <2>1, FS_AddElement
<1>8. ASSUME r \in Holders(i), r \notin Holders(i)'
      PROVE  Cardinality(Holders(i)') = Cardinality(Holders(i)) - 1
  <2>1. Holders(i)' = Holders(i) \ {r}
    BY <1>1, <1>8
  <2> QED BY <1>3, <1>8, <2>1, FS_RemoveElement
<1> QED BY <1>4, <1>5, <1>6, <1>7, <1>8

\* A purchase takes one unit of its item.
LEMMA SubmitBalanced ==
  ASSUME StockInv, UNCHANGED charges, NEW r \in Ids, NEW u \in Members, NEW i \in Items,
         Market!Submit(r, u, i)
  PROVE  StockInv'
<1>1. LedgerInv'
  BY SubmitTyped DEF StockInv
<1>2. /\ stock \in [Items -> Nat \cup {Unlimited}] /\ supplied \in [Items -> Int \cup {Unlimited}]
      /\ price[i] \in Prices /\ Wish \in Items
  BY MarketConstants DEF StockInv, LedgerInv, Market!TypeOK
<1>3. /\ Market!Order(r, u, i, price[i], FALSE) /\ stock[i] # 0 /\ UNCHANGED supplied
      /\ stock' = [stock EXCEPT ![i] = Market!Added(stock[i], -1)]
  BY DEF Market!Submit
<1>4. /\ request[r] = Market!Absent /\ request'[r].item = i /\ request'[r].proposed = FALSE
      /\ request'[r].status = "PENDING"
      /\ \A q \in Ids \ {r} : request'[q] = request[q]
  BY <1>2, <1>3, OrderKeeps DEF StockInv
<1>5. /\ Market!Added(stock[i], -1) = Unlimited <=> stock[i] = Unlimited
      /\ stock[i] # Unlimited => Market!Added(stock[i], -1) = stock[i] - 1
  BY <1>2, <1>3, StockAdded
<1>6. stock'[i] = Market!Added(stock[i], -1) /\ \A j \in Items \ {i} : stock'[j] = stock[j]
  BY <1>2, <1>3
<1>7. WishInv'
  BY <1>2, <1>4, <1>5, <1>6 DEF StockInv, WishInv
<1>8. ASSUME NEW j \in Items, stock'[j] # Unlimited PROVE stock'[j] + Market!Held(j)' = supplied'[j]
  <2>1. r \notin Holders(j) /\ (r \in Holders(j)' <=> j = i)
    BY <1>4 DEF Holders, Market!Absent
  <2>2. /\ Market!Held(j) \in Nat
        /\ Market!Held(j)' = IF j = i THEN Market!Held(j) + 1 ELSE Market!Held(j)
    BY <1>4, <2>1, HeldCounted
  <2>3. stock[j] # Unlimited /\ stock[j] \in Nat
    BY <1>2, <1>5, <1>6, <1>8
  <2>4. stock[j] + Market!Held(j) = supplied[j]
    BY <2>3 DEF StockInv, StockBalanced, Market!StockBalanced
  <2>5. stock'[j] = IF j = i THEN stock[j] - 1 ELSE stock[j]
    BY <1>5, <1>6, <2>3
  <2>6. supplied'[j] = supplied[j]
    BY <1>3
  <2> QED BY <2>2, <2>3, <2>4, <2>5, <2>6
<1> QED BY <1>1, <1>7, <1>8 DEF StockInv, StockBalanced, Market!StockBalanced

\* A proposal takes no unit.
LEMMA ProposalBalanced ==
  ASSUME StockInv, UNCHANGED charges, NEW r \in Ids, NEW u \in Members, NEW p \in Prices,
         Market!SubmitCustom(r, u, p)
  PROVE  StockInv'
<1>1. LedgerInv'
  BY ProposalTyped DEF StockInv
<1>2. Market!Order(r, u, Wish, p, TRUE) /\ Wish \in Items /\ UNCHANGED <<stock, supplied>>
  BY MarketConstants DEF Market!SubmitCustom
<1>3. /\ request[r] = Market!Absent /\ request'[r].item = Wish /\ request'[r].proposed = TRUE
      /\ \A q \in Ids \ {r} : request'[q] = request[q]
  BY <1>2, OrderKeeps DEF StockInv
<1>4. WishInv'
  BY <1>2, <1>3 DEF StockInv, WishInv
<1>5. ASSUME NEW j \in Items PROVE Market!Held(j)' = Market!Held(j)
  <2>1. r \notin Holders(j) /\ r \notin Holders(j)'
    BY <1>3 DEF Holders, Market!Absent
  <2> QED BY <1>3, <2>1, HeldCounted
<1> QED BY <1>1, <1>2, <1>4, <1>5 DEF StockInv, StockBalanced, Market!StockBalanced

\* A rejection puts back the unit that was taken; that of the wish item is not counted.
LEMMA RejectBalanced ==
  ASSUME StockInv, UNCHANGED charges, NEW r \in Ids, Market!Reject(r)
  PROVE  StockInv'
<1>1. LedgerInv'
  BY RejectTyped DEF StockInv
<1>2. request[r] # Market!Absent /\ request[r].item \in Items /\ Market!TypeOK
  BY RejectKeeps DEF StockInv, LedgerInv
<1>3. /\ stock \in [Items -> Nat \cup {Unlimited}] /\ supplied \in [Items -> Int \cup {Unlimited}]
      /\ Wish \in Items
  BY MarketConstants DEF StockInv, LedgerInv, Market!TypeOK
<1>4. /\ stock' = [stock EXCEPT ![request[r].item] = Market!Added(stock[request[r].item], 1)]
      /\ request[r].status = "PENDING" /\ UNCHANGED supplied
      /\ request' = [request EXCEPT ![r].status = "REJECTED"]
  BY DEF Market!Reject, Market!Decidable
<1>5. /\ request'[r].status = "REJECTED" /\ request'[r].item = request[r].item
      /\ request'[r].proposed = request[r].proposed
      /\ \A q \in Ids \ {r} : request'[q] = request[q]
  BY <1>2, <1>4, StatusChanged
<1> DEFINE i == request[r].item
<1>6. stock'[i] = Market!Added(stock[i], 1) /\ \A j \in Items \ {i} : stock'[j] = stock[j]
  BY <1>2, <1>3, <1>4
<1>7. /\ stock[i] = Unlimited => Market!Added(stock[i], 1) = Unlimited
      /\ stock[i] # Unlimited => Market!Added(stock[i], 1) = stock[i] + 1 /\ stock[i] \in Nat
  BY <1>2, <1>3 DEF Market!Added
<1>8. request[r].proposed => i = Wish
  BY <1>2 DEF StockInv, WishInv
<1>9. stock[Wish] = Unlimited
  BY DEF StockInv, WishInv
<1>10. WishInv'
  <2>1. stock'[Wish] = Unlimited
    BY <1>3, <1>6, <1>7, <1>9
  <2>2. ASSUME NEW q \in Ids, request'[q] # Market!Absent, request'[q].proposed
        PROVE  request'[q].item = Wish
    <3>1. CASE q = r
      BY <1>5, <1>8, <2>2, <3>1
    <3>2. CASE q # r
      BY <1>5, <2>2, <3>2 DEF StockInv, WishInv
    <3> QED BY <3>1, <3>2
  <2> QED BY <2>1, <2>2 DEF WishInv
<1>11. ASSUME NEW j \in Items, stock'[j] # Unlimited
  PROVE stock'[j] + Market!Held(j)' = supplied'[j]
  <2>1. r \in Holders(j) <=> j = i /\ ~ request[r].proposed
    BY <1>4 DEF Holders
  <2>2. r \notin Holders(j)'
    BY <1>5 DEF Holders
  <2>3. stock[j] # Unlimited /\ stock[j] \in Nat
    BY <1>2, <1>3, <1>6, <1>7, <1>11
  <2>4. r \in Holders(j) <=> j = i
    BY <1>8, <1>9, <2>1, <2>3
  <2>5. /\ Market!Held(j) \in Nat
        /\ Market!Held(j)' = IF j = i THEN Market!Held(j) - 1 ELSE Market!Held(j)
    BY <1>5, <2>2, <2>4, HeldCounted
  <2>6. stock[j] + Market!Held(j) = supplied[j]
    BY <2>3 DEF StockInv, StockBalanced, Market!StockBalanced
  <2>7. stock'[j] = IF j = i THEN stock[j] + 1 ELSE stock[j]
    BY <1>6, <1>7, <2>3
  <2>8. supplied'[j] = supplied[j]
    BY <1>4
  <2> HIDE DEF i
  <2> QED BY <2>3, <2>5, <2>6, <2>7, <2>8
<1> QED BY <1>1, <1>10, <1>11 DEF StockInv, StockBalanced, Market!StockBalanced

\* An approval or a confirmation leaves the unit with the request.
LEMMA DecisionBalanced ==
  ASSUME StockInv, UNCHANGED charges, NEW r \in Ids,
         Market!Approve(r) \/ \E u \in Members : Market!ConfirmReceived(r, u)
  PROVE  StockInv'
<1>1. LedgerInv' /\ Market!TypeOK
  BY DecisionTyped DEF StockInv, LedgerInv
<1>2. PICK s \in {"APPROVED", "RECEIVED"} : request' = [request EXCEPT ![r].status = s]
  BY DEF Market!Approve, Market!ConfirmReceived
<1>3. /\ request[r].status \in {"PENDING", "APPROVED"} /\ request[r] # Market!Absent
      /\ UNCHANGED <<stock, supplied>>
  BY DEF Market!Approve, Market!ConfirmReceived, Market!Absent
<1>4. /\ request'[r].status = s /\ request'[r].item = request[r].item
      /\ request'[r].proposed = request[r].proposed
      /\ \A q \in Ids \ {r} : request'[q] = request[q]
  BY <1>1, <1>2, <1>3, StatusChanged
<1>5. ASSUME NEW j \in Items PROVE Market!Held(j)' = Market!Held(j)
  <2>1. r \in Holders(j) <=> r \in Holders(j)'
    BY <1>3, <1>4 DEF Holders
  <2> QED BY <1>4, <2>1, HeldCounted
<1>6. WishInv'
  <2>1. ASSUME NEW q \in Ids, request'[q] # Market!Absent, request'[q].proposed
        PROVE  request'[q].item = Wish
    <3>1. CASE q = r
      BY <1>3, <1>4, <2>1, <3>1 DEF StockInv, WishInv
    <3>2. CASE q # r
      BY <1>4, <2>1, <3>2 DEF StockInv, WishInv
    <3> QED BY <3>1, <3>2
  <2> QED BY <1>3, <2>1 DEF StockInv, WishInv
<1> QED BY <1>1, <1>3, <1>5, <1>6 DEF StockInv, StockBalanced, Market!StockBalanced

\* An administrator who sets a stock supplies what is set and what requests hold.
LEMMA EditBalanced ==
  ASSUME WishLimited = FALSE, StockInv, UNCHANGED charges, NEW i \in Items, Market!Edit(i)
  PROVE  StockInv'
<1>1. LedgerInv'
  BY EditTyped DEF StockInv
<1>2. UNCHANGED request
  BY DEF Market!Edit
<1>3. \A j \in Items : Market!Held(j)' = Market!Held(j) /\ Market!Held(j) \in Nat
  BY <1>2, HoldersFinite DEF Market!Held
<1>4. /\ stock \in [Items -> Nat \cup {Unlimited}] /\ supplied \in [Items -> Int \cup {Unlimited}]
  BY DEF StockInv, LedgerInv, Market!TypeOK
<1>5. CASE UNCHANGED <<stock, supplied>>
  BY <1>1, <1>2, <1>3, <1>5 DEF StockInv, WishInv, StockBalanced, Market!StockBalanced
<1>6. ASSUME NEW n \in Stocks, i # Wish, stock' = [stock EXCEPT ![i] = n],
             supplied' = [supplied EXCEPT ![i] = n + Market!Held(i)]
      PROVE  StockInv'
  <2>1. /\ stock'[i] = n /\ supplied'[i] = n + Market!Held(i)
        /\ \A j \in Items \ {i} : stock'[j] = stock[j] /\ supplied'[j] = supplied[j]
    BY <1>4, <1>6
  <2>2. StockBalanced'
    BY <1>3, <2>1 DEF StockInv, StockBalanced, Market!StockBalanced
  <2>3. WishInv'
    BY <1>2, <1>6, <2>1, MarketConstants DEF StockInv, WishInv
  <2> QED BY <1>1, <2>2, <2>3 DEF StockInv
<1>7. CASE /\ stock' = [stock EXCEPT ![i] = Unlimited]
           /\ supplied' = [supplied EXCEPT ![i] = Unlimited]
  <2>1. /\ stock'[i] = Unlimited
        /\ \A j \in Items \ {i} : stock'[j] = stock[j] /\ supplied'[j] = supplied[j]
    BY <1>4, <1>7
  <2>2. StockBalanced'
    BY <1>3, <2>1 DEF StockInv, StockBalanced, Market!StockBalanced
  <2>3. WishInv'
    BY <1>2, <2>1, MarketConstants DEF StockInv, WishInv
  <2> QED BY <1>1, <2>2, <2>3 DEF StockInv
<1> QED BY <1>5, <1>6, <1>7 DEF Market!Edit

\* Every step keeps the units.
LEMMA StockNext ==
  ASSUME WishLimited = FALSE
  PROVE  DeskInv /\ StockInv /\ [Next]_vars => StockInv'
<1> SUFFICES ASSUME DeskInv, StockInv, [Next]_vars PROVE StockInv'
  OBVIOUS
<1>1. CASE UNCHANGED vars \/ AtCharges
  <2>1. LedgerInv'
    BY DesksNext DEF DeskInv
  <2>2. UNCHANGED <<request, stock, supplied>>
    BY <1>1 DEF vars, market, AtCharges
  <2>3. \A j \in Items : Market!Held(j)' = Market!Held(j)
    BY <2>2 DEF Market!Held
  <2> QED BY <2>1, <2>2, <2>3 DEF StockInv, WishInv, StockBalanced, Market!StockBalanced
<1>2. CASE AtMarket
  <2>1. UNCHANGED charges /\ Market!Next
    BY <1>2 DEF AtMarket
  <2>2. CASE \E i \in Items : Market!Edit(i)
    BY <2>1, <2>2, EditBalanced
  <2>3. ASSUME NEW r \in Ids, Market!Approve(r) \/ \E u \in Members : Market!ConfirmReceived(r, u)
        PROVE  StockInv'
    BY <2>1, <2>3, DecisionBalanced
  <2>4. ASSUME NEW r \in Ids, Market!Reject(r) PROVE StockInv'
    BY <2>1, <2>4, RejectBalanced
  <2>5. ASSUME NEW r \in Ids, NEW u \in Members, \E i \in Items : Market!Submit(r, u, i)
        PROVE  StockInv'
    BY <2>1, <2>5, SubmitBalanced
  <2>6. ASSUME NEW r \in Ids, NEW u \in Members, \E p \in Prices : Market!SubmitCustom(r, u, p)
        PROVE  StockInv'
    BY <2>1, <2>6, ProposalBalanced
  <2> QED BY <2>1, <2>2, <2>3, <2>4, <2>5, <2>6 DEF Market!Next
<1> QED BY <1>1, <1>2 DEF Next

\* No unit is sold twice and none is lost, as long as nobody limits the stock of the
\* wish item (submit-redemption-request, reject-redemption-request).
THEOREM UnitsConserved ==
  ASSUME WishLimited = FALSE
  PROVE  Spec => []StockBalanced
<1>1. StockInv => StockBalanced
  BY DEF StockInv
<1>2. DeskInv /\ StockInv /\ [Next]_vars => StockInv'
  BY StockNext
<1> QED BY <1>1, <1>2, DesksInit, DesksNext, StockInit, PTL DEF Spec
=============================================================================
