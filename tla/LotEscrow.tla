------------------------------ MODULE LotEscrow ------------------------------
(***************************************************************************)
(* What the auction promises its members, without clock, handlers, table   *)
(* or ledger: a lot holds the stake of one leader at most, a higher stake  *)
(* sends the previous one home in the same step, the lot is sold once, and *)
(* the day of leave goes to the member whose stake it holds.               *)
(***************************************************************************)
EXTENDS Integers

CONSTANTS Users, NoUser, Ids

VARIABLES purse, lot, days

vars == <<purse, lot, days>>

Absent == [phase |-> "absent", leader |-> NoUser, price |-> 0]

Lot(phase, price) == [phase |-> phase, leader |-> NoUser, price |-> price]

Init ==
  /\ purse \in [Users -> Nat]
  /\ \A a \in Ids : \/ lot[a] = Absent
                    \/ lot[a].phase = "waiting" /\ lot[a].leader = NoUser
  /\ DOMAIN lot = Ids
  /\ days = [a \in Ids |-> [u \in Users |-> 0]]

\* A lot comes on sale, or is priced anew before it opens.
Offer(a) ==
  /\ lot[a].phase \in {"absent", "waiting"}
  /\ lot' = [lot EXCEPT ![a] = Lot("waiting", lot'[a].price)]
  /\ UNCHANGED <<purse, days>>

Open(a) ==
  /\ lot[a].phase = "waiting"
  /\ lot' = [lot EXCEPT ![a] = Lot("open", lot'[a].price)]
  /\ UNCHANGED <<purse, days>>

Raise(u, a) ==
  LET leader == lot[a].leader
      stake  == lot'[a].price IN
  /\ lot[a].phase = "open" /\ leader # u
  /\ lot' = [lot EXCEPT ![a] = [phase |-> "open", leader |-> u, price |-> stake]]
  /\ stake > lot[a].price /\ stake <= purse[u]
  /\ purse' = [v \in Users |-> IF v = u THEN purse[v] - stake
                               ELSE IF v = leader THEN purse[v] + lot[a].price
                               ELSE purse[v]]
  /\ UNCHANGED days

Hammer(a) ==
  LET leader == lot[a].leader IN
  /\ lot[a].phase = "open"
  /\ lot' = [lot EXCEPT ![a].phase = IF leader = NoUser THEN "unsold" ELSE "sold"]
  /\ days' = [days EXCEPT ![a] = [v \in Users |-> IF v = leader THEN 1 ELSE @[v]]]
  /\ UNCHANGED purse

\* Lots without a bid leave the sale; one of them may come back as a new lot.
Withdraw(S) ==
  /\ S # {}
  /\ \A a \in S : lot[a].phase \in {"waiting", "unsold"}
  /\ lot' = [a \in Ids |-> IF a \in S THEN Absent ELSE lot[a]]
  /\ UNCHANGED <<purse, days>>

Relist(a, b) ==
  /\ lot[a].phase = "unsold" /\ lot[b].phase = "absent"
  /\ lot' = [lot EXCEPT ![a] = Absent, ![b] = Lot("waiting", lot'[b].price)]
  /\ UNCHANGED <<purse, days>>

Next ==
  \/ \E a \in Ids : Offer(a) \/ Open(a) \/ Hammer(a)
  \/ \E u \in Users, a \in Ids : Raise(u, a)
  \/ \E S \in SUBSET Ids : Withdraw(S)
  \/ \E a, b \in Ids : Relist(a, b)

Spec == Init /\ [][Next]_vars
=============================================================================
