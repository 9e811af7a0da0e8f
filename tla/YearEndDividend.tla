--------------------------- MODULE YearEndDividend ---------------------------
(***************************************************************************)
(* The year-end dividend: the escrow that the ledger implies is shared out *)
(* to the members of each company by the days of leave they contributed.   *)
(*                                                                         *)
(* A run reads the two halves of the escrow and the number of DIVIDEND     *)
(* entries in three separate queries (Promise.all), computes the shares,   *)
(* and pays them in one transaction.  Other runs, and the bids, may come   *)
(* between any two of these steps.                                         *)
(*                                                                         *)
(* Spec is the program as it is; AloneSpec keeps the behaviours in which a *)
(* run has the ledger to itself.  The auctions are those of AuctionHouse,  *)
(* reduced to one lot of each company on sale at a time.                   *)
(***************************************************************************)
EXTENDS Integers, FiniteSets, Functions

CONSTANTS
  Members, Companies,  \* user ids and company ids, both naturals
  CompanyOf,           \* the company of each member
  NoCompany,           \* the company of a super ADMIN
  DefaultCompany,      \* the company their entries are booked under
  NoLeader,            \* the leader of a lot nobody has bid on
  Admins, Scheduler,   \* those who may start a run
  InitialBalance,      \* each member's wallet when the model starts
  Days,                \* the days of leave a member may have contributed
  MaxPrice, MaxBids,   \* bounds: the highest bid, the number of bids
  MaxAborts            \* bound: runs that fail or crash

ASSUME DividendAssumption ==
  /\ Members \subseteq Nat /\ Companies \subseteq Nat /\ IsFiniteSet(Members)
  /\ NoLeader \notin Members
  /\ NoCompany \notin Companies /\ DefaultCompany \in Companies
  /\ CompanyOf \in [Members -> Companies \cup {NoCompany}]
  /\ InitialBalance \in [Members -> Nat] /\ Days \subseteq Nat
  /\ MaxPrice \in Nat /\ MaxBids \in Nat /\ MaxAborts \in Nat

Handlers == Admins \cup {Scheduler}
Queries  == {"bids", "returned", "dividends"}

VARIABLES
  wallet,     \* wallet.balance
  bid, back,  \* -(sum of BID entries) and sum of REFUND entries of each member
  paid,       \* sum of DIVIDEND entries of each member
  lot,        \* the lot of each company that is on sale
  days,       \* stake.days of the year
  run,        \* the run of each handler
  bids, aborts

auctions == <<bid, back, lot, bids>>
vars == <<wallet, auctions, paid, days, run, aborts>>

\* Ledger entries, wallet and stake of a member without a company carry the default one.
BookedFor(u) == IF CompanyOf[u] = NoCompany THEN DefaultCompany ELSE CompanyOf[u]
MembersOf(c) == {u \in Members : BookedFor(u) = c}

-----------------------------------------------------------------------------
(* Shares.                                                                 *)

Contributors(c) == {u \in MembersOf(c) : days[u] > 0}
TotalDays(c) == SumFunctionOnSet(days, MembersOf(c))

\* Mutant: rounded up.
CeilShare(c, escrow, u) == (escrow * days[u] + TotalDays(c) - 1) \div TotalDays(c)
FloorShare(c, escrow, u) == (escrow * days[u]) \div TotalDays(c)

Smallest(c) ==    \* Mutant: the last of the list.
  CHOOSE u \in Contributors(c) : \A v \in Contributors(c) :
    days[u] < days[v] \/ (days[u] = days[v] /\ u >= v)
\* The first by days, largest first, then by user id.
TopStake(c) ==
  CHOOSE u \in Contributors(c) : \A v \in Contributors(c) :
    days[u] > days[v] \/ (days[u] = days[v] /\ u <= v)

RemainderLost(c, escrow) == 0    \* Mutant: what the division leaves stays in escrow.
Remainder(c, escrow) ==
  escrow - SumFunction([u \in Contributors(c) |-> FloorShare(c, escrow, u)])

Shares(c, escrow) ==
  [u \in Contributors(c) |->
     FloorShare(c, escrow, u) + (IF u = TopStake(c) THEN Remainder(c, escrow) ELSE 0)]

-----------------------------------------------------------------------------
(* What a member is told to expect (GetMyDividend).                        *)

\* The escrow balance that the entries of some members imply, and that of a company.
EscrowOf(S) ==
  SumFunctionOnSet(bid, S) - SumFunctionOnSet(back, S) - SumFunctionOnSet(paid, S)
Escrow(c) == EscrowOf(MembersOf(c))

SeenByAll(u) == Members    \* Mutant: everybody's entries.
\* Whose entries and stakes a forecast counts: without a company, those of all companies.
SeenBy(u) == {v \in Members : CompanyOf[u] \in {NoCompany, BookedFor(v)}}

\* The forecast multiplies the escrow by a quotient in floating point and rounds down: a
\* part that is a whole number may come out one short; any other is too far from the
\* next whole number to.
Forecast(u) ==
  LET total   == SumFunctionOnSet(days, SeenBy(u))
      product == EscrowOf(SeenBy(u)) * days[u]
      part    == product \div total IN
  IF total = 0 THEN {0}
  ELSE {part} \cup
       (IF product % total = 0 /\ product # 0 /\ days[u] < total THEN {part - 1} ELSE {})

-----------------------------------------------------------------------------

NoRun == [todo |-> {}, seen |-> {}, escrow |-> 0, settled |-> FALSE,
          share |-> <<>>, phase |-> "idle"]

Init ==
  /\ wallet = InitialBalance
  /\ bid = [u \in Members |-> 0] /\ back = [u \in Members |-> 0]
  /\ paid = [u \in Members |-> 0]
  /\ lot = [c \in Companies |-> [leader |-> NoLeader, price |-> 0]]
  /\ days \in [Members -> Days]
  /\ run = [h \in Handlers |-> NoRun]
  /\ bids = 0 /\ aborts = 0

AffordsOnce(u, x) == wallet[u] > 0    \* Mutant: any purse that is not empty will do.
Affords(u, x) == wallet[u] >= x

\* Who has no company may bid on the lots of all of them.
PlaceBid(u, c, x) ==
  LET leader == lot[c].leader
      price  == lot[c].price IN
  /\ CompanyOf[u] \in {c, NoCompany}
  /\ bids < MaxBids /\ bids' = bids + 1
  /\ leader # u /\ x > price /\ Affords(u, x)
  /\ wallet' = [v \in Members |-> IF v = u THEN wallet[v] - x
                                  ELSE IF v = leader THEN wallet[v] + price ELSE wallet[v]]
  /\ bid' = [bid EXCEPT ![u] = @ + x]
  /\ back' = IF leader = NoLeader THEN back ELSE [back EXCEPT ![leader] = @ + price]
  /\ lot' = [lot EXCEPT ![c] = [leader |-> u, price |-> x]]
  /\ UNCHANGED <<paid, days, run, aborts>>

\* The lot is awarded; the next lot of the company comes on sale.
SettleLot(c) ==
  /\ lot[c].leader # NoLeader
  /\ lot' = [lot EXCEPT ![c] = [leader |-> NoLeader, price |-> 0]]
  /\ UNCHANGED <<wallet, bid, back, paid, days, run, bids, aborts>>

Busy(h) == run[h].phase # "idle"
Current(h) == CHOOSE c \in run[h].todo : \A d \in run[h].todo : c <= d

\* An administrator settles one company, or all; the scheduler settles all.
Start(h, S) ==
  /\ ~ Busy(h)
  /\ run' = [run EXCEPT ![h] = [NoRun EXCEPT !.todo = S, !.phase = "reading"]]
  /\ UNCHANGED <<wallet, auctions, paid, days, aborts>>

\* One of the three queries, in whatever order the database answers.
Query(h, q) ==
  LET c == Current(h) IN
  /\ run[h].phase = "reading" /\ q \in Queries \ run[h].seen
  /\ run' = [run EXCEPT
       ![h].seen = @ \cup {q},
       ![h].escrow = CASE q = "bids" -> @ + SumFunctionOnSet(bid, MembersOf(c))
                       [] q = "returned" -> @ - SumFunctionOnSet(back, MembersOf(c))
                                              - SumFunctionOnSet(paid, MembersOf(c))
                       [] q = "dividends" -> @,
       ![h].settled = IF q = "dividends" THEN \E u \in MembersOf(c) : paid[u] > 0 ELSE @]
  /\ UNCHANGED <<wallet, auctions, paid, days, aborts>>

\* The run goes on with the company after the current one.
NextCompany(h) ==
  LET rest == run[h].todo \ {Current(h)} IN
  IF rest = {} THEN NoRun ELSE [NoRun EXCEPT !.todo = rest, !.phase = "reading"]

AfterConflictStop(h) == NoRun    \* Mutant: executeAll stops.
AfterConflict(h) == NextCompany(h)

RefusesNever(h) == FALSE    \* Mutant: no idempotency check.
Refuses(h) == run[h].settled

NothingToPay(h) == Contributors(Current(h)) = {} \/ run[h].escrow <= 0

Decide(h) ==
  /\ run[h].phase = "reading" /\ run[h].seen = Queries
  /\ run' = [run EXCEPT ![h] =
       IF Refuses(h) THEN AfterConflict(h)
       ELSE IF NothingToPay(h) THEN NextCompany(h)
       ELSE [@ EXCEPT !.share = Shares(Current(h), run[h].escrow), !.phase = "paying"]]
  /\ UNCHANGED <<wallet, auctions, paid, days, aborts>>

CreditedOver(balance, share) == share    \* Mutant: the old balance is dropped.
Credited(balance, share) == balance + share

\* All shares in one transaction; a share of nothing gets no entry.
Pay(h) ==
  LET share == run[h].share IN
  /\ run[h].phase = "paying"
  /\ wallet' = [u \in Members |->
       IF u \in DOMAIN share THEN Credited(wallet[u], share[u]) ELSE wallet[u]]
  /\ paid' = [u \in Members |-> IF u \in DOMAIN share THEN paid[u] + share[u] ELSE paid[u]]
  /\ run' = [run EXCEPT ![h] = NextCompany(h)]
  /\ UNCHANGED <<auctions, days, aborts>>

\* The process dies, or the transaction fails: nothing is written.
Abort(h) ==
  /\ Busy(h)
  /\ aborts < MaxAborts /\ aborts' = aborts + 1
  /\ run' = [run EXCEPT ![h] = NoRun]
  /\ UNCHANGED <<wallet, auctions, paid, days>>

Work(h) == (\E q \in Queries : Query(h, q)) \/ Decide(h) \/ Pay(h)

Next ==
  \/ \E u \in Members, c \in Companies, x \in 1..MaxPrice : PlaceBid(u, c, x)
  \/ \E c \in Companies : SettleLot(c)
  \/ \E h \in Admins, c \in Companies : Start(h, {c})
  \/ \E h \in Handlers : Start(h, Companies) \/ Work(h) \/ Abort(h)

Spec == Init /\ [][Next]_vars

\* One run at a time, and no auction moves while it runs.
Alone ==
  /\ \A h, i \in Handlers : Busy(h)' /\ Busy(i)' => h = i
  /\ (\E h \in Handlers : Busy(h)) => UNCHANGED auctions

AloneSpec == Init /\ [][Next /\ Alone]_vars

\* A run that was started goes on; nothing makes anybody start one.
FairAloneSpec == AloneSpec /\ \A h \in Handlers : WF_vars(Work(h) /\ Alone)

-----------------------------------------------------------------------------
(* Properties.                                                             *)

Paid(c) == SumFunctionOnSet(paid, MembersOf(c))

TypeOK ==
  /\ wallet \in [Members -> Nat] /\ bid \in [Members -> Nat] /\ back \in [Members -> Nat]
  /\ paid \in [Members -> Nat] /\ days \in [Members -> Days]
  /\ lot \in [Companies -> [leader: Members \cup {NoLeader}, price: Nat]]
  /\ bids \in 0..MaxBids /\ aborts \in 0..MaxAborts
  /\ \A h \in Handlers : run[h].todo \subseteq Companies /\ run[h].seen \subseteq Queries

\* No dividend is paid beyond what is in escrow (settle-year-end-dividend.use-case.ts).
EscrowNotOverdrawn == \A c \in Companies : Escrow(c) >= 0

\* Every point a wallet gained or lost is in the ledger (welfare-point.provider.ts).
WalletsFollowLedger ==
  \A u \in Members : wallet[u] = InitialBalance[u] - bid[u] + back[u] + paid[u]

\* A payout leaves nothing in the escrow of the company it pays.
EscrowPaidOut ==
  [][\A c \in Companies : Paid(c)' # Paid(c) => Escrow(c)' = 0]_vars

\* A company's dividend is paid once, however often the settlement is asked for.
PaidOnce == [][\A c \in Companies : Paid(c) > 0 => Paid(c)' = Paid(c)]_vars

\* Who contributed more never gets less, nobody but the first of the list gets more
\* than their part, and that one less than one point more for each contributor.
SharesAreFair ==
  [][\A u, v \in Members :
       LET c == BookedFor(u)  got == paid'[u] - paid[u] IN
       /\ BookedFor(v) = c /\ days[u] > days[v] => got >= paid'[v] - paid[v]
       /\ got > 0 =>
            /\ u # TopStake(c) => got * TotalDays(c) <= Escrow(c) * days[u]
            /\ (got - Cardinality(Contributors(c))) * TotalDays(c) < Escrow(c) * days[u]]_vars

\* Whoever asks right before the payout is told what they will get, or one point less; only
\* the first of the list gets more (get-my-dividend computes in floating point what
\* settle-year-end-dividend computes in integers).  Who has no company is told a part of
\* the escrow of all companies, and is paid as said only if the others have nothing.
ForecastMatches ==
  [][\A u \in Members :
       LET c == BookedFor(u)  others == Members \ MembersOf(c) IN
       /\ Paid(c)' # Paid(c)
       /\ CompanyOf[u] = NoCompany =>
            EscrowOf(others) = 0 /\ SumFunctionOnSet(days, others) = 0
       => \A told \in Forecast(u) :
            /\ told <= paid'[u] - paid[u]
            /\ u # TopStake(c) => paid'[u] - paid[u] <= told + 1]_vars

\* A run passes over no company of its list that has escrow and contributors: once no run
\* breaks off any more, each ends up paid, by this run or an earlier one, though companies
\* before it on the list turn out to be settled already (executeAll).
EveryCompanyPaid ==
  \A c \in Companies :
    (\E h \in Handlers :
       /\ Busy(h) /\ c \in run[h].todo /\ aborts = MaxAborts
       /\ Escrow(c) > 0 /\ Contributors(c) # {})
      ~> Paid(c) > 0
=============================================================================
