---------------------------- MODULE AuctionHouse ----------------------------
(***************************************************************************)
(* The auction table, the wallets and the escrow the ledger implies, and   *)
(* every operation of the backend on an auction.                           *)
(*                                                                         *)
(* A use case that runs in one prisma.$transaction is one action.  The     *)
(* administrator's use cases that only call findById (or list) and later   *)
(* save(auction) are two: a Begin step that reads the row and computes the *)
(* new one, and a SaveRow step that upserts the whole row, with the steps  *)
(* of any other handler between them.                                      *)
(*                                                                         *)
(* Spec is the program as it is.  SerialSpec keeps the behaviours in which *)
(* no row changes between the read and the save of a handler that is to    *)
(* overwrite it: what a version column or a transaction would give.        *)
(***************************************************************************)
EXTENDS Integers, FiniteSets, Functions

CONSTANTS
  Users, NoUser,     \* members; the sentinel for highestBidder = null
  Companies,         \* tenants
  DefaultCompany,    \* the tenant a row gets when save() names none
  CompanyOf,         \* the tenant of each member; NoCompany for the super ADMIN
  NoCompany,
  NoRow,             \* the sentinel for an id with no row in the table
  MaxId,             \* bound: ids A-YYYY-001 .. A-YYYY-MaxId
  SeedLots,          \* lots that are on sale when the model starts
  PoolIds,           \* ids of a year whose leave pool was collected
  Admins, Scheduler, \* the handlers that may be in flight at once
  MaxRequests,       \* bound: administrator requests in a behaviour
  InitialBalance,    \* each member's wallet when the model starts
  StartPrices,       \* start prices an administrator can name
  FixedPrice,        \* FIXED_START_PRICE of a reopened lot
  MinIncrement,
  MaxPrice,          \* bound: the highest bid
  Times, MaxTime,    \* instants an administrator can name; bound of the clock
  SnipeWindow, SnipeExtend

Ids      == 1..MaxId
Handlers == Admins \cup {Scheduler}
Statuses == {"DRAFT", "CREATED", "OPEN", "AWARDED", "UNSOLD"}
Waiting  == {"DRAFT", "CREATED"}

Row == [status: Statuses, highest: Nat, bidder: Users \cup {NoUser}, bids: Nat,
        company: Companies, startedAt: Nat, endsAt: Nat]

\* A row that a handler has yet to write, with the row it was computed from.
Save == [id: Ids, read: Row \cup {NoRow}, row: Row]

ASSUME ConstantsAssumption ==
  /\ NoUser \notin Users /\ NoRow \notin Row /\ IsFiniteSet(Users)
  /\ DefaultCompany \in Companies /\ NoCompany \notin Companies
  /\ CompanyOf \in [Users -> Companies \cup {NoCompany}]
  /\ MaxId \in Nat /\ SeedLots \in 0..MaxId /\ MaxRequests \in Nat
  /\ InitialBalance \in [Users -> Nat]
  /\ StartPrices \subseteq Nat /\ FixedPrice \in Nat
  /\ MinIncrement \in Nat \ {0} /\ MaxPrice \in Nat
  /\ Times \subseteq Nat \ {0} /\ MaxTime \in Nat
  /\ SnipeWindow \in Nat /\ SnipeExtend \in Nat

VARIABLES
  now,        \* the clock all handlers read
  wallet,     \* wallet.balance of each member
  auction,    \* the auction table
  held,       \* held[a][u]: -(sum of u's BID and REFUND entries for auction a)
  granted,    \* granted[a][u]: how often u got the leave days of auction a as its winner
  bidEvents,  \* the number of bid_event rows of each auction
  eventGrants, \* unsold lots turned into EVENT leave of each member
  minted,     \* lots inserted by CreateAuction or on sale at the start
  discarded,  \* lots deleted by CancelAuctions and PurgeUnsold
  op,         \* what each handler has yet to write, and to settle afterwards
  requests    \* administrator requests so far

ledger == <<wallet, held, bidEvents>>
leave  == <<granted, eventGrants>>
lots   == <<minted, discarded>>
vars   == <<now, auction, ledger, leave, lots, op, requests>>

-----------------------------------------------------------------------------
(* The aggregate: one row and its transitions.                             *)

NewRow(status, price, start, end, c) ==
  [status |-> status, highest |-> price, bidder |-> NoUser, bids |-> 0,
   company |-> c, startedAt |-> start, endsAt |-> end]

\* The schedules with a start in S and an end in E.
Windows(S, E) == {w \in S \X E : w[1] < w[2]}

\* A draft has no schedule: epoch and epoch + 1, before any instant of the clock.
DraftRow(price, c) == NewRow("DRAFT", price, 0, 1, c)

\* configureBeforeOpen: the schedule w; the price p, until the first bid.
Schedules(r) == Windows(Times \cup {r.startedAt}, Times \cup {r.endsAt})
Prices(r) == StartPrices \cup {r.highest}
Configured(r, w, p) == [r EXCEPT !.startedAt = w[1], !.endsAt = w[2],
                                 !.highest = IF r.bids = 0 THEN p ELSE @]

Opened(r) == IF r.status = "OPEN" THEN r
             ELSE [r EXCEPT !.status = "OPEN",
                            !.startedAt = IF now < @ THEN now ELSE @]

\* Mutant: the window's edge is out of the window.
SnipedEndOpenWindow(end) ==
  IF /\ SnipeWindow > 0 /\ SnipeExtend > 0
     /\ end - now < SnipeWindow /\ now + SnipeExtend > end
  THEN now + SnipeExtend ELSE end

SnipedEnd(end) ==
  IF /\ SnipeWindow > 0 /\ SnipeExtend > 0
     /\ end - now <= SnipeWindow /\ now + SnipeExtend > end
  THEN now + SnipeExtend ELSE end

PreviousLeaderForgotten(r) == NoUser    \* Mutant: nobody to refund.
PreviousLeader(r) == r.bidder

BidNotCounted(r, u, x) ==    \* Mutant: bidCount stays.
  [r EXCEPT !.highest = x, !.bidder = u, !.endsAt = SnipedEnd(@)]

\* placeBid() followed by extendIfSniped().
Bid(r, u, x) == [r EXCEPT !.highest = x, !.bidder = u, !.bids = @ + 1,
                          !.endsAt = SnipedEnd(@)]

Settled(r) == [r EXCEPT !.status = IF r.bidder = NoUser THEN "UNSOLD" ELSE "AWARDED"]

-----------------------------------------------------------------------------
(* The table.                                                              *)

HasStatus(a, S) == auction[a] # NoRow /\ auction[a].status \in S

\* The sequence number nextIdForYear returns: one more than the largest in use.
IsNextId(n) == /\ n \in Ids
               /\ \A b \in Ids : auction[b] # NoRow => b < n
               /\ n > 1 => auction[n - 1] # NoRow

DeleteForgotten(S) == UNCHANGED auction    \* Mutant: the row stays.

\* bid_event references auction with ON DELETE RESTRICT.
Delete(S) == /\ \A a \in S : bidEvents[a] = 0
             /\ auction' = [a \in Ids |-> IF a \in S THEN NoRow ELSE auction[a]]

Credit(balance, u, x) ==
  IF u = NoUser THEN balance ELSE [balance EXCEPT ![u] = @ + x]

Idle == [saves |-> {}, settle |-> 0]

Init ==
  /\ now = 1
  /\ wallet = InitialBalance
  /\ \E f \in [1..SeedLots -> {DraftRow(FixedPrice, DefaultCompany)}
                 \cup {NewRow("CREATED", FixedPrice, w[1], w[2], DefaultCompany) :
                         w \in Windows(Times, Times)}] :
       auction = [a \in Ids |-> IF a <= SeedLots THEN f[a] ELSE NoRow]
  /\ held = [a \in Ids |-> [u \in Users |-> 0]]
  /\ granted = [a \in Ids |-> [u \in Users |-> 0]]
  /\ bidEvents = [a \in Ids |-> 0]
  /\ eventGrants = [u \in Users |-> 0]
  /\ minted = SeedLots /\ discarded = 0
  /\ op = [h \in Handlers |-> Idle]
  /\ requests = 0

-----------------------------------------------------------------------------
(* Transactions.                                                           *)

\* The super ADMIN, who has no company, may bid in every company's auctions.
AnyTenant(u, r) == TRUE    \* Mutant: no company check.
SameTenant(u, r) == CompanyOf[u] \in {NoCompany, r.company}

CanPayOnCredit(u, x) == TRUE    \* Mutant: no balance check.
CanPay(u, x) == wallet[u] >= x

RefundMinNext(balance, r) ==    \* Mutant: refunds what the next bid must reach.
  Credit(balance, PreviousLeader(r), r.highest + MinIncrement)
Refund(balance, r) == Credit(balance, PreviousLeader(r), r.highest)

PlaceBid(u, a, x) ==
  LET r == auction[a] IN
  /\ HasStatus(a, {"OPEN"}) /\ SameTenant(u, r)
  /\ now < r.endsAt
  /\ r.bidder # u
  /\ x >= r.highest + MinIncrement
  /\ CanPay(u, x)
  /\ wallet' = Credit(Refund(wallet, r), u, -x)
  /\ held' = [held EXCEPT ![a] = Credit(Credit(@, PreviousLeader(r), -r.highest), u, x)]
  /\ auction' = [auction EXCEPT ![a] = Bid(@, u, x)]
  /\ bidEvents' = [bidEvents EXCEPT ![a] = @ + 1]
  /\ UNCHANGED <<now, leave, lots, op, requests>>

SettleableAgain(a) ==    \* Mutant: a settled auction may be settled again.
  HasStatus(a, {"OPEN", "AWARDED"}) /\ now >= auction[a].endsAt
SettleableOnTheDot(a) ==    \* Mutant: a late tick misses the auction.
  HasStatus(a, {"OPEN"}) /\ now = auction[a].endsAt
Settleable(a) == HasStatus(a, {"OPEN"}) /\ now >= auction[a].endsAt

SettleRow(a) ==
  /\ Settleable(a)
  /\ auction' = [auction EXCEPT ![a] = Settled(@)]
  /\ granted' = [granted EXCEPT ![a] = Credit(@, auction[a].bidder, 1)]

\* The scheduler's tick and the administrator's settle request.
SettleAuction(a) ==
  /\ SettleRow(a)
  /\ UNCHANGED <<now, ledger, eventGrants, lots, op, requests>>

CancelAuctions(S) ==
  LET eligible == {a \in S \ PoolIds : HasStatus(a, Waiting)} IN
  /\ eligible # {}
  /\ Delete(eligible)
  /\ discarded' = discarded + Cardinality(eligible)
  /\ UNCHANGED <<now, ledger, leave, minted, op, requests>>

\* The unsold lots of the years up to upToYear, whose last id is k.
PurgeUnsold(k) ==
  LET unsold == {a \in 1..k : HasStatus(a, {"UNSOLD"})} IN
  /\ unsold # {}
  /\ Delete(unsold)
  /\ discarded' = discarded + Cardinality(unsold)
  /\ UNCHANGED <<now, ledger, leave, minted, op, requests>>

GrantEventFromUnsold(u, a) ==
  /\ HasStatus(a, {"UNSOLD"})
  /\ Delete({a})
  /\ eventGrants' = [eventGrants EXCEPT ![u] = @ + 1]
  /\ UNCHANGED <<now, ledger, granted, lots, op, requests>>

\* The new lot is inserted before the unsold one is deleted.
ReopenUnsold(a, s, e) ==
  /\ s < e
  /\ HasStatus(a, {"UNSOLD"})
  /\ bidEvents[a] = 0
  /\ \E n \in Ids :
       /\ IsNextId(n)
       /\ auction' = [auction EXCEPT
            ![n] = NewRow("CREATED", FixedPrice, s, e, auction[a].company),
            ![a] = NoRow]
  /\ UNCHANGED <<now, ledger, leave, lots, op, requests>>

-----------------------------------------------------------------------------
(* Handlers that read, compute and save without a transaction.             *)

Begin(h, S, a) ==
  /\ op[h] = Idle
  /\ op' = [op EXCEPT ![h] = [saves |-> S, settle |-> a]]
  /\ UNCHANGED <<now, auction, ledger, leave, lots>>

Request(h, S, a) ==
  /\ requests < MaxRequests
  /\ requests' = requests + 1
  /\ Begin(h, S, a)

SaveOf(a, row) == [id |-> a, read |-> auction[a], row |-> row]

\* quantity lots, numbered from one reading of nextIdForYear.
CreateAuction(h, quantity, row) ==
  \E n \in Ids :
    /\ IsNextId(n) /\ n + quantity - 1 <= MaxId
    /\ Request(h, {SaveOf(a, row) : a \in n..(n + quantity - 1)}, 0)

Openable == Waiting \cup {"OPEN"}

\* open() of an OPEN auction returns at once, but the row is saved all the same.
OpenAuction(h, a) ==
  LET r == auction[a] IN
  /\ HasStatus(a, Openable)
  /\ \/ Request(h, {SaveOf(a, Opened(r))}, 0)
     \/ /\ HasStatus(a, Waiting)
        /\ \E w \in Schedules(r), p \in Prices(r) :
             Request(h, {SaveOf(a, Opened(Configured(r, w, p)))}, 0)

ScheduleAuction(h, a) ==
  LET r == auction[a] IN
  /\ HasStatus(a, Waiting)
  /\ \E w \in Schedules(r), p \in Prices(r) :
       Request(h, {SaveOf(a, [Configured(r, w, p) EXCEPT !.status = "CREATED"])}, 0)

ExtendDeadline(h, a, e) ==
  /\ e > now
  /\ HasStatus(a, {"OPEN"})
  /\ Request(h, {SaveOf(a, [auction[a] EXCEPT !.endsAt = e])}, 0)

\* The table's CHECK (ends_at > started_at) refuses to close an auction in the
\* instant it was opened.
CloseImmediately(h, a) ==
  /\ HasStatus(a, {"OPEN"})
  /\ now > auction[a].startedAt
  /\ Request(h, {SaveOf(a, [auction[a] EXCEPT !.endsAt = now])}, a)

DueToOpenOnTheDot(a) ==    \* Mutant: a late tick misses the lot.
  HasStatus(a, {"CREATED"}) /\ auction[a].startedAt = now
DueToOpen(a) == HasStatus(a, {"CREATED"}) /\ auction[a].startedAt <= now

OpenDue(h) ==
  LET due == {a \in Ids : DueToOpen(a)} IN
  /\ due # {}
  /\ Begin(h, {SaveOf(a, Opened(auction[a])) : a \in due}, 0)
  /\ UNCHANGED requests

\* list() sorts by endsAt, then by age; CreateAuction saves in id order.
Precedes(s, t) == \/ s.row.endsAt < t.row.endsAt
                  \/ s.row.endsAt = t.row.endsAt /\ s.id <= t.id

\* The upsert writes every column but company_id, which only an insert sets.
SaveRow(h) ==
  \E s \in op[h].saves :
    LET old == auction[s.id]
        company == IF old # NoRow THEN old.company
                   ELSE IF s.read = NoRow THEN s.row.company ELSE DefaultCompany IN
    /\ \A t \in op[h].saves : Precedes(s, t)
    /\ auction' = [auction EXCEPT ![s.id] = [s.row EXCEPT !.company = company]]
    /\ minted' = minted + (IF s.read = NoRow THEN 1 ELSE 0)
    /\ op' = [op EXCEPT ![h].saves = @ \ {s}]
    /\ UNCHANGED <<now, ledger, leave, discarded, requests>>

\* The last step of CloseImmediately; settle() may find the auction settled.
SettleClosed(h) ==
  /\ op[h].saves = {} /\ op[h].settle # 0
  /\ op' = [op EXCEPT ![h] = Idle]
  /\ \/ SettleRow(op[h].settle)
     \/ ~ Settleable(op[h].settle) /\ UNCHANGED <<auction, granted>>
  /\ UNCHANGED <<now, ledger, eventGrants, lots, requests>>

Tick == /\ now' = IF now < MaxTime THEN now + 1 ELSE now
        /\ UNCHANGED <<auction, ledger, leave, lots, op, requests>>

-----------------------------------------------------------------------------

NewRows == {DraftRow(p, c) : p \in StartPrices, c \in Companies}
           \cup {NewRow("CREATED", p, w[1], w[2], c) :
                   p \in StartPrices, c \in Companies, w \in Windows(Times, Times)}

AdminRequest(h) ==
  \/ \E row \in NewRows, quantity \in 1..2 : CreateAuction(h, quantity, row)
  \/ \E a \in Ids : OpenAuction(h, a) \/ ScheduleAuction(h, a) \/ CloseImmediately(h, a)
  \/ \E a \in Ids, e \in Times : ExtendDeadline(h, a, e)

Next ==
  \/ Tick
  \/ \E u \in Users, a \in Ids, x \in 1..MaxPrice : PlaceBid(u, a, x)
  \/ \E a \in Ids : SettleAuction(a)
  \/ \E S \in SUBSET Ids : CancelAuctions(S)
  \/ \E k \in Ids : PurgeUnsold(k)
  \/ \E u \in Users, a \in Ids : GrantEventFromUnsold(u, a)
  \/ \E a \in Ids, s, e \in Times : ReopenUnsold(a, s, e)
  \/ \E h \in Admins : AdminRequest(h)
  \/ \E h \in Handlers : OpenDue(h) \/ SaveRow(h) \/ SettleClosed(h)

Spec == Init /\ [][Next]_vars

\* Both schedulers tick for ever, and a promise that was awaited settles.
Fairness ==
  /\ WF_vars(Tick)
  /\ \A a \in Ids : WF_vars(SettleAuction(a))
  /\ WF_vars(OpenDue(Scheduler))
  /\ \A h \in Handlers : WF_vars(SaveRow(h)) /\ WF_vars(SettleClosed(h))

FairSpec == Spec /\ Fairness

\* No row changes between the read and the save of a handler in flight.
Undisturbed == \A h \in Handlers : \A s \in op[h].saves : auction[s.id] = s.read

SerialSpec == Init /\ [][Next /\ Undisturbed']_vars

-----------------------------------------------------------------------------
(* Properties.                                                             *)

TypeOK ==
  /\ now \in Nat
  /\ wallet \in [Users -> Nat]
  /\ auction \in [Ids -> Row \cup {NoRow}]
  /\ held \in [Ids -> [Users -> Int]]
  /\ granted \in [Ids -> [Users -> Nat]]
  /\ bidEvents \in [Ids -> Nat]
  /\ eventGrants \in [Users -> Nat]
  /\ minted \in Nat /\ discarded \in Nat
  /\ op \in [Handlers -> [saves: SUBSET Save, settle: Ids \cup {0}]]
  /\ requests \in Nat

\* A row says the same thing in all its columns.
WellFormed(r) ==
  /\ r.status \in Waiting \cup {"UNSOLD"} => r.bidder = NoUser
  /\ r.status = "AWARDED" => r.bidder # NoUser
  /\ r.bidder = NoUser <=> r.bids = 0
  /\ r.startedAt < r.endsAt
  /\ r.status \notin Waiting => r.startedAt <= now

\* Every row of the table, and every row a handler is about to write, is well
\* formed, whatever the handlers overwrite: a save replaces a whole row by one
\* that the aggregate's guards produced (auction.ts).
RowsWellFormed ==
  /\ \A a \in Ids : auction[a] # NoRow => WellFormed(auction[a])
  /\ \A h \in Handlers : \A s \in op[h].saves : WellFormed(s.row)

\* No point is made or lost: what a member has, plus what the ledger says is in
\* escrow for them, is what they started with (PlaceBid writes the wallets and
\* the ledger in one transaction).
PointsConserved ==
  \A u \in Users :
    wallet[u] + SumFunction([a \in Ids |-> held[a][u]]) = InitialBalance[u]

Leads(u, a) == HasStatus(a, {"OPEN", "AWARDED"}) /\ auction[a].bidder = u

\* In each auction the ledger holds the leading bid of its leader, and nothing
\* of anybody else: an outbid member has their points back.
OnlyLeaderDebited ==
  \A a \in Ids, u \in Users :
    held[a][u] = IF Leads(u, a) THEN auction[a].highest ELSE 0

\* Settlement grants a day of leave to the winner, once, and to nobody else.
WinnerGrantedOnce ==
  \A a \in Ids, u \in Users :
    granted[a][u] = IF HasStatus(a, {"AWARDED"}) /\ auction[a].bidder = u THEN 1 ELSE 0

\* The row counts the accepted bids the bid log holds for the auction.
BidLogComplete ==
  \A a \in Ids : bidEvents[a] = IF auction[a] = NoRow THEN 0 ELSE auction[a].bids

\* A lot leaves the table only as a cancelled or purged lot or as EVENT leave of a
\* member, and enters it only through CreateAuction (prisma-leave-admin.adapter.ts,
\* prisma-auction.repository.ts): a reopened lot is still one lot.
LotsConserved ==
  minted = Cardinality({a \in Ids : auction[a] # NoRow}) + SumFunction(eventGrants) + discarded

\* A bid never leaves the others less time to answer than the anti-snipe rule
\* promises, and never brings the deadline forward.
SnipeAnswerable ==
  [][\A a \in Ids : bidEvents'[a] # bidEvents[a] =>
       /\ auction'[a].endsAt >= auction[a].endsAt
       /\ SnipeWindow > 0 /\ SnipeExtend > 0 =>
            \/ auction'[a].endsAt >= now + SnipeExtend
            \/ auction'[a].endsAt > now + SnipeWindow]_vars

\* The schedulers open every scheduled lot and settle every open one.
CreatedOpens == \A a \in Ids : HasStatus(a, {"CREATED"}) ~> ~ HasStatus(a, {"CREATED"})
OpenSettles  == \A a \in Ids : HasStatus(a, {"OPEN"}) ~> ~ HasStatus(a, {"OPEN"})

\* The tenant the ledger books a member's entries under.
LedgerCompany(u) == IF CompanyOf[u] = NoCompany THEN DefaultCompany ELSE CompanyOf[u]

\* The escrow of a company, from which its dividend is paid, is what the leaders
\* of that company's auctions have bid.
CompanyEscrowBacked ==
  \A c \in Companies :
    SumFunction([a \in Ids |-> SumFunction([u \in {v \in Users : LedgerCompany(v) = c} |->
                                              held[a][u]])])
    = SumFunction([a \in {b \in Ids : \E u \in Users : Leads(u, b) /\ auction[b].company = c} |->
                     auction[a].highest])

Phase(status) == CASE status \in Waiting   -> "waiting"
                   [] status = "OPEN"    -> "open"
                   [] status = "AWARDED" -> "sold"
                   [] status = "UNSOLD"  -> "unsold"

Lots == [a \in Ids |->
  IF auction[a] = NoRow THEN [phase |-> "absent", leader |-> NoUser, price |-> 0]
  ELSE [phase |-> Phase(auction[a].status), leader |-> auction[a].bidder,
        price |-> auction[a].highest]]

Escrow == INSTANCE LotEscrow WITH purse <- wallet, lot <- Lots, days <- granted

\* Undisturbed handlers keep the promise made to the members.
KeepsEscrowPromise == Escrow!Spec
=============================================================================
