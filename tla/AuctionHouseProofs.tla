------------------------- MODULE AuctionHouseProofs -------------------------
(***************************************************************************)
(* Theorems about AuctionHouse, for every value of its constants: its      *)
(* types; whom the ledger debits; that it implements LotEscrow as long as  *)
(* no handler overwrites a row it did not read, and that every bid can be  *)
(* answered; and that no point and no lot is lost.                         *)
(***************************************************************************)
EXTENDS AuctionHouse, Sums

-----------------------------------------------------------------------------
(* The aggregate's transitions keep a row a row.                           *)

\* A new row has the type of a row (create, createDraft of auction.ts).
LEMMA NewRowType ==
  ASSUME NEW status \in Waiting, NEW price \in Nat, NEW start \in Nat,
         NEW end \in Nat, NEW c \in Companies
  PROVE  NewRow(status, price, start, end, c) \in Row
BY DEF NewRow, Row, Waiting, Statuses

\* A draft has the type of a row (createDraft of auction.ts).
LEMMA DraftRowType ==
  ASSUME NEW price \in Nat, NEW c \in Companies
  PROVE  DraftRow(price, c) \in Row
BY NewRowType DEF DraftRow, Waiting

\* Every row CreateAuction may insert has the type of a row.
LEMMA NewRowsType == NewRows \subseteq Row
<1>1. ASSUME NEW p \in StartPrices, NEW c \in Companies
      PROVE  DraftRow(p, c) \in Row
  BY DraftRowType, ConstantsAssumption
<1>2. ASSUME NEW p \in StartPrices, NEW c \in Companies, NEW w \in Windows(Times, Times)
      PROVE  NewRow("CREATED", p, w[1], w[2], c) \in Row
  BY NewRowType, ConstantsAssumption DEF Waiting, Windows
<1> QED BY <1>1, <1>2 DEF NewRows

\* Configuring a row keeps its type (configureBeforeOpen of auction.ts).
LEMMA ConfiguredType ==
  ASSUME NEW r \in Row, NEW w \in Schedules(r), NEW p \in Prices(r)
  PROVE  Configured(r, w, p) \in Row
<1>1. w[1] \in Nat /\ w[2] \in Nat /\ p \in Nat
  BY ConstantsAssumption DEF Schedules, Windows, Prices, Row
<1> QED BY <1>1 DEF Configured, Row

\* Opening a row keeps its type (open of auction.ts).
LEMMA OpenedType ==
  ASSUME now \in Nat, NEW r \in Row PROVE Opened(r) \in Row
BY DEF Opened, Row, Statuses

\* A bid keeps a row's type (placeBid of auction.ts).
LEMMA BidType ==
  ASSUME now \in Nat, NEW r \in Row, NEW u \in Users, NEW x \in Nat
  PROVE  Bid(r, u, x) \in Row
<1>1. SnipedEnd(r.endsAt) \in Nat
  BY ConstantsAssumption DEF SnipedEnd, Row
<1>2. r.bids + 1 \in Nat
  BY DEF Row
<1> DEFINE end == SnipedEnd(r.endsAt)
           bids == r.bids + 1
<1>3. Bid(r, u, x) = [r EXCEPT !.highest = x, !.bidder = u, !.bids = bids, !.endsAt = end]
  BY DEF Bid
<1>5. end \in Nat
  BY <1>1
<1>6. bids \in Nat
  BY <1>2
<1> HIDE DEF end, bids
<1>4. [r EXCEPT !.highest = x, !.bidder = u, !.bids = bids, !.endsAt = end] \in Row
  BY <1>5, <1>6, Zenon DEF Row
<1> QED BY <1>3, <1>4

\* Settling a row keeps its type (settle of auction.ts).
LEMMA SettledType ==
  ASSUME NEW r \in Row PROVE Settled(r) \in Row
BY DEF Settled, Row, Statuses
-----------------------------------------------------------------------------
(* What every handler writes, whatever happened since it read.             *)

\* The row n that a handler is to write over r: never a settled one, with the
\* bid of r if r was open, and with no bid otherwise; a new one is not open yet.
Derived(r, n) ==
  /\ n \in Row
  /\ WellFormed(n)
  /\ n.status \in Waiting \cup {"OPEN"}
  /\ \/ /\ r # NoRow /\ r.status = "OPEN" /\ n.status = "OPEN"
        /\ n.bidder = r.bidder /\ n.highest = r.highest /\ n.bids = r.bids
     \/ /\ r = NoRow \/ r.status \in Waiting
        /\ n.bidder = NoUser /\ n.bids = 0
  /\ r = NoRow => n.status \in Waiting

PendingDerived == \A h \in Handlers : \A s \in op[h].saves : Derived(s.read, s.row)

TableInv == TypeOK /\ RowsWellFormed /\ PendingDerived

\* A new row may be written where there is none.
LEMMA NewRowDerived ==
  ASSUME NEW row \in NewRows PROVE Derived(NoRow, row) /\ row \in Row
<1>1. row \in Row
  BY NewRowsType
<1>2. /\ row.status \in Waiting /\ row.bidder = NoUser /\ row.bids = 0
      /\ row.startedAt < row.endsAt
  BY DEF NewRows, DraftRow, NewRow, Waiting, Windows
<1> QED BY <1>1, <1>2 DEF Derived, WellFormed, Waiting

\* A configured row is derived from the row that was read.
LEMMA ConfiguredDerived ==
  ASSUME NEW r \in Row, WellFormed(r), r.status \in Waiting,
         NEW w \in Schedules(r), NEW p \in Prices(r)
  PROVE  Derived(r, Configured(r, w, p))
<1> DEFINE n == Configured(r, w, p)
<1>1. n \in Row
  BY ConfiguredType
<1>2. /\ n.status = r.status /\ n.bidder = r.bidder /\ n.bids = r.bids
      /\ n.startedAt < n.endsAt
  BY DEF Configured, Schedules, Windows, Row
<1>3. r.bidder = NoUser /\ r.bids = 0 /\ r # NoRow
  BY ConstantsAssumption DEF WellFormed
<1> HIDE DEF n
<1>4. WellFormed(n)
  BY <1>2, <1>3 DEF WellFormed, Waiting
<1>5. n.bidder = NoUser /\ n.bids = 0 /\ n.status \in Waiting
  BY <1>2, <1>3
<1>6. Derived(r, n)
  BY <1>1, <1>4, <1>5 DEF Derived
<1> QED BY <1>6 DEF n

\* What is derived from a row is still so once it is opened.
LEMMA OpenedDerived ==
  ASSUME now \in Nat, NEW r, r # NoRow, NEW n, Derived(r, n)
  PROVE  Derived(r, Opened(n))
<1> DEFINE o == Opened(n)
<1>1. o \in Row
  BY OpenedType DEF Derived
<1>2. /\ o.status = "OPEN" /\ o.bidder = n.bidder /\ o.bids = n.bids
      /\ o.highest = n.highest /\ o.endsAt = n.endsAt
  BY DEF Opened, Derived, Row
<1>3. o.startedAt < o.endsAt /\ o.startedAt <= now
  <2>1. n.startedAt \in Nat /\ n.endsAt \in Nat /\ n.startedAt < n.endsAt
    BY DEF Derived, WellFormed, Row
  <2>2. o.startedAt = IF n.status = "OPEN" THEN n.startedAt
                      ELSE IF now < n.startedAt THEN now ELSE n.startedAt
    BY DEF Opened, Derived, Row
  <2>3. n.status = "OPEN" => n.startedAt <= now
    BY DEF Derived, WellFormed, Waiting
  <2> HIDE DEF o
  <2> QED BY <2>1, <2>2, <2>3, <1>2
<1>4. n.bidder = NoUser <=> n.bids = 0
  BY DEF Derived, WellFormed
<1> HIDE DEF o
<1>5. WellFormed(o)
  BY <1>2, <1>3, <1>4 DEF WellFormed, Waiting
<1>6. \/ /\ r # NoRow /\ r.status = "OPEN"
         /\ o.bidder = r.bidder /\ o.highest = r.highest /\ o.bids = r.bids
      \/ /\ r = NoRow \/ r.status \in Waiting
         /\ o.bidder = NoUser /\ o.bids = 0
  BY <1>2 DEF Derived
<1>7. Derived(r, o)
  BY <1>1, <1>2, <1>5, <1>6 DEF Derived
<1> QED BY <1>7 DEF o

-----------------------------------------------------------------------------
(* A handler reads: nothing changes but what it has yet to write.          *)

\* The handler h now has S to write, and k to settle.
Begins(h, S, k) ==
  /\ op' = [op EXCEPT ![h] = [saves |-> S, settle |-> k]]
  /\ S \subseteq Save /\ k \in Ids \cup {0}
  /\ \A s \in S : s.read = auction[s.id] /\ Derived(s.read, s.row)
  /\ requests' \in Nat
  /\ UNCHANGED <<now, auction, ledger, leave, lots>>

\* A save that a handler plans is typed, and remembers what was read.
LEMMA SaveOfDerived ==
  ASSUME TypeOK, NEW a \in Ids, NEW row, Derived(auction[a], row)
  PROVE  /\ SaveOf(a, row) \in Save
         /\ SaveOf(a, row).read = auction[a]
         /\ SaveOf(a, row).id = a
         /\ SaveOf(a, row).row = row
BY DEF TypeOK, SaveOf, Save, Derived

\* A request with derived rows leaves them to be written.
LEMMA RequestBegins ==
  ASSUME TypeOK, NEW h \in Handlers, NEW k \in Ids \cup {0}, NEW a \in Ids, NEW row,
         Derived(auction[a], row), Request(h, {SaveOf(a, row)}, k)
  PROVE  \E S : Begins(h, S, k)
<1> DEFINE S == {SaveOf(a, row)}
<1>1. S \subseteq Save /\ \A s \in S : s.read = auction[s.id] /\ Derived(s.read, s.row)
  BY SaveOfDerived
<1>2. requests' \in Nat
  BY DEF Request, TypeOK
<1>3. Begins(h, S, k)
  BY <1>1, <1>2 DEF Begins, Request, Begin
<1> QED BY <1>3

\* An open row that only gets another end is derived from what was read.
LEMMA OpenRowDerived ==
  ASSUME TableInv, NEW a \in Ids, HasStatus(a, {"OPEN"}), NEW end \in Nat,
         auction[a].startedAt < end
  PROVE  Derived(auction[a], [auction[a] EXCEPT !.endsAt = end])
<1> DEFINE r == auction[a]
           n == [r EXCEPT !.endsAt = end]
<1>1. r \in Row /\ WellFormed(r) /\ r # NoRow /\ r.status = "OPEN"
  BY DEF HasStatus, TableInv, TypeOK, RowsWellFormed
<1> HIDE DEF r
<1>2. n \in Row /\ n.status = r.status /\ n.bidder = r.bidder /\ n.bids = r.bids
      /\ n.highest = r.highest /\ n.startedAt = r.startedAt /\ n.endsAt = end
  BY <1>1 DEF Row
<1>3. r.startedAt < end
  BY DEF r
<1> HIDE DEF n
<1>4. WellFormed(n)
  BY <1>1, <1>2, <1>3 DEF WellFormed, Waiting
<1>5. Derived(r, n)
  BY <1>1, <1>2, <1>4 DEF Derived
<1> QED BY <1>5 DEF n, r

\* A row in the table that may still be opened is derived from itself.
LEMMA OwnRowDerived ==
  ASSUME TableInv, NEW a \in Ids, HasStatus(a, Waiting \cup {"OPEN"})
  PROVE  Derived(auction[a], auction[a])
<1>1. auction[a] \in Row /\ WellFormed(auction[a]) /\ auction[a] # NoRow
      /\ auction[a].status \in Waiting \cup {"OPEN"}
  BY DEF HasStatus, TableInv, TypeOK, RowsWellFormed
<1> QED BY <1>1 DEF Derived, WellFormed

\* Every handler that reads plans only typed and derived rows.
LEMMA HandlerBegins ==
  ASSUME TableInv, NEW h \in Handlers, AdminRequest(h) \/ OpenDue(h)
  PROVE  \E S, k : Begins(h, S, k)
<1> USE DEF TableInv
<1>1. ASSUME NEW row \in NewRows, NEW quantity \in 1..2, CreateAuction(h, quantity, row)
      PROVE  \E S, k : Begins(h, S, k)
  <2>1. PICK n \in Ids :
          /\ IsNextId(n) /\ n + quantity - 1 <= MaxId
          /\ Request(h, {SaveOf(a, row) : a \in n..(n + quantity - 1)}, 0)
    BY <1>1 DEF CreateAuction
  <2> DEFINE S == {SaveOf(a, row) : a \in n..(n + quantity - 1)}
  <2>2. ASSUME NEW a \in n..(n + quantity - 1)
        PROVE  a \in Ids /\ auction[a] = NoRow /\ Derived(auction[a], row)
    <3>1. a \in Ids
      BY <2>1, ConstantsAssumption DEF Ids
    <3>2. auction[a] = NoRow
      BY <2>1, <3>1 DEF IsNextId, Ids
    <3> QED BY <3>1, <3>2, NewRowDerived
  <2>3. \A s \in S : s \in Save /\ s.read = auction[s.id] /\ Derived(s.read, s.row)
    BY <2>2, SaveOfDerived
  <2>4. requests' \in Nat
    BY <2>1 DEF Request, TypeOK
  <2>5. Begins(h, S, 0)
    BY <2>1, <2>3, <2>4 DEF Begins, Request, Begin
  <2> QED BY <2>5
<1>2. ASSUME NEW a \in Ids, OpenAuction(h, a)
      PROVE  \E S, k : Begins(h, S, k)
  <2>1. HasStatus(a, Waiting \cup {"OPEN"}) /\ auction[a] \in Row /\ WellFormed(auction[a])
    BY <1>2 DEF OpenAuction, Openable, HasStatus, TypeOK, RowsWellFormed
  <2>2. CASE Request(h, {SaveOf(a, Opened(auction[a]))}, 0)
    <3>1. Derived(auction[a], Opened(auction[a]))
      BY <2>1, OwnRowDerived, OpenedDerived DEF HasStatus, TypeOK
    <3> QED BY <2>2, <3>1, RequestBegins
  <2>3. ASSUME HasStatus(a, Waiting), NEW w \in Schedules(auction[a]), NEW p \in Prices(auction[a]),
               Request(h, {SaveOf(a, Opened(Configured(auction[a], w, p)))}, 0)
        PROVE  \E S, k : Begins(h, S, k)
    <3>1. Derived(auction[a], Opened(Configured(auction[a], w, p)))
      BY <2>1, <2>3, ConfiguredDerived, OpenedDerived DEF HasStatus, TypeOK
    <3> QED BY <2>3, <3>1, RequestBegins
  <2> QED BY <1>2, <2>2, <2>3 DEF OpenAuction
<1>3. ASSUME NEW a \in Ids, ScheduleAuction(h, a)
      PROVE  \E S, k : Begins(h, S, k)
  <2> DEFINE r == auction[a]
  <2>1. PICK w \in Schedules(r), p \in Prices(r) :
          Request(h, {SaveOf(a, [Configured(r, w, p) EXCEPT !.status = "CREATED"])}, 0)
    BY <1>3 DEF ScheduleAuction
  <2> DEFINE c == Configured(r, w, p)
             n == [c EXCEPT !.status = "CREATED"]
  <2>2. Derived(r, c) /\ r.status \in Waiting /\ r # NoRow
    BY <1>3, ConfiguredDerived DEF ScheduleAuction, HasStatus, TypeOK, RowsWellFormed
  <2> HIDE DEF c, r
  <2>3. n \in Row /\ n.status = "CREATED" /\ n.bidder = c.bidder /\ n.bids = c.bids
        /\ n.startedAt = c.startedAt /\ n.endsAt = c.endsAt
    BY <2>2 DEF Derived, Row, Statuses
  <2>4. c.bidder = NoUser /\ c.bids = 0 /\ c.startedAt < c.endsAt
    BY <2>2 DEF Derived, WellFormed, Waiting
  <2> HIDE DEF n
  <2>5. WellFormed(n)
    BY <2>3, <2>4 DEF WellFormed, Waiting
  <2>6. Derived(r, n)
    BY <2>2, <2>3, <2>4, <2>5 DEF Derived, Waiting
  <2> QED BY <2>1, <2>6, RequestBegins DEF n, c, r
<1>4. ASSUME NEW a \in Ids, NEW e \in Times, ExtendDeadline(h, a, e)
      PROVE  \E S, k : Begins(h, S, k)
  <2>1. e \in Nat /\ auction[a].startedAt < e /\ HasStatus(a, {"OPEN"})
    <3>1. HasStatus(a, {"OPEN"}) /\ e \in Nat /\ e > now /\ now \in Nat
      BY <1>4, ConstantsAssumption DEF ExtendDeadline, TypeOK
    <3>2. auction[a] \in Row /\ WellFormed(auction[a]) /\ auction[a].status = "OPEN"
      BY <3>1 DEF HasStatus, TypeOK, RowsWellFormed
    <3>3. auction[a].startedAt <= now /\ auction[a].startedAt \in Nat
      BY <3>2 DEF WellFormed, Waiting, Row
    <3> QED BY <3>1, <3>3
  <2> QED BY <1>4, <2>1, OpenRowDerived, RequestBegins DEF ExtendDeadline
<1>5. ASSUME NEW a \in Ids, CloseImmediately(h, a)
      PROVE  \E S, k : Begins(h, S, k)
  <2>1. now \in Nat /\ auction[a].startedAt < now /\ HasStatus(a, {"OPEN"})
    BY <1>5 DEF CloseImmediately, HasStatus, TypeOK, Row
  <2> QED BY <1>5, <2>1, OpenRowDerived, RequestBegins DEF CloseImmediately
<1>6. ASSUME OpenDue(h)
      PROVE  \E S, k : Begins(h, S, k)
  <2> DEFINE due == {a \in Ids : DueToOpen(a)}
             S == {SaveOf(a, Opened(auction[a])) : a \in due}
  <2>1. ASSUME NEW a \in due
        PROVE  a \in Ids /\ Derived(auction[a], Opened(auction[a]))
    <3>1. a \in Ids /\ HasStatus(a, Waiting \cup {"OPEN"})
      BY DEF DueToOpen, HasStatus, Waiting
    <3>2. auction[a] # NoRow
      BY <3>1 DEF HasStatus
    <3> QED BY <3>1, <3>2, OwnRowDerived, OpenedDerived DEF TypeOK
  <2>2. \A s \in S : s \in Save /\ s.read = auction[s.id] /\ Derived(s.read, s.row)
    BY <2>1, SaveOfDerived
  <2>3. Begins(h, S, 0)
    BY <1>6, <2>2 DEF Begins, OpenDue, Begin, TypeOK
  <2> QED BY <2>3
<1> QED BY <1>1, <1>2, <1>3, <1>4, <1>5, <1>6 DEF AdminRequest
-----------------------------------------------------------------------------
(* The table stays well formed, however the handlers interleave.           *)

\* The strengthening holds at first.
LEMMA TableInit == Init => TableInv
<1> SUFFICES ASSUME Init PROVE TableInv
  OBVIOUS
<1> USE DEF Init
<1>1. ASSUME NEW r \in {DraftRow(FixedPrice, DefaultCompany)}
                      \cup {NewRow("CREATED", FixedPrice, w[1], w[2], DefaultCompany) :
                              w \in Windows(Times, Times)}
      PROVE  r \in Row /\ WellFormed(r)
  <2>1. DraftRow(FixedPrice, DefaultCompany) \in Row
    BY DraftRowType, ConstantsAssumption
  <2>2. \A w \in Windows(Times, Times) :
          NewRow("CREATED", FixedPrice, w[1], w[2], DefaultCompany) \in Row
    BY NewRowType, ConstantsAssumption DEF Windows, Waiting
  <2>3. r.status \in Waiting /\ r.bidder = NoUser /\ r.bids = 0 /\ r.startedAt < r.endsAt
    BY DEF DraftRow, NewRow, Waiting, Windows
  <2>4. r \in Row
    BY <2>1, <2>2
  <2> QED BY <2>3, <2>4 DEF WellFormed, Waiting
<1>2. auction \in [Ids -> Row \cup {NoRow}]
      /\ \A a \in Ids : auction[a] # NoRow => WellFormed(auction[a])
  <2>1. PICK f \in [1..SeedLots -> {DraftRow(FixedPrice, DefaultCompany)}
                      \cup {NewRow("CREATED", FixedPrice, w[1], w[2], DefaultCompany) :
                              w \in Windows(Times, Times)}] :
          auction = [a \in Ids |-> IF a <= SeedLots THEN f[a] ELSE NoRow]
    OBVIOUS
  <2>2. ASSUME NEW a \in Ids, a <= SeedLots
        PROVE  f[a] \in Row /\ WellFormed(f[a])
    <3>1. a \in 1..SeedLots
      BY <2>2, ConstantsAssumption DEF Ids
    <3> QED BY <1>1, <3>1
  <2> HIDE DEF Init
  <2> QED BY <2>1, <2>2
<1>3. op \in [Handlers -> [saves: SUBSET Save, settle: Ids \cup {0}]]
      /\ \A h \in Handlers : op[h].saves = {}
  BY DEF Idle
<1>4. /\ now \in Nat /\ wallet \in [Users -> Nat]
      /\ held \in [Ids -> [Users -> Int]] /\ granted \in [Ids -> [Users -> Nat]]
      /\ bidEvents \in [Ids -> Nat] /\ eventGrants \in [Users -> Nat]
      /\ minted \in Nat /\ discarded \in Nat /\ requests \in Nat
  BY ConstantsAssumption
<1> HIDE DEF Init
<1> QED BY <1>2, <1>3, <1>4 DEF TableInv, TypeOK, RowsWellFormed, PendingDerived

\* What a step that leaves the handlers and the clock alone must show.
LEMMA TableStep ==
  ASSUME TableInv, UNCHANGED <<now, op, requests>>,
         auction' \in [Ids -> Row \cup {NoRow}],
         \A a \in Ids : auction'[a] # NoRow => WellFormed(auction'[a]),
         wallet' \in [Users -> Nat], held' \in [Ids -> [Users -> Int]],
         granted' \in [Ids -> [Users -> Nat]], bidEvents' \in [Ids -> Nat],
         eventGrants' \in [Users -> Nat], minted' \in Nat, discarded' \in Nat
  PROVE  TableInv'
BY DEF TableInv, TypeOK, RowsWellFormed, PendingDerived, Derived, WellFormed

\* A row of the table is typed and well formed.
LEMMA RowTyped ==
  ASSUME TableInv, NEW a \in Ids, auction[a] # NoRow
  PROVE  auction[a] \in Row /\ WellFormed(auction[a])
BY DEF TableInv, TypeOK, RowsWellFormed

\* The bid that PlaceBid writes.
LEMMA BidWellFormed ==
  ASSUME TableInv, NEW a \in Ids, NEW u \in Users, NEW x \in Nat, PlaceBid(u, a, x)
  PROVE  /\ Bid(auction[a], u, x) \in Row
         /\ WellFormed(Bid(auction[a], u, x))
<1> DEFINE r == auction[a]
           n == Bid(r, u, x)
<1>1. r \in Row /\ WellFormed(r) /\ now < r.endsAt /\ r.status = "OPEN" /\ now \in Nat
  BY RowTyped DEF PlaceBid, HasStatus, TableInv, TypeOK
<1> HIDE DEF r
<1>2. n \in Row
  BY <1>1, BidType
<1>3. n.status = "OPEN" /\ n.bidder = u /\ n.bids = r.bids + 1 /\ n.startedAt = r.startedAt
      /\ n.endsAt = SnipedEnd(r.endsAt)
  BY <1>1 DEF Bid, Row
<1>4. r.startedAt \in Nat /\ r.bids \in Nat /\ r.endsAt \in Nat /\ r.startedAt <= now
  BY <1>1 DEF Row, WellFormed, Waiting
<1>5. SnipedEnd(r.endsAt) >= r.endsAt
  BY <1>1, <1>4, ConstantsAssumption DEF SnipedEnd
<1>6. n.startedAt < n.endsAt /\ n.startedAt <= now /\ n.bids # 0 /\ u # NoUser
  BY <1>1, <1>3, <1>4, <1>5, <1>2, ConstantsAssumption DEF Row
<1> HIDE DEF n
<1>7. WellFormed(n)
  BY <1>3, <1>6 DEF WellFormed, Waiting
<1> QED BY <1>2, <1>7 DEF n, r

\* What a bid does to a member's points: the previous leader gets the price
\* back, and the new one can pay.
LEMMA PurseType ==
  ASSUME TableInv, NEW a \in Ids, NEW u \in Users, NEW x \in Nat, PlaceBid(u, a, x)
  PROVE  /\ wallet' \in [Users -> Nat]
         /\ held' \in [Ids -> [Users -> Int]]
         /\ \A v \in Users :
              /\ wallet'[v] = IF v = u THEN wallet[v] - x
                              ELSE IF v = auction[a].bidder THEN wallet[v] + auction[a].highest
                              ELSE wallet[v]
              /\ held'[a][v] = IF v = u THEN held[a][v] + x
                               ELSE IF v = auction[a].bidder THEN held[a][v] - auction[a].highest
                               ELSE held[a][v]
         /\ \A b \in Ids \ {a} : held'[b] = held[b]
<1> DEFINE leader == auction[a].bidder
           price  == auction[a].highest
           back   == Credit(wallet, leader, price)
           released == Credit(held[a], leader, -price)
<1>1. /\ leader \in Users \cup {NoUser} /\ price \in Nat /\ leader # u
      /\ wallet[u] >= x
      /\ wallet \in [Users -> Nat] /\ held \in [Ids -> [Users -> Int]]
  BY RowTyped DEF PlaceBid, HasStatus, CanPay, TableInv, TypeOK, Row
<1>2. wallet' = Credit(back, u, -x) /\ held' = [held EXCEPT ![a] = Credit(released, u, x)]
  BY DEF PlaceBid, Refund, PreviousLeader
<1> HIDE DEF leader, price
<1>3. /\ back \in [Users -> Nat]
      /\ \A v \in Users : back[v] = IF v = leader THEN wallet[v] + price ELSE wallet[v]
  BY <1>1, ConstantsAssumption DEF Credit
<1>4. /\ released \in [Users -> Int]
      /\ \A v \in Users : released[v] = IF v = leader THEN held[a][v] - price ELSE held[a][v]
  BY <1>1, ConstantsAssumption DEF Credit
<1> HIDE DEF back, released
<1>5. u # NoUser /\ back[u] = wallet[u]
  BY <1>1, <1>3, ConstantsAssumption
<1>6. wallet' = [back EXCEPT ![u] = @ + (-x)]
      /\ held' = [held EXCEPT ![a] = [released EXCEPT ![u] = @ + x]]
  BY <1>2, <1>5 DEF Credit
<1>7. wallet' \in [Users -> Nat] /\ held' \in [Ids -> [Users -> Int]]
  BY <1>1, <1>3, <1>4, <1>5, <1>6
<1>8. \A v \in Users :
        /\ wallet'[v] = IF v = u THEN wallet[v] - x
                        ELSE IF v = leader THEN wallet[v] + price ELSE wallet[v]
        /\ held'[a][v] = IF v = u THEN held[a][v] + x
                         ELSE IF v = leader THEN held[a][v] - price ELSE held[a][v]
  BY <1>1, <1>3, <1>4, <1>5, <1>6
<1>9. \A b \in Ids \ {a} : held'[b] = held[b]
  BY <1>1, <1>6
<1> QED BY <1>7, <1>8, <1>9 DEF leader, price

\* What a settlement grants.
LEMMA SettleRowType ==
  ASSUME TableInv, NEW a \in Ids, SettleRow(a)
  PROVE  /\ auction[a] \in Row /\ WellFormed(auction[a]) /\ auction[a].status = "OPEN"
         /\ auction' = [auction EXCEPT ![a] = Settled(auction[a])]
         /\ Settled(auction[a]) \in Row /\ WellFormed(Settled(auction[a]))
         /\ granted' \in [Ids -> [Users -> Nat]]
         /\ \A v \in Users :
              granted'[a][v] = IF v = auction[a].bidder THEN granted[a][v] + 1 ELSE granted[a][v]
         /\ \A b \in Ids \ {a} : granted'[b] = granted[b]
<1> DEFINE r == auction[a]
           n == Settled(r)
<1>1. r \in Row /\ WellFormed(r) /\ r.status = "OPEN"
  BY RowTyped DEF SettleRow, Settleable, HasStatus
<1>2. auction' = [auction EXCEPT ![a] = n]
  BY DEF SettleRow
<1>3. n \in Row
  BY <1>1, SettledType
<1>4. n.status = (IF r.bidder = NoUser THEN "UNSOLD" ELSE "AWARDED") /\ n.bidder = r.bidder
      /\ n.bids = r.bids /\ n.startedAt = r.startedAt /\ n.endsAt = r.endsAt
  BY <1>1 DEF Settled, Row
<1>5. granted \in [Ids -> [Users -> Nat]] /\ r.bidder \in Users \cup {NoUser}
  BY <1>1 DEF TableInv, TypeOK, Row
<1>6. granted' = [granted EXCEPT ![a] = Credit(granted[a], r.bidder, 1)]
  BY DEF SettleRow
<1> HIDE DEF r, n
<1>7. WellFormed(n)
  BY <1>1, <1>4 DEF WellFormed, Waiting
<1> DEFINE g == Credit(granted[a], r.bidder, 1)
<1>8. /\ g \in [Users -> Nat]
      /\ \A v \in Users : g[v] = IF v = r.bidder THEN granted[a][v] + 1 ELSE granted[a][v]
  BY <1>5, ConstantsAssumption DEF Credit
<1> HIDE DEF g
<1>9. /\ granted' \in [Ids -> [Users -> Nat]] /\ granted'[a] = g
      /\ \A b \in Ids \ {a} : granted'[b] = granted[b]
  BY <1>5, <1>6, <1>8 DEF g
<1> QED BY <1>1, <1>2, <1>3, <1>7, <1>8, <1>9 DEF n, r

\* What a save leaves in the table: the handler's row, under the tenant that the
\* row already had.
LEMMA SaveRowType ==
  ASSUME TableInv, NEW h \in Handlers, SaveRow(h)
  PROVE  \E s \in op[h].saves, n \in Row :
           /\ s \in Save /\ Derived(s.read, s.row) /\ WellFormed(n)
           /\ auction' = [auction EXCEPT ![s.id] = n]
           /\ n.status = s.row.status /\ n.bidder = s.row.bidder /\ n.bids = s.row.bids
           /\ n.highest = s.row.highest
           /\ op' = [op EXCEPT ![h].saves = @ \ {s}]
           /\ auction[s.id] # NoRow => n.company = auction[s.id].company
           /\ minted' \in Nat /\ minted' = minted + (IF s.read = NoRow THEN 1 ELSE 0)
<1> DEFINE Company(s) == IF auction[s.id] # NoRow THEN auction[s.id].company
                         ELSE IF s.read = NoRow THEN s.row.company ELSE DefaultCompany
<1>1. PICK s \in op[h].saves :
        /\ auction' = [auction EXCEPT ![s.id] = [s.row EXCEPT !.company = Company(s)]]
        /\ minted' = minted + (IF s.read = NoRow THEN 1 ELSE 0)
        /\ op' = [op EXCEPT ![h].saves = @ \ {s}]
  BY DEF SaveRow
<1>2. s \in Save /\ s.id \in Ids /\ s.row \in Row /\ Derived(s.read, s.row) /\ WellFormed(s.row)
  BY DEF TableInv, TypeOK, PendingDerived, RowsWellFormed, Save
<1>3. Company(s) \in Companies
  BY <1>2, RowTyped, ConstantsAssumption DEF Row
<1> DEFINE r == s.row
           c == Company(s)
           n == [r EXCEPT !.company = c]
<1> HIDE DEF r, c, Company
<1>4. r \in Row /\ WellFormed(r) /\ c \in Companies
  BY <1>2, <1>3 DEF r, c
<1>5. n \in Row /\ n.status = r.status /\ n.bidder = r.bidder /\ n.bids = r.bids
      /\ n.highest = r.highest /\ n.startedAt = r.startedAt /\ n.endsAt = r.endsAt
  BY <1>4 DEF Row
<1>6. auction' = [auction EXCEPT ![s.id] = n]
  BY <1>1 DEF r, c
<1> HIDE DEF n
<1>7. WellFormed(n)
  BY <1>4, <1>5 DEF WellFormed
<1>8. minted' \in Nat
  BY <1>1 DEF TableInv, TypeOK
<1>9. auction[s.id] # NoRow => n.company = auction[s.id].company
  BY <1>4 DEF n, c, Company, Row
<1> QED BY <1>1, <1>2, <1>5, <1>6, <1>7, <1>8, <1>9 DEF r

\* Deleted rows leave the rest of the table as it was.
LEMMA DeleteType ==
  ASSUME TableInv, NEW S \in SUBSET Ids, Delete(S)
  PROVE  /\ auction' \in [Ids -> Row \cup {NoRow}]
         /\ \A a \in Ids : auction'[a] = IF a \in S THEN NoRow ELSE auction[a]
         /\ \A a \in S : bidEvents[a] = 0
         /\ Cardinality(S) \in Nat
<1>1. IsFiniteSet(Ids)
  BY FS_Interval, ConstantsAssumption DEF Ids
<1>2. Cardinality(S) \in Nat
  BY <1>1, FS_Subset, FS_CardinalityType
<1> QED BY <1>2 DEF Delete, TableInv, TypeOK

\* Every step keeps the strengthening, whichever handlers interleave.
LEMMA TableNext == TableInv /\ [Next]_vars => TableInv'
<1> SUFFICES ASSUME TableInv, [Next]_vars PROVE TableInv'
  OBVIOUS
<1> USE DEF ledger, leave, lots
<1>t. /\ now \in Nat /\ requests \in Nat
      /\ auction \in [Ids -> Row \cup {NoRow}]
      /\ \A a \in Ids : auction[a] # NoRow => WellFormed(auction[a])
      /\ wallet \in [Users -> Nat] /\ held \in [Ids -> [Users -> Int]]
      /\ granted \in [Ids -> [Users -> Nat]] /\ bidEvents \in [Ids -> Nat]
      /\ eventGrants \in [Users -> Nat] /\ minted \in Nat /\ discarded \in Nat
      /\ op \in [Handlers -> [saves: SUBSET Save, settle: Ids \cup {0}]]
  BY DEF TableInv, TypeOK, RowsWellFormed
<1>1. CASE Tick
  <2>1. now' \in Nat /\ now' >= now /\ UNCHANGED <<auction, ledger, leave, lots, op, requests>>
    BY <1>1, <1>t DEF Tick
  <2>2. ASSUME NEW r \in Row, WellFormed(r) PROVE WellFormed(r)'
    BY <2>1, <2>2, <1>t DEF WellFormed, Row
  <2>3. TypeOK'
    BY <2>1 DEF TableInv, TypeOK
  <2>4. RowsWellFormed'
    <3>1. ASSUME NEW a \in Ids, auction[a] # NoRow PROVE WellFormed(auction[a])'
      <4>1. auction[a] \in Row /\ WellFormed(auction[a])
        BY <3>1, RowTyped
      <4>2. ASSUME NEW q \in Row, WellFormed(q), q = auction[a] PROVE WellFormed(auction[a])'
        BY <2>1, <2>2, <4>2 DEF WellFormed
      <4> QED BY <4>1, <4>2
    <3>2. \A h \in Handlers : \A s \in op[h].saves : WellFormed(s.row)'
      BY <1>t, <2>2 DEF TableInv, RowsWellFormed, Save
    <3> QED BY <2>1, <3>1, <3>2 DEF RowsWellFormed, WellFormed
  <2>5. PendingDerived'
    <3>1. \A h \in Handlers : \A s \in op[h].saves : Derived(s.read, s.row)'
      BY <2>2 DEF TableInv, PendingDerived, Derived
    <3> QED BY <2>1, <3>1 DEF PendingDerived
  <2> QED BY <2>3, <2>4, <2>5 DEF TableInv
<1>2. ASSUME NEW u \in Users, NEW a \in Ids, NEW x \in 1..MaxPrice, PlaceBid(u, a, x)
      PROVE  TableInv'
  <2>1. x \in Nat
    BY ConstantsAssumption
  <2>2. /\ auction' = [auction EXCEPT ![a] = Bid(auction[a], u, x)]
        /\ bidEvents' = [bidEvents EXCEPT ![a] = @ + 1]
        /\ UNCHANGED <<now, leave, lots, op, requests>>
    BY <1>2 DEF PlaceBid
  <2>3. Bid(auction[a], u, x) \in Row /\ WellFormed(Bid(auction[a], u, x))
    BY <1>2, <2>1, BidWellFormed
  <2>4. /\ auction' \in [Ids -> Row \cup {NoRow}]
        /\ \A b \in Ids : auction'[b] # NoRow => WellFormed(auction'[b])
    BY <1>t, <2>2, <2>3
  <2>5. wallet' \in [Users -> Nat] /\ held' \in [Ids -> [Users -> Int]]
    BY <1>2, <2>1, PurseType
  <2> QED BY <1>t, <2>2, <2>4, <2>5, TableStep
<1>3. ASSUME NEW a \in Ids, SettleAuction(a) PROVE TableInv'
  <2>1. SettleRow(a) /\ UNCHANGED <<now, ledger, eventGrants, lots, op, requests>>
    BY <1>3 DEF SettleAuction
  <2>2. /\ auction' \in [Ids -> Row \cup {NoRow}]
        /\ \A b \in Ids : auction'[b] # NoRow => WellFormed(auction'[b])
        /\ granted' \in [Ids -> [Users -> Nat]]
    BY <1>t, <2>1, SettleRowType
  <2> QED BY <1>t, <2>1, <2>2, TableStep
<1>4. ASSUME NEW S \in SUBSET Ids, CancelAuctions(S) PROVE TableInv'
  <2> DEFINE T == {a \in S \ PoolIds : HasStatus(a, Waiting)}
  <2>1. /\ T \in SUBSET Ids /\ Delete(T) /\ discarded' = discarded + Cardinality(T)
        /\ UNCHANGED <<now, ledger, leave, minted, op, requests>>
    BY <1>4 DEF CancelAuctions
  <2> HIDE DEF T
  <2> QED BY <1>t, <2>1, DeleteType, TableStep
<1>5. ASSUME NEW k \in Ids, PurgeUnsold(k) PROVE TableInv'
  <2> DEFINE T == {a \in 1..k : HasStatus(a, {"UNSOLD"})}
  <2>1. T \in SUBSET Ids
    BY ConstantsAssumption DEF Ids
  <2>2. /\ Delete(T) /\ discarded' = discarded + Cardinality(T)
        /\ UNCHANGED <<now, ledger, leave, minted, op, requests>>
    BY <1>5 DEF PurgeUnsold
  <2> HIDE DEF T
  <2> QED BY <1>t, <2>1, <2>2, DeleteType, TableStep
<1>6. ASSUME NEW u \in Users, NEW a \in Ids, GrantEventFromUnsold(u, a) PROVE TableInv'
  <2>1. /\ {a} \in SUBSET Ids /\ Delete({a})
        /\ UNCHANGED <<now, ledger, granted, lots, op, requests>>
        /\ eventGrants' \in [Users -> Nat]
    BY <1>6, <1>t DEF GrantEventFromUnsold
  <2> QED BY <1>t, <2>1, DeleteType, TableStep
<1>7. ASSUME NEW a \in Ids, NEW s \in Times, NEW e \in Times, ReopenUnsold(a, s, e)
      PROVE  TableInv'
  <2> DEFINE row == NewRow("CREATED", FixedPrice, s, e, auction[a].company)
  <2>1. PICK n \in Ids : auction' = [auction EXCEPT ![n] = row, ![a] = NoRow]
    BY <1>7 DEF ReopenUnsold
  <2>2. s < e /\ auction[a] \in Row /\ UNCHANGED <<now, ledger, leave, lots, op, requests>>
    BY <1>7, <1>t DEF ReopenUnsold, HasStatus
  <2>3. row \in Row
    BY <2>2, NewRowType, ConstantsAssumption DEF Waiting, Row
  <2>4. WellFormed(row)
    BY <2>2 DEF NewRow, WellFormed, Waiting
  <2> HIDE DEF row
  <2>5. /\ auction' \in [Ids -> Row \cup {NoRow}]
        /\ \A b \in Ids : auction'[b] # NoRow => WellFormed(auction'[b])
    BY <1>t, <2>1, <2>3, <2>4
  <2> QED BY <1>t, <2>2, <2>5, TableStep
<1>8. ASSUME NEW h \in Handlers, AdminRequest(h) \/ OpenDue(h) PROVE TableInv'
  <2>1. PICK S, k : Begins(h, S, k)
    BY <1>8, HandlerBegins
  <2>2. /\ op' \in [Handlers -> [saves: SUBSET Save, settle: Ids \cup {0}]]
        /\ \A i \in Handlers : op'[i].saves = IF i = h THEN S ELSE op[i].saves
    BY <1>t, <2>1 DEF Begins
  <2>3. TypeOK'
    BY <2>1, <2>2 DEF Begins, TableInv, TypeOK
  <2>4. \A i \in Handlers : \A s \in op'[i].saves : Derived(s.read, s.row) /\ WellFormed(s.row)
    BY <2>1, <2>2 DEF Begins, Derived, TableInv, RowsWellFormed, PendingDerived
  <2> QED BY <1>t, <2>1, <2>3, <2>4
          DEF Begins, TableInv, RowsWellFormed, PendingDerived, Derived, WellFormed
<1>9. ASSUME NEW h \in Handlers, SaveRow(h) PROVE TableInv'
  <2>1. PICK s \in op[h].saves, n \in Row :
          /\ s \in Save /\ WellFormed(n)
          /\ auction' = [auction EXCEPT ![s.id] = n]
          /\ op' = [op EXCEPT ![h].saves = @ \ {s}]
          /\ minted' \in Nat
    BY <1>9, SaveRowType
  <2>2. UNCHANGED <<now, ledger, leave, discarded, requests>>
    BY <1>9 DEF SaveRow
  <2>3. /\ auction' \in [Ids -> Row \cup {NoRow}]
        /\ \A a \in Ids : auction'[a] # NoRow => WellFormed(auction'[a])
    BY <1>t, <2>1
  <2>4. /\ op' \in [Handlers -> [saves: SUBSET Save, settle: Ids \cup {0}]]
        /\ \A i \in Handlers : op'[i].saves \subseteq op[i].saves
    BY <1>t, <2>1
  <2>5. TypeOK'
    BY <2>1, <2>2, <2>3, <2>4, <1>t DEF TypeOK
  <2>6. \A i \in Handlers : \A r \in op'[i].saves : Derived(r.read, r.row) /\ WellFormed(r.row)
    BY <2>4 DEF TableInv, RowsWellFormed, PendingDerived
  <2> QED BY <2>2, <2>3, <2>5, <2>6
          DEF TableInv, RowsWellFormed, PendingDerived, Derived, WellFormed
<1>10. ASSUME NEW h \in Handlers, SettleClosed(h) PROVE TableInv'
  <2>1. /\ op' = [op EXCEPT ![h] = Idle]
        /\ UNCHANGED <<now, ledger, eventGrants, lots, requests>>
        /\ op[h].settle \in Ids
        /\ SettleRow(op[h].settle) \/ UNCHANGED <<auction, granted>>
    BY <1>10, <1>t DEF SettleClosed
  <2>2. /\ auction' \in [Ids -> Row \cup {NoRow}]
        /\ \A b \in Ids : auction'[b] # NoRow => WellFormed(auction'[b])
        /\ granted' \in [Ids -> [Users -> Nat]]
    <3>1. CASE SettleRow(op[h].settle)
      <4>1. PICK a \in Ids : SettleRow(a)
        BY <2>1, <3>1
      <4> QED BY <1>t, <4>1, SettleRowType
    <3>2. CASE UNCHANGED <<auction, granted>>
      BY <1>t, <3>2
    <3> QED BY <2>1, <3>1, <3>2
  <2>3. /\ op' \in [Handlers -> [saves: SUBSET Save, settle: Ids \cup {0}]]
        /\ \A i \in Handlers : op'[i].saves \subseteq op[i].saves
    BY <1>t, <2>1 DEF Idle
  <2>4. TypeOK'
    BY <1>t, <2>1, <2>2, <2>3 DEF TypeOK
  <2>5. \A i \in Handlers : \A r \in op'[i].saves : Derived(r.read, r.row) /\ WellFormed(r.row)
    BY <2>3 DEF TableInv, RowsWellFormed, PendingDerived
  <2> QED BY <2>1, <2>2, <2>4, <2>5
          DEF TableInv, RowsWellFormed, PendingDerived, Derived, WellFormed
<1>11. CASE UNCHANGED vars
  BY <1>11 DEF vars, TableInv, TypeOK, RowsWellFormed, PendingDerived, Derived, WellFormed
<1> QED BY <1>1, <1>2, <1>3, <1>4, <1>5, <1>6, <1>7, <1>8, <1>9, <1>10, <1>11
        DEF Next, Handlers

\* The strengthening is invariant: no interleaving of the handlers writes a row
\* that the aggregate did not make (auction.ts, prisma-auction.repository.ts).
THEOREM TableInvariant == Spec => []TableInv
<1> QED BY TableInit, TableNext, PTL DEF Spec

\* The wallets stay at or above zero, and every variable in its type, whatever
\* the handlers overwrite.
THEOREM TypeCorrect == Spec => []TypeOK
<1>1. TableInv => TypeOK
  BY DEF TableInv
<1> QED BY <1>1, TableInvariant, PTL

\* Every row says the same thing in all its columns (auction.ts).
THEOREM RowsStayWellFormed == Spec => []RowsWellFormed
<1>1. TableInv => RowsWellFormed
  BY DEF TableInv
<1> QED BY <1>1, TableInvariant, PTL

-----------------------------------------------------------------------------
(* Undisturbed handlers keep the ledger, the leave and the bid log in step *)
(* with the table.                                                         *)

\* What the ledger, the leave and the bid log hold for an auction whose row is r.
Backed(r, debits, days, events) ==
  /\ \A u \in Users : debits[u] = IF /\ r # NoRow /\ r.status \in {"OPEN", "AWARDED"}
                                     /\ r.bidder = u THEN r.highest ELSE 0
  /\ \A u \in Users : days[u] = IF /\ r # NoRow /\ r.status = "AWARDED"
                                   /\ r.bidder = u THEN 1 ELSE 0
  /\ events = IF r = NoRow THEN 0 ELSE r.bids

EscrowInv == \A a \in Ids : Backed(auction[a], held[a], granted[a], bidEvents[a])

\* Lot by lot, the three escrow properties are one statement.
LEMMA EscrowInvMeaning ==
  EscrowInv <=> OnlyLeaderDebited /\ WinnerGrantedOnce /\ BidLogComplete
BY DEF EscrowInv, Backed, OnlyLeaderDebited, WinnerGrantedOnce, BidLogComplete, Leads, HasStatus

\* Rows without a bid: nothing is booked for them.
Bidless(r) == r = NoRow \/ (r.bidder = NoUser /\ r.bids = 0)

\* What backs one row without a bid backs any other.
LEMMA BidlessBacked ==
  ASSUME NEW r, NEW q, Bidless(r), Bidless(q), NEW d, NEW g, NEW b, Backed(r, d, g, b)
  PROVE  Backed(q, d, g, b)
BY ConstantsAssumption DEF Bidless, Backed

\* What a step that books nothing must show.
LEMMA EscrowStep ==
  ASSUME EscrowInv, UNCHANGED <<held, granted, bidEvents>>,
         \A a \in Ids : auction'[a] = auction[a] \/ (Bidless(auction[a]) /\ Bidless(auction'[a]))
  PROVE  EscrowInv'
<1>1. ASSUME NEW a \in Ids PROVE Backed(auction'[a], held[a], granted[a], bidEvents[a])
  <2>1. Backed(auction[a], held[a], granted[a], bidEvents[a])
    BY DEF EscrowInv
  <2> QED BY <2>1, BidlessBacked
<1>2. \A a \in Ids : Backed(auction'[a], held'[a], granted'[a], bidEvents'[a])
  BY <1>1
<1> QED BY <1>2 DEF EscrowInv, Backed

\* Deleting rows without a bid leaves the rest backed.
LEMMA EscrowDelete ==
  ASSUME TableInv, EscrowInv, NEW S \in SUBSET Ids, Delete(S),
         UNCHANGED <<held, granted, bidEvents>>,
         \A a \in S : HasStatus(a, Waiting \cup {"UNSOLD"})
  PROVE  EscrowInv'
<1>1. ASSUME NEW a \in S PROVE Bidless(auction[a])
  BY RowTyped DEF HasStatus, WellFormed, Bidless
<1> QED BY <1>1, DeleteType, EscrowStep DEF Bidless

\* A bid leaves every lot backed: the refund takes the old leader out of the
\* ledger, the debit puts the new one in (place-bid.use-case.ts).
LEMMA EscrowBid ==
  ASSUME TableInv, EscrowInv, NEW u \in Users, NEW a \in Ids, NEW x \in Nat, PlaceBid(u, a, x)
  PROVE  EscrowInv'
<1> DEFINE r == auction[a]
           n == Bid(r, u, x)
<1>1. /\ auction' = [auction EXCEPT ![a] = n]
      /\ bidEvents' = [bidEvents EXCEPT ![a] = @ + 1]
      /\ UNCHANGED granted
  BY DEF PlaceBid, leave
<1>2. r \in Row /\ r # NoRow /\ r.status = "OPEN" /\ r.bidder # u
  BY RowTyped DEF PlaceBid, HasStatus
<1>3. n \in Row /\ n.status = "OPEN" /\ n.bidder = u /\ n.highest = x /\ n.bids = r.bids + 1
  BY <1>2, BidWellFormed DEF Bid, Row
<1>4. Backed(r, held[a], granted[a], bidEvents[a])
  BY DEF EscrowInv
<1>5. \A v \in Users : held'[a][v] = IF v = u THEN held[a][v] + x
                                     ELSE IF v = r.bidder THEN held[a][v] - r.highest
                                     ELSE held[a][v]
  BY PurseType
<1>6. /\ auction \in [Ids -> Row \cup {NoRow}] /\ bidEvents \in [Ids -> Nat]
      /\ r.highest \in Nat /\ n # NoRow
  BY <1>2, <1>3, ConstantsAssumption DEF TableInv, TypeOK, Row
<1> HIDE DEF r, n
<1>7. \A v \in Users : held[a][v] = IF v = r.bidder THEN r.highest ELSE 0
  BY <1>2, <1>4 DEF Backed
<1>8. \A v \in Users : held'[a][v] = IF v = u THEN x ELSE 0
  BY <1>2, <1>5, <1>6, <1>7
<1>9. \A v \in Users : granted[a][v] = 0
  BY <1>2, <1>4 DEF Backed
<1>10. bidEvents'[a] = n.bids
  BY <1>1, <1>2, <1>3, <1>4, <1>6 DEF Backed
<1>11. Backed(n, held'[a], granted'[a], bidEvents'[a])
  BY <1>1, <1>3, <1>6, <1>8, <1>9, <1>10 DEF Backed
<1>12. \A b \in Ids \ {a} : /\ auction'[b] = auction[b] /\ held'[b] = held[b]
                            /\ bidEvents'[b] = bidEvents[b]
  BY <1>1, <1>6, PurseType
<1>13. auction'[a] = n
  BY <1>1, <1>6
<1>14. ASSUME NEW b \in Ids PROVE Backed(auction'[b], held'[b], granted'[b], bidEvents'[b])
  <2>1. CASE b = a
    BY <1>11, <1>13, <2>1
  <2>2. CASE b # a
    BY <1>1, <1>12, <2>2 DEF EscrowInv
  <2> QED BY <2>1, <2>2
<1> QED BY <1>14 DEF EscrowInv, Backed

\* A settlement leaves every lot backed: the winner is granted the day, once
\* (settle-auction.use-case.ts).
LEMMA EscrowSettle ==
  ASSUME TableInv, EscrowInv, NEW a \in Ids, SettleRow(a), UNCHANGED <<held, bidEvents>>
  PROVE  EscrowInv'
<1> DEFINE r == auction[a]
           n == Settled(r)
<1>1. /\ r \in Row /\ WellFormed(r) /\ r.status = "OPEN" /\ n \in Row
      /\ auction' = [auction EXCEPT ![a] = n]
      /\ \A v \in Users : granted'[a][v] = IF v = r.bidder THEN granted[a][v] + 1
                                           ELSE granted[a][v]
      /\ \A b \in Ids \ {a} : granted'[b] = granted[b]
  BY SettleRowType
<1>2. r # NoRow /\ n # NoRow /\ auction \in [Ids -> Row \cup {NoRow}]
  BY <1>1, ConstantsAssumption DEF TableInv, TypeOK
<1>3. /\ n.status = (IF r.bidder = NoUser THEN "UNSOLD" ELSE "AWARDED")
      /\ n.bidder = r.bidder /\ n.bids = r.bids /\ n.highest = r.highest
  BY <1>1 DEF Settled, Row
<1>4. Backed(r, held[a], granted[a], bidEvents[a])
  BY DEF EscrowInv
<1> HIDE DEF r, n
<1>5. \A v \in Users : granted'[a][v] = IF v = r.bidder THEN 1 ELSE 0
  BY <1>1, <1>4 DEF Backed
<1>6. \A v \in Users : held[a][v] = IF v = n.bidder THEN n.highest ELSE 0
  BY <1>1, <1>2, <1>3, <1>4 DEF Backed
<1>7. Backed(n, held[a], granted'[a], bidEvents[a])
  BY <1>2, <1>3, <1>4, <1>5, <1>6, ConstantsAssumption DEF Backed
<1>8. auction'[a] = n /\ \A b \in Ids \ {a} : auction'[b] = auction[b]
  BY <1>1, <1>2
<1>9. ASSUME NEW b \in Ids PROVE Backed(auction'[b], held[b], granted'[b], bidEvents[b])
  <2>1. CASE b = a
    BY <1>7, <1>8, <2>1
  <2>2. CASE b # a
    BY <1>1, <1>8, <2>2 DEF EscrowInv
  <2> QED BY <2>1, <2>2
<1> QED BY <1>9 DEF EscrowInv, Backed

\* The condition on the handlers' saves is kept, by the specification.
LEMMA UndisturbedKept == Undisturbed /\ [Next /\ Undisturbed']_vars => Undisturbed'
<1> SUFFICES ASSUME Undisturbed, UNCHANGED vars PROVE Undisturbed'
  OBVIOUS
<1> QED BY DEF vars, Undisturbed

\* Every step keeps the lots backed, as long as what a save replaces is the row
\* that was read.
LEMMA EscrowNext == TableInv /\ Undisturbed /\ EscrowInv /\ [Next]_vars => EscrowInv'
<1> SUFFICES ASSUME TableInv, Undisturbed, EscrowInv, [Next]_vars PROVE EscrowInv'
  OBVIOUS
<1> USE DEF ledger, leave, lots
<1>1. CASE Tick \/ UNCHANGED vars
  BY <1>1, EscrowStep DEF Tick, vars
<1>2. ASSUME NEW u \in Users, NEW a \in Ids, NEW x \in 1..MaxPrice, PlaceBid(u, a, x)
      PROVE  EscrowInv'
  BY <1>2, EscrowBid, ConstantsAssumption
<1>3. ASSUME NEW a \in Ids, SettleAuction(a) PROVE EscrowInv'
  BY <1>3, EscrowSettle DEF SettleAuction
<1>4. ASSUME NEW S \in SUBSET Ids, CancelAuctions(S) PROVE EscrowInv'
  <2> DEFINE T == {a \in S \ PoolIds : HasStatus(a, Waiting)}
  <2>1. T \in SUBSET Ids /\ Delete(T) /\ UNCHANGED <<held, granted, bidEvents>>
    BY <1>4 DEF CancelAuctions
  <2>2. \A a \in T : HasStatus(a, Waiting \cup {"UNSOLD"})
    BY DEF HasStatus
  <2> HIDE DEF T
  <2> QED BY <2>1, <2>2, EscrowDelete
<1>5. ASSUME NEW k \in Ids, PurgeUnsold(k) PROVE EscrowInv'
  <2> DEFINE T == {a \in 1..k : HasStatus(a, {"UNSOLD"})}
  <2>1. T \in SUBSET Ids
    BY ConstantsAssumption DEF Ids
  <2>2. Delete(T) /\ UNCHANGED <<held, granted, bidEvents>>
    BY <1>5 DEF PurgeUnsold
  <2>3. \A a \in T : HasStatus(a, Waiting \cup {"UNSOLD"})
    BY DEF HasStatus
  <2> HIDE DEF T
  <2> QED BY <2>1, <2>2, <2>3, EscrowDelete
<1>6. ASSUME NEW u \in Users, NEW a \in Ids, GrantEventFromUnsold(u, a) PROVE EscrowInv'
  <2>1. /\ {a} \in SUBSET Ids /\ Delete({a}) /\ UNCHANGED <<held, granted, bidEvents>>
        /\ HasStatus(a, Waiting \cup {"UNSOLD"})
    BY <1>6 DEF GrantEventFromUnsold, HasStatus
  <2> QED BY <2>1, EscrowDelete
<1>7. ASSUME NEW a \in Ids, NEW s \in Times, NEW e \in Times, ReopenUnsold(a, s, e)
      PROVE  EscrowInv'
  <2> DEFINE row == NewRow("CREATED", FixedPrice, s, e, auction[a].company)
  <2>1. PICK n \in Ids : /\ IsNextId(n)
                         /\ auction' = [auction EXCEPT ![n] = row, ![a] = NoRow]
    BY <1>7 DEF ReopenUnsold
  <2>2. HasStatus(a, {"UNSOLD"}) /\ UNCHANGED <<held, granted, bidEvents>>
    BY <1>7 DEF ReopenUnsold
  <2>3. Bidless(auction[a])
    BY <2>2, RowTyped DEF HasStatus, WellFormed, Bidless
  <2>4. Bidless(auction[n])
    BY <2>1 DEF IsNextId, Bidless, Ids
  <2>5. Bidless(row)
    BY DEF Bidless, NewRow
  <2> HIDE DEF row
  <2>6. auction \in [Ids -> Row \cup {NoRow}]
    BY DEF TableInv, TypeOK
  <2>7. \A b \in Ids : auction'[b] = IF b = a THEN NoRow ELSE IF b = n THEN row ELSE auction[b]
    BY <2>1, <2>6
  <2>8. \A b \in Ids : auction'[b] = auction[b] \/ (Bidless(auction[b]) /\ Bidless(auction'[b]))
    BY <2>3, <2>4, <2>5, <2>7 DEF Bidless
  <2> QED BY <2>2, <2>8, EscrowStep
<1>8. ASSUME NEW h \in Handlers, AdminRequest(h) \/ OpenDue(h) PROVE EscrowInv'
  <2>1. UNCHANGED <<auction, held, granted, bidEvents>>
    BY <1>8, HandlerBegins DEF Begins
  <2> QED BY <2>1, EscrowStep
<1>9. ASSUME NEW h \in Handlers, SaveRow(h) PROVE EscrowInv'
  <2>1. PICK s \in op[h].saves, n \in Row :
          /\ s \in Save /\ Derived(s.read, s.row) /\ WellFormed(n)
          /\ auction' = [auction EXCEPT ![s.id] = n]
          /\ n.status = s.row.status /\ n.bidder = s.row.bidder /\ n.bids = s.row.bids
          /\ n.highest = s.row.highest
    BY <1>9, SaveRowType
  <2>2. UNCHANGED <<held, granted, bidEvents>>
    BY <1>9 DEF SaveRow
  <2>3. s.read = auction[s.id] /\ s.id \in Ids
    BY <2>1 DEF Undisturbed, Save
  <2>4. auction \in [Ids -> Row \cup {NoRow}] /\ n # NoRow
    BY ConstantsAssumption DEF TableInv, TypeOK
  <2>5. Backed(auction[s.id], held[s.id], granted[s.id], bidEvents[s.id])
    BY <2>3 DEF EscrowInv
  <2> DEFINE r == auction[s.id]
  <2>6. Backed(n, held[s.id], granted[s.id], bidEvents[s.id])
    <3>1. CASE /\ r # NoRow /\ r.status = "OPEN" /\ n.status = "OPEN"
               /\ n.bidder = r.bidder /\ n.highest = r.highest /\ n.bids = r.bids
      BY <2>4, <2>5, <3>1 DEF Backed
    <3>2. CASE (r = NoRow \/ r.status \in Waiting) /\ n.bidder = NoUser /\ n.bids = 0
      <4>1. Bidless(r) /\ Bidless(n)
        BY <2>3, <3>2, RowTyped DEF Bidless, WellFormed
      <4> QED BY <2>5, <4>1, BidlessBacked
    <3> QED BY <2>1, <2>3, <3>1, <3>2 DEF Derived
  <2>7. \A b \in Ids : auction'[b] = IF b = s.id THEN n ELSE auction[b]
    BY <2>1, <2>4
  <2>8. \A b \in Ids : Backed(auction'[b], held'[b], granted'[b], bidEvents'[b])
    BY <2>2, <2>6, <2>7 DEF EscrowInv
  <2> QED BY <2>8 DEF EscrowInv, Backed
<1>10. ASSUME NEW h \in Handlers, SettleClosed(h) PROVE EscrowInv'
  <2>1. op[h].settle \in Ids /\ UNCHANGED <<held, bidEvents>>
    BY <1>10 DEF SettleClosed, TableInv, TypeOK
  <2>2. CASE SettleRow(op[h].settle)
    BY <2>1, <2>2, EscrowSettle
  <2>3. CASE UNCHANGED <<auction, granted>>
    BY <2>1, <2>3, EscrowStep
  <2> QED BY <1>10, <2>2, <2>3 DEF SettleClosed
<1> QED BY <1>1, <1>2, <1>3, <1>4, <1>5, <1>6, <1>7, <1>8, <1>9, <1>10 DEF Next, Handlers

\* At first nothing is booked and nobody is about to save.
LEMMA EscrowInit == Init => EscrowInv /\ Undisturbed
<1> SUFFICES ASSUME Init PROVE EscrowInv /\ Undisturbed
  OBVIOUS
<1>1. TableInv
  BY TableInit
<1>2. ASSUME NEW a \in Ids PROVE Bidless(auction[a])
  <2>1. ASSUME auction[a] # NoRow
        PROVE  \/ auction[a] = DraftRow(FixedPrice, DefaultCompany)
               \/ \E w \in Windows(Times, Times) :
                    auction[a] = NewRow("CREATED", FixedPrice, w[1], w[2], DefaultCompany)
    <3>1. PICK f \in [1..SeedLots -> {DraftRow(FixedPrice, DefaultCompany)}
                         \cup {NewRow("CREATED", FixedPrice, w[1], w[2], DefaultCompany) :
                                 w \in Windows(Times, Times)}] :
            auction = [b \in Ids |-> IF b <= SeedLots THEN f[b] ELSE NoRow]
      BY DEF Init
    <3>2. auction[a] = f[a] /\ a \in 1..SeedLots
      BY <2>1, <3>1, ConstantsAssumption DEF Ids
    <3> QED BY <3>2
  <2>2. ASSUME NEW status, NEW price, NEW start, NEW end, NEW c
        PROVE  Bidless(NewRow(status, price, start, end, c))
    BY DEF NewRow, Bidless
  <2>3. Bidless(DraftRow(FixedPrice, DefaultCompany))
    BY <2>2 DEF DraftRow
  <2>4. CASE auction[a] = NoRow
    BY <2>4 DEF Bidless
  <2>5. CASE auction[a] = DraftRow(FixedPrice, DefaultCompany)
    BY <2>3, <2>5 DEF Bidless
  <2>6. ASSUME NEW w \in Windows(Times, Times),
               auction[a] = NewRow("CREATED", FixedPrice, w[1], w[2], DefaultCompany)
        PROVE  Bidless(auction[a])
    BY <2>2, <2>6 DEF Bidless
  <2> QED BY <2>1, <2>4, <2>5, <2>6
<1>3. \A a \in Ids : /\ \A u \in Users : held[a][u] = 0 /\ granted[a][u] = 0
                     /\ bidEvents[a] = 0
  BY DEF Init
<1>4. EscrowInv
  BY <1>2, <1>3, ConstantsAssumption DEF EscrowInv, Backed, Bidless
<1>5. Undisturbed
  BY DEF Init, Undisturbed, Idle
<1> QED BY <1>4, <1>5

\* While no handler overwrites a row it did not read, every lot stays backed by
\* the ledger, the leave and the bid log.
THEOREM EscrowInvariant == SerialSpec => [](TableInv /\ Undisturbed /\ EscrowInv)
<1>1. [Next /\ Undisturbed']_vars => [Next]_vars
  OBVIOUS
<1> QED BY <1>1, TableInit, TableNext, EscrowInit, EscrowNext, UndisturbedKept, PTL
        DEF SerialSpec

\* An outbid member has their points back: while no handler overwrites a row it
\* did not read, the ledger holds the leading bids and nothing else
\* (place-bid.use-case.ts).
THEOREM LeadersDebited == SerialSpec => []OnlyLeaderDebited
<1> QED BY EscrowInvariant, EscrowInvMeaning, PTL

\* Under the same condition the winner of an auction, and nobody else, has its
\* day of leave (settle-auction.use-case.ts).
THEOREM WinnersGranted == SerialSpec => []WinnerGrantedOnce
<1> QED BY EscrowInvariant, EscrowInvMeaning, PTL

\* Under the same condition the bid log holds what the row counts
\* (prisma-unit-of-work.ts).
THEOREM BidsLogged == SerialSpec => []BidLogComplete
<1> QED BY EscrowInvariant, EscrowInvMeaning, PTL

-----------------------------------------------------------------------------
(* The refinement mapping, row by row.                                     *)

\* The lot that a row of the table stands for.
LotOf(r) == IF r = NoRow THEN Escrow!Absent
            ELSE [phase |-> Phase(r.status), leader |-> r.bidder, price |-> r.highest]

\* The lots before and after a step are those of the rows.
LEMMA LotsOfRows ==
  /\ Lots = [a \in Ids |-> LotOf(auction[a])]
  /\ Lots' = [a \in Ids |-> LotOf(auction'[a])]
BY DEF Lots, LotOf, Escrow!Absent

\* What the phases of the statuses are.
LEMMA Phases ==
  /\ \A s \in Waiting : Phase(s) = "waiting"
  /\ Phase("OPEN") = "open" /\ Phase("AWARDED") = "sold" /\ Phase("UNSOLD") = "unsold"
BY DEF Phase, Waiting

\* A step that writes one row writes one lot.
LEMMA OneLotWritten ==
  ASSUME TableInv, NEW a \in Ids, NEW n, auction' = [auction EXCEPT ![a] = n]
  PROVE  /\ Lots' = [Lots EXCEPT ![a] = LotOf(n)]
         /\ Lots'[a] = LotOf(n) /\ Lots[a] = LotOf(auction[a])
<1>1. \A b \in Ids : auction'[b] = IF b = a THEN n ELSE auction[b]
  BY DEF TableInv, TypeOK
<1> HIDE DEF LotOf
<1>2. Lots' = [b \in Ids |-> IF b = a THEN LotOf(n) ELSE LotOf(auction[b])]
  BY <1>1, LotsOfRows
<1> QED BY <1>2, LotsOfRows

\* A step that changes neither a row nor a purse nor the leave of a winner stutters.
LEMMA NothingPromised ==
  ASSUME UNCHANGED <<auction, wallet, granted>>
  PROVE  UNCHANGED Escrow!vars
BY LotsOfRows DEF Escrow!vars

-----------------------------------------------------------------------------
(* Each step of the auction house is one of LotEscrow, or a stutter.       *)

\* A bid raises the stake of its lot (place-bid.use-case.ts).
LEMMA BidRaises ==
  ASSUME TableInv, NEW u \in Users, NEW a \in Ids, NEW x \in Nat, PlaceBid(u, a, x)
  PROVE  Escrow!Raise(u, a)
<1> DEFINE r == auction[a]
           n == Bid(r, u, x)
<1>1. /\ r \in Row /\ r # NoRow /\ r.status = "OPEN" /\ r.bidder # u
      /\ x >= r.highest + MinIncrement /\ wallet[u] >= x
      /\ auction' = [auction EXCEPT ![a] = n] /\ granted' = granted
  BY RowTyped DEF PlaceBid, HasStatus, CanPay, leave
<1>2. n \in Row /\ n.status = "OPEN" /\ n.bidder = u /\ n.highest = x
  BY <1>1, BidWellFormed DEF Bid, Row
<1>3. /\ wallet' \in [Users -> Nat]
      /\ \A v \in Users : wallet'[v] = IF v = u THEN wallet[v] - x
                                       ELSE IF v = r.bidder THEN wallet[v] + r.highest
                                       ELSE wallet[v]
  BY PurseType
<1> HIDE DEF n, r
<1>n. n # NoRow
  BY <1>2, ConstantsAssumption
<1>4. /\ Lots' = [Lots EXCEPT ![a] = LotOf(n)]
      /\ Lots'[a] = LotOf(n) /\ Lots[a] = LotOf(r)
  BY <1>1, OneLotWritten DEF r
<1>5. LotOf(n) = [phase |-> "open", leader |-> u, price |-> x]
  BY <1>2, <1>n, Phases DEF LotOf
<1>6. LotOf(r) = [phase |-> "open", leader |-> r.bidder, price |-> r.highest]
  BY <1>1, Phases DEF LotOf
<1>7. r.highest \in Nat /\ x > r.highest
  BY <1>1, ConstantsAssumption DEF Row
<1>8. wallet' = [v \in Users |-> IF v = u THEN wallet[v] - x
                                 ELSE IF v = r.bidder THEN wallet[v] + r.highest
                                 ELSE wallet[v]]
  BY <1>3
<1> HIDE DEF LotOf
<1>9. /\ Lots[a].phase = "open" /\ Lots[a].leader = r.bidder /\ Lots[a].price = r.highest
      /\ Lots'[a].price = x
  BY <1>4, <1>5, <1>6
<1>10. Lots' = [Lots EXCEPT ![a] = [phase |-> "open", leader |-> u, price |-> Lots'[a].price]]
  BY <1>4, <1>5, <1>9
<1>11. wallet' = [v \in Users |-> IF v = u THEN wallet[v] - Lots'[a].price
                                  ELSE IF v = Lots[a].leader THEN wallet[v] + Lots[a].price
                                  ELSE wallet[v]]
  BY <1>8, <1>9
<1>12. /\ Lots[a].leader # u /\ Lots'[a].price > Lots[a].price /\ Lots'[a].price <= wallet[u]
       /\ granted' = granted
  BY <1>1, <1>7, <1>9
<1> QED BY <1>9, <1>10, <1>11, <1>12 DEF Escrow!Raise

\* A settlement brings the hammer down (settle-auction.use-case.ts).
LEMMA SettlementHammers ==
  ASSUME TableInv, EscrowInv, NEW a \in Ids, SettleRow(a), UNCHANGED wallet
  PROVE  Escrow!Hammer(a)
<1> DEFINE r == auction[a]
           n == Settled(r)
<1>1. /\ r \in Row /\ r # NoRow /\ r.status = "OPEN" /\ n \in Row /\ n # NoRow
      /\ auction' = [auction EXCEPT ![a] = n]
      /\ granted' \in [Ids -> [Users -> Nat]]
      /\ \A v \in Users : granted'[a][v] = IF v = r.bidder THEN granted[a][v] + 1
                                           ELSE granted[a][v]
      /\ \A b \in Ids \ {a} : granted'[b] = granted[b]
  BY SettleRowType, ConstantsAssumption
<1>2. /\ n.status = (IF r.bidder = NoUser THEN "UNSOLD" ELSE "AWARDED")
      /\ n.bidder = r.bidder /\ n.highest = r.highest
  BY <1>1 DEF Settled, Row
<1>3. \A v \in Users : granted[a][v] = 0
  BY <1>1 DEF EscrowInv, Backed
<1>4. granted \in [Ids -> [Users -> Nat]]
  BY DEF TableInv, TypeOK
<1> HIDE DEF n, r
<1>5. granted' = [granted EXCEPT ![a] = [v \in Users |-> IF v = r.bidder THEN 1 ELSE granted[a][v]]]
  <2> DEFINE g == [v \in Users |-> IF v = r.bidder THEN 1 ELSE granted[a][v]]
  <2>1. \A v \in Users : granted'[a][v] = g[v]
    BY <1>1, <1>3
  <2>2. granted'[a] = g
    BY <1>1, <2>1
  <2> HIDE DEF g
  <2>3. granted' = [granted EXCEPT ![a] = g]
    BY <1>1, <1>4, <2>2
  <2> QED BY <2>3 DEF g
<1>6. Lots' = [Lots EXCEPT ![a] = LotOf(n)] /\ Lots[a] = LotOf(r)
  BY <1>1, OneLotWritten DEF r
<1>7. LotOf(r) = [phase |-> "open", leader |-> r.bidder, price |-> r.highest]
  BY <1>1, Phases DEF LotOf
<1>8. LotOf(n) = [phase |-> IF r.bidder = NoUser THEN "unsold" ELSE "sold",
                  leader |-> r.bidder, price |-> r.highest]
  BY <1>1, <1>2, Phases DEF LotOf
<1>9. LotOf(n) = [LotOf(r) EXCEPT !.phase = IF r.bidder = NoUser THEN "unsold" ELSE "sold"]
  BY <1>7, <1>8
<1>10. Lots' = [Lots EXCEPT ![a].phase = IF r.bidder = NoUser THEN "unsold" ELSE "sold"]
  BY <1>6, <1>9
<1>11. Lots[a].phase = "open" /\ Lots[a].leader = r.bidder
  BY <1>6, <1>7
<1> QED BY <1>5, <1>10, <1>11 DEF Escrow!Hammer

\* Deleting lots without a bid withdraws them (cancel-auctions, purge-unsold and
\* grant-event-from-unsold.use-case.ts).
LEMMA DeletionWithdraws ==
  ASSUME TableInv, NEW S \in SUBSET Ids, S # {}, Delete(S), UNCHANGED <<wallet, granted>>,
         \A a \in S : HasStatus(a, Waiting \cup {"UNSOLD"})
  PROVE  Escrow!Withdraw(S)
<1>1. \A a \in Ids : auction'[a] = IF a \in S THEN NoRow ELSE auction[a]
  BY DeleteType
<1>2. LotOf(NoRow) = Escrow!Absent
  BY DEF LotOf
<1>3. ASSUME NEW a \in S PROVE Lots[a].phase \in {"waiting", "unsold"}
  <2>1. auction[a] # NoRow /\ auction[a].status \in Waiting \cup {"UNSOLD"}
    BY DEF HasStatus
  <2>2. Lots[a] = LotOf(auction[a])
    BY LotsOfRows
  <2> QED BY <2>1, <2>2, Phases DEF LotOf
<1> HIDE DEF LotOf
<1>4. Lots' = [a \in Ids |-> IF a \in S THEN Escrow!Absent ELSE Lots[a]]
  BY <1>1, <1>2, LotsOfRows
<1> QED BY <1>3, <1>4 DEF Escrow!Withdraw

\* Reopening lists the lot under a new number (reopen-unsold-auction.use-case.ts).
LEMMA ReopeningRelists ==
  ASSUME TableInv, NEW a \in Ids, NEW s \in Times, NEW e \in Times, ReopenUnsold(a, s, e)
  PROVE  \E b \in Ids : Escrow!Relist(a, b)
<1> DEFINE row == NewRow("CREATED", FixedPrice, s, e, auction[a].company)
<1>1. PICK b \in Ids : /\ IsNextId(b)
                       /\ auction' = [auction EXCEPT ![b] = row, ![a] = NoRow]
  BY DEF ReopenUnsold
<1>2. /\ auction[a] # NoRow /\ auction[a].status = "UNSOLD"
      /\ UNCHANGED <<wallet, granted>>
  BY DEF ReopenUnsold, HasStatus, ledger, leave
<1>3. auction[b] = NoRow /\ a # b
  BY <1>1, <1>2 DEF IsNextId, Ids
<1>4. row # NoRow
  <2>1. auction[a].company \in Companies /\ s \in Nat /\ e \in Nat /\ FixedPrice \in Nat
    BY <1>2, RowTyped, ConstantsAssumption DEF Row
  <2>2. row \in Row
    BY <2>1, NewRowType DEF Waiting
  <2> HIDE DEF row
  <2> QED BY <2>2, ConstantsAssumption
<1>5. LotOf(row) = Escrow!Lot("waiting", FixedPrice)
  <2>1. row.status = "CREATED" /\ row.bidder = NoUser /\ row.highest = FixedPrice
    BY DEF NewRow
  <2> HIDE DEF row
  <2> QED BY <1>4, <2>1, Phases DEF LotOf, Waiting, Escrow!Lot
<1> HIDE DEF row
<1>6. \A c \in Ids : auction'[c] = IF c = a THEN NoRow ELSE IF c = b THEN row ELSE auction[c]
  BY <1>1, <1>3 DEF TableInv, TypeOK
<1>7. LotOf(NoRow) = Escrow!Absent /\ Lots[b] = Escrow!Absent
  BY <1>3, LotsOfRows DEF LotOf
<1>8. Lots[a].phase = "unsold"
  BY <1>2, LotsOfRows, Phases DEF LotOf
<1> HIDE DEF LotOf
<1>9. Lots' = [Lots EXCEPT ![a] = Escrow!Absent, ![b] = Escrow!Lot("waiting", FixedPrice)]
  BY <1>3, <1>5, <1>6, <1>7, LotsOfRows
<1>10. Lots'[b].price = FixedPrice
  BY <1>3, <1>5, <1>6, LotsOfRows DEF Escrow!Lot
<1>11. Lots[b].phase = "absent"
  BY <1>7 DEF Escrow!Absent
<1>12. Lots' = [Lots EXCEPT ![a] = Escrow!Absent, ![b] = Escrow!Lot("waiting", Lots'[b].price)]
  BY <1>9, <1>10
<1>13. Escrow!Relist(a, b)
  BY <1>2, <1>8, <1>11, <1>12 DEF Escrow!Relist
<1> QED BY <1>13

\* A save whose row was not overtaken offers a lot, opens one, or only moves its
\* deadline (auction.repository save).
LEMMA SavePromises ==
  ASSUME TableInv, Undisturbed, NEW h \in Handlers, SaveRow(h)
  PROVE  \/ \E a \in Ids : Escrow!Offer(a) \/ Escrow!Open(a)
         \/ UNCHANGED Escrow!vars
<1>1. PICK s \in op[h].saves, n \in Row :
        /\ s \in Save /\ Derived(s.read, s.row)
        /\ auction' = [auction EXCEPT ![s.id] = n]
        /\ n.status = s.row.status /\ n.bidder = s.row.bidder /\ n.highest = s.row.highest
  BY SaveRowType
<1> DEFINE a == s.id
           r == auction[s.id]
<1>2. a \in Ids /\ s.read = r /\ n # NoRow /\ UNCHANGED <<wallet, granted>>
  BY <1>1, ConstantsAssumption DEF Undisturbed, Save, SaveRow, ledger, leave
<1>3. Derived(r, s.row)
  BY <1>1, <1>2
<1> HIDE DEF a, r
<1>4. Lots' = [Lots EXCEPT ![a] = LotOf(n)] /\ Lots'[a] = LotOf(n) /\ Lots[a] = LotOf(r)
  BY <1>1, <1>2, OneLotWritten DEF a, r
<1>5. LotOf(n) = [phase |-> Phase(n.status), leader |-> n.bidder, price |-> n.highest]
  BY <1>2 DEF LotOf
<1>6. CASE /\ r # NoRow /\ r.status = "OPEN" /\ s.row.status = "OPEN"
           /\ s.row.bidder = r.bidder /\ s.row.highest = r.highest
  <2>1. LotOf(n) = LotOf(r)
    BY <1>1, <1>5, <1>6 DEF LotOf
  <2>2. Lots' = Lots
    BY <1>2, <1>4, <2>1, LotsOfRows
  <2> QED BY <1>2, <2>2 DEF Escrow!vars
<1>7. CASE (r = NoRow \/ r.status \in Waiting) /\ s.row.bidder = NoUser
  <2>1. n.bidder = NoUser /\ n.status \in Waiting \cup {"OPEN"}
    BY <1>1, <1>3, <1>7 DEF Derived
  <2>2. Lots[a].phase = IF r = NoRow THEN "absent" ELSE "waiting"
    BY <1>4, <1>7, Phases DEF LotOf, Escrow!Absent
  <2>3. LotOf(n).price = n.highest
    BY <1>5
  <2>4. CASE n.status \in Waiting
    <3>1. LotOf(n) = Escrow!Lot("waiting", n.highest)
      BY <1>5, <2>1, <2>4, Phases DEF Escrow!Lot
    <3>2. Escrow!Offer(a)
      BY <1>2, <1>4, <2>2, <2>3, <3>1 DEF Escrow!Offer
    <3> QED BY <1>2, <3>2
  <2>5. CASE n.status = "OPEN"
    <3>1. r # NoRow
      BY <1>1, <1>3, <2>5 DEF Derived, Waiting
    <3>2. LotOf(n) = Escrow!Lot("open", n.highest)
      BY <1>5, <2>1, <2>5, Phases DEF Escrow!Lot
    <3>3. Escrow!Open(a)
      BY <1>2, <1>4, <2>2, <2>3, <3>1, <3>2 DEF Escrow!Open
    <3> QED BY <1>2, <3>3
  <2> QED BY <2>1, <2>4, <2>5
<1> QED BY <1>3, <1>6, <1>7 DEF Derived

\* Every step of the house is a step of the promise or leaves it alone.
LEMMA PromiseStep ==
  TableInv /\ Undisturbed /\ EscrowInv /\ [Next]_vars => [Escrow!Next]_Escrow!vars
<1> SUFFICES ASSUME TableInv, Undisturbed, EscrowInv, [Next]_vars
             PROVE  [Escrow!Next]_Escrow!vars
  OBVIOUS
<1> USE DEF ledger, leave, lots
<1>1. CASE Tick \/ UNCHANGED vars
  BY <1>1, NothingPromised DEF Tick, vars
<1>2. ASSUME NEW u \in Users, NEW a \in Ids, NEW x \in 1..MaxPrice, PlaceBid(u, a, x)
      PROVE  Escrow!Next
  BY <1>2, BidRaises, ConstantsAssumption DEF Escrow!Next
<1>3. ASSUME NEW a \in Ids, SettleAuction(a) PROVE Escrow!Next
  BY <1>3, SettlementHammers DEF SettleAuction, Escrow!Next
<1>4. ASSUME NEW S \in SUBSET Ids, CancelAuctions(S) PROVE Escrow!Next
  <2> DEFINE T == {a \in S \ PoolIds : HasStatus(a, Waiting)}
  <2>1. T \in SUBSET Ids /\ T # {} /\ Delete(T) /\ UNCHANGED <<wallet, granted>>
    BY <1>4 DEF CancelAuctions
  <2>2. \A a \in T : HasStatus(a, Waiting \cup {"UNSOLD"})
    BY DEF HasStatus
  <2> HIDE DEF T
  <2> QED BY <2>1, <2>2, DeletionWithdraws DEF Escrow!Next
<1>5. ASSUME NEW k \in Ids, PurgeUnsold(k) PROVE Escrow!Next
  <2> DEFINE T == {a \in 1..k : HasStatus(a, {"UNSOLD"})}
  <2>1. T \in SUBSET Ids
    BY ConstantsAssumption DEF Ids
  <2>2. T # {} /\ Delete(T) /\ UNCHANGED <<wallet, granted>>
    BY <1>5 DEF PurgeUnsold
  <2>3. \A a \in T : HasStatus(a, Waiting \cup {"UNSOLD"})
    BY DEF HasStatus
  <2> HIDE DEF T
  <2> QED BY <2>1, <2>2, <2>3, DeletionWithdraws DEF Escrow!Next
<1>6. ASSUME NEW u \in Users, NEW a \in Ids, GrantEventFromUnsold(u, a) PROVE Escrow!Next
  <2>1. /\ {a} \in SUBSET Ids /\ {a} # {} /\ Delete({a}) /\ UNCHANGED <<wallet, granted>>
        /\ \A b \in {a} : HasStatus(b, Waiting \cup {"UNSOLD"})
    BY <1>6 DEF GrantEventFromUnsold, HasStatus
  <2>2. Escrow!Withdraw({a})
    BY <2>1, DeletionWithdraws
  <2> QED BY <2>1, <2>2 DEF Escrow!Next
<1>7. ASSUME NEW a \in Ids, NEW s \in Times, NEW e \in Times, ReopenUnsold(a, s, e)
      PROVE  Escrow!Next
  BY <1>7, ReopeningRelists DEF Escrow!Next
<1>8. ASSUME NEW h \in Handlers, AdminRequest(h) \/ OpenDue(h)
      PROVE  UNCHANGED Escrow!vars
  <2>1. UNCHANGED <<auction, wallet, granted>>
    BY <1>8, HandlerBegins DEF Begins
  <2> QED BY <2>1, NothingPromised
<1>9. ASSUME NEW h \in Handlers, SaveRow(h) PROVE [Escrow!Next]_Escrow!vars
  BY <1>9, SavePromises DEF Escrow!Next
<1>10. ASSUME NEW h \in Handlers, SettleClosed(h) PROVE [Escrow!Next]_Escrow!vars
  <2>1. op[h].settle \in Ids /\ UNCHANGED wallet
    BY <1>10 DEF SettleClosed, TableInv, TypeOK
  <2>2. CASE SettleRow(op[h].settle)
    BY <2>1, <2>2, SettlementHammers DEF Escrow!Next
  <2>3. CASE UNCHANGED <<auction, granted>>
    BY <2>1, <2>3, NothingPromised
  <2> QED BY <1>10, <2>2, <2>3 DEF SettleClosed
<1> QED BY <1>1, <1>2, <1>3, <1>4, <1>5, <1>6, <1>7, <1>8, <1>9, <1>10 DEF Next, Handlers

\* The house begins as the promise does.
LEMMA PromiseInit == Init => Escrow!Init
<1> SUFFICES ASSUME Init PROVE Escrow!Init
  OBVIOUS
<1>1. wallet \in [Users -> Nat] /\ granted = [a \in Ids |-> [u \in Users |-> 0]]
  BY ConstantsAssumption DEF Init
<1>2. DOMAIN Lots = Ids
  BY LotsOfRows
<1>3. ASSUME NEW a \in Ids
      PROVE  Lots[a] = Escrow!Absent \/ (Lots[a].phase = "waiting" /\ Lots[a].leader = NoUser)
  <2>1. Lots[a] = LotOf(auction[a])
    BY LotsOfRows
  <2>2. CASE auction[a] = NoRow
    BY <2>1, <2>2 DEF LotOf
  <2>3. CASE auction[a] # NoRow
    <3>1. PICK f \in [1..SeedLots -> {DraftRow(FixedPrice, DefaultCompany)}
                         \cup {NewRow("CREATED", FixedPrice, w[1], w[2], DefaultCompany) :
                                 w \in Windows(Times, Times)}] :
            auction = [b \in Ids |-> IF b <= SeedLots THEN f[b] ELSE NoRow]
      BY DEF Init
    <3>2. auction[a] = f[a] /\ a \in 1..SeedLots
      BY <2>3, <3>1, ConstantsAssumption DEF Ids
    <3>3. auction[a].status \in Waiting /\ auction[a].bidder = NoUser
      BY <3>2 DEF DraftRow, NewRow, Waiting
    <3> QED BY <2>1, <2>3, <3>3, Phases DEF LotOf
  <2> QED BY <2>2, <2>3
<1> QED BY <1>1, <1>2, <1>3 DEF Escrow!Init

\* While no handler overwrites a row it did not read, the house keeps LotEscrow's
\* promise: one stake at a time, the previous one sent home in the same step, each lot
\* sold once, and its day of leave to the member whose stake it holds.
THEOREM EscrowPromiseKept == SerialSpec => KeepsEscrowPromise
<1>1. [Next /\ Undisturbed']_vars => [Next]_vars
  OBVIOUS
<1> QED BY <1>1, PromiseInit, PromiseStep, EscrowInvariant, PTL
        DEF SerialSpec, KeepsEscrowPromise, Escrow!Spec

-----------------------------------------------------------------------------
(* The anti-snipe rule.                                                    *)

Answerable(a) ==
  bidEvents'[a] # bidEvents[a] =>
    /\ auction'[a].endsAt >= auction[a].endsAt
    /\ SnipeWindow > 0 /\ SnipeExtend > 0 =>
         \/ auction'[a].endsAt >= now + SnipeExtend
         \/ auction'[a].endsAt > now + SnipeWindow

\* A bid leaves time for an answer (extendIfSniped of auction.ts).
LEMMA BidAnswerable ==
  ASSUME TableInv, NEW u \in Users, NEW b \in Ids, NEW x \in Nat, PlaceBid(u, b, x), NEW a \in Ids
  PROVE  Answerable(a)
<1> DEFINE r == auction[b]
           n == Bid(r, u, x)
<1>1. r \in Row /\ now \in Nat /\ auction \in [Ids -> Row \cup {NoRow}] /\ bidEvents \in [Ids -> Nat]
  BY RowTyped DEF PlaceBid, HasStatus, TableInv, TypeOK
<1>2. n.endsAt = SnipedEnd(r.endsAt)
  BY <1>1 DEF Bid, Row
<1>3. auction' = [auction EXCEPT ![b] = n] /\ bidEvents' = [bidEvents EXCEPT ![b] = @ + 1]
  BY DEF PlaceBid
<1>4. r.endsAt \in Nat
  BY <1>1 DEF Row
<1> HIDE DEF n
<1>5. CASE a # b
  BY <1>1, <1>3, <1>5 DEF Answerable
<1>6. CASE a = b
  <2>1. auction'[a].endsAt = SnipedEnd(r.endsAt)
    BY <1>1, <1>2, <1>3, <1>6
  <2>2. auction[a].endsAt = r.endsAt
    BY <1>6
  <2> HIDE DEF r
  <2> QED BY <1>1, <1>4, <2>1, <2>2, ConstantsAssumption DEF Answerable, SnipedEnd
<1> QED BY <1>5, <1>6

\* No other step writes the bid log.
LEMMA StepAnswerable ==
  ASSUME TableInv, [Next]_vars, NEW a \in Ids
  PROVE  Answerable(a)
<1> USE DEF ledger, leave, lots
<1>1. CASE bidEvents' = bidEvents
  BY <1>1 DEF Answerable
<1>2. ASSUME NEW u \in Users, NEW b \in Ids, NEW x \in 1..MaxPrice, PlaceBid(u, b, x)
      PROVE  Answerable(a)
  BY <1>2, BidAnswerable, ConstantsAssumption
<1>3. ASSUME NEW b \in Ids, SettleAuction(b) PROVE bidEvents' = bidEvents
  BY <1>3 DEF SettleAuction
<1>4. ASSUME NEW S \in SUBSET Ids, CancelAuctions(S) PROVE bidEvents' = bidEvents
  BY <1>4 DEF CancelAuctions
<1>5. ASSUME NEW k \in Ids, PurgeUnsold(k) PROVE bidEvents' = bidEvents
  BY <1>5 DEF PurgeUnsold
<1>6. ASSUME NEW u \in Users, NEW b \in Ids, GrantEventFromUnsold(u, b) PROVE bidEvents' = bidEvents
  BY <1>6 DEF GrantEventFromUnsold
<1>7. ASSUME NEW b \in Ids, NEW s \in Times, NEW e \in Times, ReopenUnsold(b, s, e)
      PROVE  bidEvents' = bidEvents
  BY <1>7 DEF ReopenUnsold
<1>8. ASSUME NEW h \in Handlers, AdminRequest(h) \/ OpenDue(h) PROVE bidEvents' = bidEvents
  BY <1>8, HandlerBegins DEF Begins
<1>9. ASSUME NEW h \in Handlers, SaveRow(h) \/ SettleClosed(h) PROVE bidEvents' = bidEvents
  BY <1>9 DEF SaveRow, SettleClosed
<1>10. Tick \/ UNCHANGED vars => bidEvents' = bidEvents
  BY DEF Tick, vars
<1> QED BY <1>1, <1>2, <1>3, <1>4, <1>5, <1>6, <1>7, <1>8, <1>9, <1>10 DEF Next, Handlers

\* In the program as it is, a bid never brings the deadline forward nor leaves the others
\* less time than the rule promises (place-bid.use-case.ts, auction.ts).
THEOREM BidsAnswerable == Spec => SnipeAnswerable
<1>1. TableInv /\ [Next]_vars => [\A a \in Ids : Answerable(a)]_vars
  BY StepAnswerable
<1>2. (\A a \in Ids : Answerable(a)) <=>
        \A a \in Ids : bidEvents'[a] # bidEvents[a] =>
          /\ auction'[a].endsAt >= auction[a].endsAt
          /\ SnipeWindow > 0 /\ SnipeExtend > 0 =>
               \/ auction'[a].endsAt >= now + SnipeExtend
               \/ auction'[a].endsAt > now + SnipeWindow
  BY DEF Answerable
<1> QED BY <1>1, <1>2, TableInvariant, PTL DEF Spec, SnipeAnswerable
-----------------------------------------------------------------------------
(* The points of a member.                                                 *)

\* What the ledger debits a member for each lot.
Debits(u) == [a \in Ids |-> held[a][u]]

\* The ids of the table are finite in number.
LEMMA IdsFinite == IsFiniteSet(Ids)
BY FS_Interval, ConstantsAssumption DEF Ids

\* A bid moves the stake and the refund between wallets and the ledger (place-bid.use-case.ts).
LEMMA BidConserves ==
  ASSUME TableInv, PointsConserved, NEW a \in Ids, NEW u \in Users, NEW x \in Nat, PlaceBid(u, a, x)
  PROVE  PointsConserved'
<1> SUFFICES ASSUME NEW v \in Users
             PROVE  wallet'[v] + SumFunction(Debits(v)') = InitialBalance[v]
  BY DEF PointsConserved, Debits
<1> DEFINE f == Debits(v)
           g == Debits(v)'
<1>1. IntOn(f, Ids) /\ IntOn(g, Ids)
  BY PurseType DEF IntOn, Debits, TableInv, TypeOK
<1>2. \A b \in Ids \ {a} : g[b] = f[b]
  BY PurseType DEF Debits
<1>3. SumFunction(f) = SumFunctionOnSet(f, Ids) /\ SumFunction(g) = SumFunctionOnSet(g, Ids)
  BY DEF SumFunction, Debits
<1>4. f[a] = held[a][v] /\ g[a] = held'[a][v]
  BY DEF Debits
<1>5. wallet[v] + SumFunction(f) = InitialBalance[v]
  BY DEF PointsConserved, Debits
<1>6. f[a] \in Int /\ g[a] \in Int /\ wallet[v] \in Nat
  BY <1>1 DEF IntOn, TableInv, TypeOK
<1>7. auction[a].highest \in Nat /\ auction[a].bidder # u
  BY RowTyped DEF PlaceBid, HasStatus, Row
<1>8. wallet'[v] = wallet[v] + f[a] - g[a]
  <2>1. wallet'[v] = IF v = u THEN wallet[v] - x
                     ELSE IF v = auction[a].bidder THEN wallet[v] + auction[a].highest
                     ELSE wallet[v]
    BY PurseType
  <2>2. held'[a][v] = IF v = u THEN held[a][v] + x
                      ELSE IF v = auction[a].bidder THEN held[a][v] - auction[a].highest
                      ELSE held[a][v]
    BY PurseType
  <2> HIDE DEF f, g
  <2> QED BY <1>4, <1>6, <1>7, <2>1, <2>2
<1> HIDE DEF f, g
<1>9. SumFunctionOnSet(g, Ids) = SumFunctionOnSet(f, Ids) - f[a] + g[a]
  BY <1>1, <1>2, IdsFinite, SumChange
<1>10. SumFunctionOnSet(f, Ids) \in Int
  BY <1>1, IdsFinite, SumType
<1> QED BY <1>3, <1>5, <1>6, <1>8, <1>9, <1>10 DEF g

\* No other step touches a wallet or the ledger.
LEMMA PointsNext == TableInv /\ PointsConserved /\ [Next]_vars => PointsConserved'
<1> SUFFICES ASSUME TableInv, PointsConserved, [Next]_vars PROVE PointsConserved'
  OBVIOUS
<1>1. ASSUME UNCHANGED <<wallet, held>> PROVE PointsConserved'
  BY <1>1 DEF PointsConserved
<1>2. ASSUME NEW u \in Users, NEW a \in Ids, NEW x \in 1..MaxPrice, PlaceBid(u, a, x)
      PROVE  PointsConserved'
  BY <1>2, BidConserves, ConstantsAssumption
<1>3. ASSUME ~ \E u \in Users, a \in Ids, x \in 1..MaxPrice : PlaceBid(u, a, x)
      PROVE  UNCHANGED <<wallet, held>>
  <2> USE DEF ledger
  <2>1. ASSUME NEW h \in Handlers, AdminRequest(h) \/ OpenDue(h) PROVE UNCHANGED <<wallet, held>>
    BY <2>1, HandlerBegins DEF Begins
  <2> QED BY <1>3, <2>1 DEF Next, vars, Handlers, Tick, SettleAuction, CancelAuctions, PurgeUnsold,
            GrantEventFromUnsold, ReopenUnsold, SaveRow, SettleClosed
<1> QED BY <1>1, <1>2, <1>3

\* Nothing is debited when the house opens.
LEMMA PointsInit == Init => PointsConserved
<1> SUFFICES ASSUME Init, NEW u \in Users
             PROVE  wallet[u] + SumFunction([a \in Ids |-> held[a][u]]) = InitialBalance[u]
  BY DEF PointsConserved
<1> DEFINE f == [a \in Ids |-> held[a][u]]
<1>1. \A a \in Ids : f[a] = 0
  BY DEF Init
<1>2. SumFunction(f) = SumFunctionOnSet(f, Ids)
  BY DEF SumFunction
<1> HIDE DEF f
<1>3. SumFunction(f) = 0
  BY <1>1, <1>2, IdsFinite, SumZero
<1>4. wallet[u] = InitialBalance[u] /\ wallet[u] \in Nat
  BY ConstantsAssumption DEF Init
<1> QED BY <1>3, <1>4 DEF f

\* In the program as it is, lost updates included, no point is made or lost.
THEOREM NoPointLost == Spec => []PointsConserved
<1> QED BY PointsInit, PointsNext, TableInvariant, PTL DEF Spec
-----------------------------------------------------------------------------
(* Lots.                                                                   *)

\* The lots in the table.
Rows == {a \in Ids : auction[a] # NoRow}

\* LotsConserved with its sum over the users.
LotsBalance == minted = Cardinality(Rows) + SumFunctionOnSet(eventGrants, Users) + discarded

\* The grants are to users.
LEMMA LotsMeaning ==
  ASSUME TypeOK
  PROVE  LotsConserved <=> LotsBalance
<1>1. DOMAIN eventGrants = Users
  BY DEF TypeOK
<1> QED BY <1>1 DEF LotsConserved, LotsBalance, Rows, SumFunction

\* The lots are finite in number.
LEMMA RowsFinite ==
  /\ IsFiniteSet(Rows) /\ Cardinality(Rows) \in Nat
  /\ IsFiniteSet(Rows') /\ Cardinality(Rows') \in Nat
<1>1. Rows \in SUBSET Ids /\ Rows' \in SUBSET Ids
  BY DEF Rows
<1>2. IsFiniteSet(Rows) /\ IsFiniteSet(Rows')
  BY <1>1, IdsFinite, FS_Subset
<1> QED BY <1>2, FS_CardinalityType

\* The sum of the granted lots is a number.
LEMMA GrantsType ==
  ASSUME TypeOK
  PROVE  SumFunctionOnSet(eventGrants, Users) \in Int /\ IntOn(eventGrants, Users)
<1>1. IntOn(eventGrants, Users)
  BY DEF TypeOK, IntOn
<1> QED BY <1>1, SumType, ConstantsAssumption

\* What a step that lists no lot and drops none must show.
LEMMA SameLots ==
  ASSUME LotsBalance, UNCHANGED <<minted, discarded, eventGrants>>,
         \A a \in Ids : auction'[a] # NoRow <=> auction[a] # NoRow
  PROVE  LotsBalance'
<1>1. Rows' = Rows
  BY DEF Rows
<1> QED BY <1>1 DEF LotsBalance

\* Deleted lots leave the table.
LEMMA DeletionCounted ==
  ASSUME TableInv, NEW S \in SUBSET Ids, Delete(S), \A a \in S : auction[a] # NoRow
  PROVE  Cardinality(Rows') = Cardinality(Rows) - Cardinality(S) /\ Cardinality(S) \in Nat
<1>1. \A a \in Ids : auction'[a] = IF a \in S THEN NoRow ELSE auction[a]
  BY DeleteType
<1>2. Rows' = Rows \ S /\ Rows \cap S = S
  BY <1>1 DEF Rows
<1>3. Cardinality(S) \in Nat
  BY DeleteType
<1>4. Cardinality(Rows \ S) = Cardinality(Rows) - Cardinality(Rows \cap S)
  BY RowsFinite, FS_Difference
<1> QED BY <1>2, <1>3, <1>4

\* A cancelled or purged lot is counted as discarded.
LEMMA LotsDiscarded ==
  ASSUME TableInv, LotsBalance, NEW S \in SUBSET Ids, Delete(S), \A a \in S : auction[a] # NoRow,
         discarded' = discarded + Cardinality(S), UNCHANGED <<minted, eventGrants>>
  PROVE  LotsBalance'
<1>1. TypeOK
  BY DEF TableInv
<1> QED BY <1>1, DeletionCounted, RowsFinite, GrantsType DEF LotsBalance, TypeOK

\* An unsold lot is granted to a member (prisma-leave-admin.adapter.ts).
LEMMA LotGranted ==
  ASSUME TableInv, LotsBalance, NEW u \in Users, NEW a \in Ids, GrantEventFromUnsold(u, a)
  PROVE  LotsBalance'
<1>1. /\ {a} \in SUBSET Ids /\ Delete({a}) /\ \A b \in {a} : auction[b] # NoRow
      /\ UNCHANGED <<minted, discarded>>
      /\ eventGrants' = [eventGrants EXCEPT ![u] = eventGrants[u] + 1]
  BY DEF GrantEventFromUnsold, HasStatus, lots
<1>2. Cardinality(Rows') = Cardinality(Rows) - 1
  BY <1>1, DeletionCounted, FS_Singleton
<1>3. TypeOK
  BY DEF TableInv
<1>4. /\ IntOn(eventGrants', Users) /\ eventGrants[u] \in Int
      /\ eventGrants'[u] = eventGrants[u] + 1
      /\ \A v \in Users \ {u} : eventGrants'[v] = eventGrants[v]
  BY <1>1, <1>3 DEF IntOn, TypeOK
<1>5. SumFunctionOnSet(eventGrants', Users) = SumFunctionOnSet(eventGrants, Users) + 1
  BY <1>3, <1>4, GrantsType, SumChange, ConstantsAssumption
<1> QED BY <1>1, <1>2, <1>3, <1>5, RowsFinite, GrantsType DEF LotsBalance, TypeOK

\* A reopened lot changes its number and nothing else (reopen-unsold-auction.use-case.ts).
LEMMA LotReopened ==
  ASSUME TableInv, LotsBalance, NEW a \in Ids, NEW s \in Times, NEW e \in Times,
         ReopenUnsold(a, s, e)
  PROVE  LotsBalance'
<1> DEFINE row == NewRow("CREATED", FixedPrice, s, e, auction[a].company)
<1>1. PICK b \in Ids : /\ IsNextId(b)
                       /\ auction' = [auction EXCEPT ![b] = row, ![a] = NoRow]
  BY DEF ReopenUnsold
<1>2. auction[a] # NoRow /\ UNCHANGED <<minted, discarded, eventGrants>>
  BY DEF ReopenUnsold, HasStatus, lots, leave
<1>3. auction[b] = NoRow /\ a # b
  BY <1>1, <1>2 DEF IsNextId, Ids
<1>4. row # NoRow
  <2>1. auction[a].company \in Companies /\ s \in Nat /\ e \in Nat /\ FixedPrice \in Nat
    BY <1>2, RowTyped, ConstantsAssumption DEF Row
  <2>2. row \in Row
    BY <2>1, NewRowType DEF Waiting
  <2> HIDE DEF row
  <2> QED BY <2>2, ConstantsAssumption
<1> HIDE DEF row
<1>5. \A c \in Ids : auction'[c] = IF c = a THEN NoRow ELSE IF c = b THEN row ELSE auction[c]
  BY <1>1, <1>3 DEF TableInv, TypeOK
<1>6. Rows' = (Rows \ {a}) \cup {b} /\ a \in Rows /\ b \notin Rows \ {a}
  BY <1>2, <1>3, <1>4, <1>5 DEF Rows
<1>7. Cardinality(Rows') = Cardinality(Rows)
  <2>1. IsFiniteSet(Rows \ {a}) /\ Cardinality(Rows \ {a}) = Cardinality(Rows) - 1
    BY <1>6, RowsFinite, FS_RemoveElement
  <2>2. Cardinality((Rows \ {a}) \cup {b}) = Cardinality(Rows \ {a}) + 1
    BY <1>6, <2>1, FS_AddElement
  <2> QED BY <1>6, <2>1, <2>2, RowsFinite
<1> QED BY <1>2, <1>7 DEF LotsBalance

\* A save that was not overtaken lists a new lot or rewrites an old one.
LEMMA LotSaved ==
  ASSUME TableInv, Undisturbed, LotsBalance, NEW h \in Handlers, SaveRow(h)
  PROVE  LotsBalance'
<1>1. PICK s \in op[h].saves, n \in Row :
        /\ s \in Save /\ auction' = [auction EXCEPT ![s.id] = n]
        /\ minted' = minted + (IF s.read = NoRow THEN 1 ELSE 0)
  BY SaveRowType
<1>2. /\ s.read = auction[s.id] /\ s.id \in Ids /\ n # NoRow
      /\ UNCHANGED <<discarded, eventGrants>> /\ TypeOK
  BY <1>1, ConstantsAssumption DEF Undisturbed, Save, SaveRow, leave, TableInv
<1>3. \A b \in Ids : auction'[b] = IF b = s.id THEN n ELSE auction[b]
  BY <1>1, <1>2 DEF TypeOK
<1>4. CASE auction[s.id] # NoRow
  BY <1>1, <1>2, <1>3, <1>4, SameLots DEF TypeOK
<1>5. CASE auction[s.id] = NoRow
  <2>1. Rows' = Rows \cup {s.id} /\ s.id \notin Rows
    BY <1>2, <1>3, <1>5 DEF Rows
  <2>2. Cardinality(Rows') = Cardinality(Rows) + 1
    BY <2>1, RowsFinite, FS_AddElement
  <2>3. minted' = minted + 1 /\ UNCHANGED <<discarded, eventGrants>>
    BY <1>1, <1>2, <1>5
  <2>4. minted \in Nat /\ discarded \in Nat /\ SumFunctionOnSet(eventGrants, Users) \in Int
    BY <1>2, GrantsType DEF TypeOK
  <2> QED BY <2>2, <2>3, <2>4, RowsFinite DEF LotsBalance
<1> QED BY <1>4, <1>5

\* Every step accounts for the lots it lists and drops, if no save overtakes another.
LEMMA LotsNext == TableInv /\ Undisturbed /\ LotsBalance /\ [Next]_vars => LotsBalance'
<1> SUFFICES ASSUME TableInv, Undisturbed, LotsBalance, [Next]_vars PROVE LotsBalance'
  OBVIOUS
<1> USE DEF ledger, leave, lots
<1>1. CASE Tick \/ UNCHANGED vars
  BY <1>1, SameLots DEF Tick, vars
<1>2. ASSUME NEW u \in Users, NEW a \in Ids, NEW x \in 1..MaxPrice, PlaceBid(u, a, x)
      PROVE  LotsBalance'
  <2>1. x \in Nat /\ auction[a] # NoRow /\ UNCHANGED <<minted, discarded, eventGrants>>
        /\ auction' = [auction EXCEPT ![a] = Bid(auction[a], u, x)]
    BY <1>2, ConstantsAssumption DEF PlaceBid, HasStatus
  <2>2. Bid(auction[a], u, x) # NoRow
    BY <1>2, <2>1, BidWellFormed, ConstantsAssumption
  <2>3. \A b \in Ids : auction'[b] # NoRow <=> auction[b] # NoRow
    BY <2>1, <2>2 DEF TableInv, TypeOK
  <2> QED BY <2>1, <2>3, SameLots
<1>3. ASSUME NEW a \in Ids, SettleRow(a), UNCHANGED <<minted, discarded, eventGrants>>
      PROVE  LotsBalance'
  <2>1. /\ auction[a] # NoRow /\ Settled(auction[a]) # NoRow
        /\ auction' = [auction EXCEPT ![a] = Settled(auction[a])]
    BY <1>3, SettleRowType, ConstantsAssumption
  <2>2. \A b \in Ids : auction'[b] # NoRow <=> auction[b] # NoRow
    BY <2>1 DEF TableInv, TypeOK
  <2> QED BY <1>3, <2>2, SameLots
<1>4. ASSUME NEW S \in SUBSET Ids, CancelAuctions(S) PROVE LotsBalance'
  <2> DEFINE T == {a \in S \ PoolIds : HasStatus(a, Waiting)}
  <2>1. /\ T \in SUBSET Ids /\ Delete(T) /\ UNCHANGED <<minted, eventGrants>>
        /\ discarded' = discarded + Cardinality(T)
    BY <1>4 DEF CancelAuctions
  <2>2. \A a \in T : auction[a] # NoRow
    BY DEF HasStatus
  <2> HIDE DEF T
  <2> QED BY <2>1, <2>2, LotsDiscarded
<1>5. ASSUME NEW k \in Ids, PurgeUnsold(k) PROVE LotsBalance'
  <2> DEFINE T == {a \in 1..k : HasStatus(a, {"UNSOLD"})}
  <2>1. T \in SUBSET Ids
    BY ConstantsAssumption DEF Ids
  <2>2. /\ Delete(T) /\ UNCHANGED <<minted, eventGrants>>
        /\ discarded' = discarded + Cardinality(T)
    BY <1>5 DEF PurgeUnsold
  <2>3. \A a \in T : auction[a] # NoRow
    BY DEF HasStatus
  <2> HIDE DEF T
  <2> QED BY <2>1, <2>2, <2>3, LotsDiscarded
<1>6. ASSUME NEW u \in Users, NEW a \in Ids, GrantEventFromUnsold(u, a) PROVE LotsBalance'
  BY <1>6, LotGranted
<1>7. ASSUME NEW a \in Ids, NEW s \in Times, NEW e \in Times, ReopenUnsold(a, s, e)
      PROVE  LotsBalance'
  BY <1>7, LotReopened
<1>8. ASSUME NEW h \in Handlers, AdminRequest(h) \/ OpenDue(h) PROVE LotsBalance'
  <2>1. UNCHANGED <<auction, minted, discarded, eventGrants>>
    BY <1>8, HandlerBegins DEF Begins
  <2> QED BY <2>1, SameLots
<1>9. ASSUME NEW h \in Handlers, SaveRow(h) PROVE LotsBalance'
  BY <1>9, LotSaved
<1>10. ASSUME NEW h \in Handlers, SettleClosed(h) PROVE LotsBalance'
  <2>1. op[h].settle \in Ids /\ UNCHANGED <<minted, discarded, eventGrants>>
    BY <1>10 DEF SettleClosed, TableInv, TypeOK
  <2>2. CASE UNCHANGED auction
    BY <2>1, <2>2, SameLots
  <2> QED BY <1>3, <1>10, <2>1, <2>2 DEF SettleClosed
<1>11. ASSUME NEW a \in Ids, SettleAuction(a) PROVE LotsBalance'
  BY <1>3, <1>11 DEF SettleAuction
<1> QED BY <1>1, <1>2, <1>4, <1>5, <1>6, <1>7, <1>8, <1>9, <1>10, <1>11 DEF Next, Handlers

\* The lots of the seed are counted as minted.
LEMMA LotsInit == Init => LotsBalance
<1> SUFFICES ASSUME Init PROVE LotsBalance
  OBVIOUS
<1>1. TypeOK
  BY TableInit DEF TableInv
<1>2. PICK f \in [1..SeedLots -> {DraftRow(FixedPrice, DefaultCompany)}
                     \cup {NewRow("CREATED", FixedPrice, w[1], w[2], DefaultCompany) :
                             w \in Windows(Times, Times)}] :
        auction = [b \in Ids |-> IF b <= SeedLots THEN f[b] ELSE NoRow]
  BY DEF Init
<1>3. ASSUME NEW b \in 1..SeedLots PROVE f[b] # NoRow
  <2>1. DraftRow(FixedPrice, DefaultCompany) \in Row
    BY DraftRowType, ConstantsAssumption
  <2>2. \A w \in Windows(Times, Times) :
          NewRow("CREATED", FixedPrice, w[1], w[2], DefaultCompany) \in Row
    BY NewRowType, ConstantsAssumption DEF Windows, Waiting
  <2>3. f[b] \in Row
    BY <2>1, <2>2
  <2> QED BY <2>3, ConstantsAssumption
<1>4. Rows = 1..SeedLots
  BY <1>2, <1>3, ConstantsAssumption DEF Rows, Ids
<1>5. Cardinality(Rows) = SeedLots
  BY <1>4, FS_Interval, ConstantsAssumption
<1>6. SumFunctionOnSet(eventGrants, Users) = 0
  BY SumZero, ConstantsAssumption DEF Init
<1> QED BY <1>5, <1>6, ConstantsAssumption DEF LotsBalance, Init

\* While no handler overwrites a row it did not read, no lot appears but from a creation, and
\* none disappears but as a cancelled, purged or granted one.
THEOREM NoLotLost == SerialSpec => []LotsConserved
<1>1. TableInv => (LotsConserved <=> LotsBalance)
  BY LotsMeaning DEF TableInv
<1>2. [Next /\ Undisturbed']_vars => [Next]_vars
  OBVIOUS
<1> QED BY <1>1, <1>2, LotsInit, LotsNext, EscrowInvariant, PTL DEF SerialSpec
-----------------------------------------------------------------------------
(* The escrow of a company.                                                *)

\* Only the super ADMIN has no company; without them every leader is of their lot's company.
EveryoneEmployed == \A u \in Users : CompanyOf[u] # NoCompany

\* The leader of a lot is of the lot's company.
LotsOfTenants ==
  \A a \in Ids : auction[a] # NoRow /\ auction[a].bidder # NoUser
                   => auction[a].company = CompanyOf[auction[a].bidder]

\* What a step that gives no lot a leader must show.
LEMMA SameTenants ==
  ASSUME LotsOfTenants,
         \A a \in Ids : auction'[a] # NoRow /\ auction'[a].bidder # NoUser =>
           /\ auction[a] # NoRow /\ auction'[a].bidder = auction[a].bidder
           /\ auction'[a].company = auction[a].company
  PROVE  LotsOfTenants'
BY DEF LotsOfTenants

\* Bids come from the lot's company, and a lot keeps its company.
LEMMA TenantsNext ==
  ASSUME EveryoneEmployed
  PROVE  TableInv /\ Undisturbed /\ LotsOfTenants /\ [Next]_vars => LotsOfTenants'
<1> SUFFICES ASSUME TableInv, Undisturbed, LotsOfTenants, [Next]_vars PROVE LotsOfTenants'
  OBVIOUS
<1>t. auction \in [Ids -> Row \cup {NoRow}]
  BY DEF TableInv, TypeOK
<1>1. CASE UNCHANGED auction
  BY <1>1, SameTenants
<1>2. ASSUME NEW u \in Users, NEW a \in Ids, NEW x \in 1..MaxPrice, PlaceBid(u, a, x)
      PROVE  LotsOfTenants'
  <2> DEFINE n == Bid(auction[a], u, x)
  <2>1. /\ auction' = [auction EXCEPT ![a] = n] /\ auction[a] \in Row
        /\ CompanyOf[u] = auction[a].company
    BY <1>2, RowTyped DEF PlaceBid, HasStatus, SameTenant, EveryoneEmployed
  <2>2. n.bidder = u /\ n.company = auction[a].company
    BY <2>1 DEF Bid, Row
  <2> HIDE DEF n
  <2>3. \A b \in Ids : auction'[b] = IF b = a THEN n ELSE auction[b]
    BY <1>t, <2>1
  <2> QED BY <2>1, <2>2, <2>3 DEF LotsOfTenants
<1>3. ASSUME NEW a \in Ids, SettleRow(a) PROVE LotsOfTenants'
  <2> DEFINE n == Settled(auction[a])
  <2>1. /\ auction' = [auction EXCEPT ![a] = n] /\ auction[a] \in Row /\ auction[a] # NoRow
    BY <1>3, SettleRowType, ConstantsAssumption
  <2>2. n.bidder = auction[a].bidder /\ n.company = auction[a].company
    BY <2>1 DEF Settled, Row
  <2> HIDE DEF n
  <2>3. \A b \in Ids : auction'[b] = IF b = a THEN n ELSE auction[b]
    BY <1>t, <2>1
  <2> QED BY <2>1, <2>2, <2>3, SameTenants
<1>4. ASSUME NEW S \in SUBSET Ids, Delete(S) PROVE LotsOfTenants'
  BY <1>4, DeleteType, SameTenants
<1>5. ASSUME NEW a \in Ids, NEW s \in Times, NEW e \in Times, ReopenUnsold(a, s, e)
      PROVE  LotsOfTenants'
  <2> DEFINE row == NewRow("CREATED", FixedPrice, s, e, auction[a].company)
  <2>1. PICK n \in Ids : auction' = [auction EXCEPT ![n] = row, ![a] = NoRow]
    BY <1>5 DEF ReopenUnsold
  <2>2. row.bidder = NoUser
    BY DEF NewRow
  <2> HIDE DEF row
  <2>3. \A b \in Ids : \/ auction'[b] = auction[b] \/ auction'[b] = NoRow
                       \/ auction'[b].bidder = NoUser
    BY <1>t, <2>1, <2>2
  <2> QED BY <2>3, SameTenants
<1>6. ASSUME NEW h \in Handlers, AdminRequest(h) \/ OpenDue(h) PROVE UNCHANGED auction
  BY <1>6, HandlerBegins DEF Begins
<1>7. ASSUME NEW h \in Handlers, SaveRow(h) PROVE LotsOfTenants'
  <2>1. PICK s \in op[h].saves, n \in Row :
          /\ s \in Save /\ Derived(s.read, s.row)
          /\ auction' = [auction EXCEPT ![s.id] = n] /\ n.bidder = s.row.bidder
          /\ auction[s.id] # NoRow => n.company = auction[s.id].company
    BY <1>7, SaveRowType
  <2>2. s.read = auction[s.id] /\ s.id \in Ids
    BY <2>1 DEF Undisturbed, Save
  <2>3. \/ n.bidder = NoUser
        \/ auction[s.id] # NoRow /\ n.bidder = auction[s.id].bidder
    BY <2>1, <2>2 DEF Derived
  <2>4. \A b \in Ids : auction'[b] = IF b = s.id THEN n ELSE auction[b]
    BY <1>t, <2>1
  <2> QED BY <2>1, <2>2, <2>3, <2>4, SameTenants
<1>8. ASSUME NEW h \in Handlers, SettleClosed(h) PROVE SettleRow(op[h].settle) \/ UNCHANGED auction
  BY <1>8 DEF SettleClosed
<1>9. ASSUME NEW h \in Handlers, SettleClosed(h) PROVE op[h].settle \in Ids
  BY <1>9 DEF SettleClosed, TableInv, TypeOK
<1>10. ASSUME NEW S \in SUBSET Ids, CancelAuctions(S) PROVE LotsOfTenants'
  <2>1. Delete({a \in S \ PoolIds : HasStatus(a, Waiting)})
    BY <1>10 DEF CancelAuctions
  <2> QED BY <1>4, <2>1
<1>11. ASSUME NEW k \in Ids, PurgeUnsold(k) PROVE LotsOfTenants'
  <2> DEFINE T == {a \in 1..k : HasStatus(a, {"UNSOLD"})}
  <2>1. Delete(T)
    BY <1>11 DEF PurgeUnsold
  <2>2. T \in SUBSET Ids
    BY ConstantsAssumption DEF Ids
  <2> HIDE DEF T
  <2> QED BY <1>4, <2>1, <2>2
<1>12. ASSUME NEW u \in Users, NEW a \in Ids, GrantEventFromUnsold(u, a) PROVE LotsOfTenants'
  BY <1>4, <1>12 DEF GrantEventFromUnsold
<1>13. ASSUME NEW a \in Ids, SettleAuction(a) PROVE LotsOfTenants'
  BY <1>3, <1>13 DEF SettleAuction
<1>14. Tick \/ UNCHANGED vars => UNCHANGED auction
  BY DEF Tick, vars
<1>15. ASSUME NEW h \in Handlers, SettleClosed(h) PROVE LotsOfTenants'
  BY <1>1, <1>3, <1>8, <1>9, <1>15
<1> QED BY <1>1, <1>2, <1>5, <1>6, <1>7, <1>10, <1>11, <1>12, <1>13, <1>14, <1>15 DEF Next, Handlers

\* The lots of the seed have no leader.
LEMMA TenantsInit == Init => LotsOfTenants
<1> SUFFICES ASSUME Init, NEW a \in Ids, auction[a] # NoRow PROVE auction[a].bidder = NoUser
  BY DEF LotsOfTenants
<1>1. PICK f \in [1..SeedLots -> {DraftRow(FixedPrice, DefaultCompany)}
                     \cup {NewRow("CREATED", FixedPrice, w[1], w[2], DefaultCompany) :
                             w \in Windows(Times, Times)}] :
        auction = [b \in Ids |-> IF b <= SeedLots THEN f[b] ELSE NoRow]
  BY DEF Init
<1>2. auction[a] = f[a] /\ a \in 1..SeedLots
  BY <1>1, ConstantsAssumption DEF Ids
<1> QED BY <1>2 DEF DraftRow, NewRow

-----------------------------------------------------------------------------

\* The members whose entries the ledger books under c.
Booked(c) == {v \in Users : LedgerCompany(v) = c}

\* The lots of c that somebody leads.
Led(c) == {b \in Ids : \E u \in Users : Leads(u, b) /\ auction[b].company = c}

\* Lot by lot, the ledger of a company holds the stake of the lot's leader.
LEMMA StakeOfLot ==
  ASSUME EveryoneEmployed, TableInv, EscrowInv, LotsOfTenants, NEW c, NEW a \in Ids
  PROVE  SumFunction([u \in Booked(c) |-> held[a][u]])
           = IF a \in Led(c) THEN auction[a].highest ELSE 0
<1> DEFINE f == [u \in Booked(c) |-> held[a][u]]
<1>1. SumFunction(f) = SumFunctionOnSet(f, Booked(c))
  BY DEF SumFunction
<1>2. Booked(c) \in SUBSET Users /\ IsFiniteSet(Booked(c))
  BY FS_Subset, ConstantsAssumption DEF Booked
<1>3. IntOn(f, Booked(c))
  BY <1>2 DEF IntOn, TableInv, TypeOK
<1>4. \A u \in Booked(c) : f[u] = IF Leads(u, a) THEN auction[a].highest ELSE 0
  BY <1>2, EscrowInvMeaning DEF OnlyLeaderDebited
<1>5. \A u \in Users : Leads(u, a) => (u \in Booked(c) <=> auction[a].company = c)
  <2>1. ASSUME NEW u \in Users, Leads(u, a) PROVE u \in Booked(c) <=> auction[a].company = c
    <3>1. auction[a] # NoRow /\ auction[a].bidder = u /\ u # NoUser
      BY <2>1, ConstantsAssumption DEF Leads, HasStatus
    <3>2. auction[a].company = CompanyOf[u] /\ LedgerCompany(u) = CompanyOf[u]
      BY <3>1 DEF LotsOfTenants, LedgerCompany, EveryoneEmployed
    <3> QED BY <3>2 DEF Booked
  <2> QED BY <2>1
<1> HIDE DEF f
<1>6. CASE a \in Led(c)
  <2>1. PICK u \in Users : Leads(u, a) /\ auction[a].company = c
    BY <1>6 DEF Led
  <2>2. u \in Booked(c) /\ \A v \in Booked(c) \ {u} : f[v] = 0
    BY <1>2, <1>4, <1>5, <2>1 DEF Leads
  <2>3. SumFunctionOnSet(f, Booked(c)) = f[u]
    BY <1>2, <1>3, <2>2, SumOne
  <2> QED BY <1>1, <1>4, <1>6, <2>1, <2>2, <2>3 DEF f
<1>7. CASE a \notin Led(c)
  <2>1. \A v \in Booked(c) : f[v] = 0
    BY <1>2, <1>4, <1>5, <1>7 DEF Led
  <2>2. SumFunctionOnSet(f, Booked(c)) = 0
    BY <1>2, <2>1, SumZero
  <2> QED BY <1>1, <1>7, <2>2 DEF f
<1> QED BY <1>6, <1>7

\* Together, the escrow of a company is what its leaders have bid.
LEMMA StakesOfCompany ==
  ASSUME EveryoneEmployed
  PROVE  TableInv /\ EscrowInv /\ LotsOfTenants => CompanyEscrowBacked
<1> SUFFICES ASSUME TableInv, EscrowInv, LotsOfTenants, NEW c \in Companies
             PROVE  SumFunction([a \in Ids |-> SumFunction([u \in Booked(c) |-> held[a][u]])])
                      = SumFunction([a \in Led(c) |-> auction[a].highest])
  BY DEF CompanyEscrowBacked, Booked, Led
<1> DEFINE f == [a \in Ids |-> SumFunction([u \in Booked(c) |-> held[a][u]])]
           g == [a \in Led(c) |-> auction[a].highest]
<1>1. \A a \in Ids : f[a] = IF a \in Led(c) THEN auction[a].highest ELSE 0
  BY StakeOfLot
<1>2. SumFunction(f) = SumFunctionOnSet(f, Ids) /\ SumFunction(g) = SumFunctionOnSet(g, Led(c))
  BY DEF SumFunction
<1>3. \A a \in Led(c) : g[a] = auction[a].highest /\ a \in Ids
  BY DEF Led
<1>4. \A a \in Led(c) : auction[a].highest \in Int
  BY RowTyped DEF Led, Leads, HasStatus, Row
<1> HIDE DEF f, g
<1>5. IntOn(f, Ids) /\ Led(c) \in SUBSET Ids /\ IsFiniteSet(Led(c))
  BY <1>1, <1>4, IdsFinite, FS_Subset DEF IntOn, Led
<1>6. SumFunctionOnSet(f, Ids) = SumFunctionOnSet(f, Led(c))
  BY <1>1, <1>5, IdsFinite, SumOfPart
<1>7. SumFunctionOnSet(f, Led(c)) = SumFunctionOnSet(g, Led(c))
  BY <1>1, <1>3, <1>5, SumSame
<1> QED BY <1>2, <1>6, <1>7 DEF f, g

\* While no handler overwrites a row it did not read, and the super ADMIN does not bid, the
\* escrow of a company, from which its dividend is paid, is what the leaders of its lots bid.
THEOREM EscrowOfCompanies ==
  ASSUME EveryoneEmployed
  PROVE  SerialSpec => []CompanyEscrowBacked
<1>1. [Next /\ Undisturbed']_vars => [Next]_vars
  OBVIOUS
<1>2. TableInv /\ Undisturbed /\ LotsOfTenants /\ [Next]_vars => LotsOfTenants'
  BY TenantsNext
<1>3. TableInv /\ EscrowInv /\ LotsOfTenants => CompanyEscrowBacked
  BY StakesOfCompany
<1> QED BY <1>1, <1>2, <1>3, TenantsInit, EscrowInvariant, PTL DEF SerialSpec
=============================================================================
