----------------------- MODULE YearEndDividendProofs -----------------------
(***************************************************************************)
(* Theorems about YearEndDividend, for every value of its constants.       *)
(***************************************************************************)
EXTENDS YearEndDividend, Sums

-----------------------------------------------------------------------------
(* Shares.                                                                 *)

\* What a division leaves.
LEMMA DivisionFacts ==
  ASSUME NEW a \in Nat, NEW b \in Nat, b > 0
  PROVE  a \div b \in Nat /\ (a \div b) * b <= a /\ a <= (a \div b) * b + (b - 1)
OBVIOUS

\* The members of a company are finite in number.
LEMMA MembersFinite ==
  ASSUME NEW c
  PROVE  /\ MembersOf(c) \in SUBSET Members /\ IsFiniteSet(MembersOf(c))
         /\ Contributors(c) \in SUBSET MembersOf(c) /\ IsFiniteSet(Contributors(c))
         /\ Cardinality(Contributors(c)) \in Nat
<1>1. MembersOf(c) \in SUBSET Members /\ Contributors(c) \in SUBSET MembersOf(c)
  BY DEF MembersOf, Contributors
<1>2. IsFiniteSet(MembersOf(c))
  BY <1>1, FS_Subset, DividendAssumption
<1>3. IsFiniteSet(Contributors(c))
  BY <1>1, <1>2, FS_Subset
<1> QED BY <1>1, <1>2, <1>3, FS_CardinalityType

\* The days of a company are those of its contributors.
LEMMA DaysOfContributors ==
  ASSUME days \in [Members -> Nat], NEW c
  PROVE  /\ TotalDays(c) \in Nat /\ TotalDays(c) = SumFunctionOnSet(days, Contributors(c))
         /\ \A u \in Contributors(c) : days[u] \in Nat /\ 0 < days[u] /\ days[u] <= TotalDays(c)
<1>1. \A u \in MembersOf(c) : days[u] \in Nat
  BY MembersFinite
<1>2. TotalDays(c) \in Nat /\ \A u \in MembersOf(c) : days[u] <= TotalDays(c)
  BY <1>1, MembersFinite, SumOfNaturals DEF TotalDays
<1>3. \A u \in MembersOf(c) \ Contributors(c) : days[u] = 0
  BY <1>1 DEF Contributors
<1>4. TotalDays(c) = SumFunctionOnSet(days, Contributors(c))
  BY <1>1, <1>3, MembersFinite, SumOfPart DEF TotalDays, IntOn
<1> QED BY <1>1, <1>2, <1>4 DEF Contributors

\* Who comes before u in the list of contributors.
Before(u, c) ==
  {v \in Contributors(c) : days[v] > days[u] \/ (days[v] = days[u] /\ v < u)}

\* The list has a first.
LEMMA TopStakeExists ==
  ASSUME days \in [Members -> Nat], NEW c, Contributors(c) # {}
  PROVE  /\ TopStake(c) \in Contributors(c)
         /\ \A v \in Contributors(c) : days[v] <= days[TopStake(c)]
<1> DEFINE C == Contributors(c)
           T == {Before(u, c) : u \in C}
<1>1. T \in SUBSET SUBSET C /\ T # {}
  BY DEF Before
<1>2. \A u \in C : days[u] \in Nat /\ u \in Nat
  BY MembersFinite, DividendAssumption
<1>3. \E t \in T : \A s \in T : s \subseteq t => s = t
  <2> HIDE DEF T, C
  <2> QED BY <1>1, MembersFinite, MinimalSubset DEF C
<1>4. PICK u \in C : \A v \in C : Before(v, c) \subseteq Before(u, c) => Before(v, c) = Before(u, c)
  BY <1>3
<1>5. ASSUME NEW v \in Before(u, c) PROVE FALSE
  <2>1. v \in C /\ (days[v] > days[u] \/ (days[v] = days[u] /\ v < u))
    BY DEF Before
  <2>2. \A w \in Before(v, c) : w \in Before(u, c)
    BY <1>2, <2>1 DEF Before
  <2>3. v \notin Before(v, c)
    BY <1>2, <2>1 DEF Before
  <2> QED BY <1>4, <2>1, <2>2, <2>3
<1>6. \A v \in C : days[u] > days[v] \/ (days[u] = days[v] /\ u <= v)
  BY <1>2, <1>5 DEF Before
<1>7. /\ TopStake(c) \in C
      /\ \A v \in C : days[TopStake(c)] > days[v] \/ (days[TopStake(c)] = days[v] /\ TopStake(c) <= v)
  BY <1>6 DEF TopStake
<1> QED BY <1>2, <1>7

\* The parts, rounded down, of e points.
Floors(c, e) == [u \in Contributors(c) |-> FloorShare(c, e, u)]

\* A part is the member's proportion, less than a point short of it.
LEMMA FloorFacts ==
  ASSUME days \in [Members -> Nat], NEW c, NEW e \in Nat, NEW u \in Contributors(c)
  PROVE  /\ FloorShare(c, e, u) \in Nat /\ TotalDays(c) > 0
         /\ FloorShare(c, e, u) * TotalDays(c) <= e * days[u]
         /\ e * days[u] <= FloorShare(c, e, u) * TotalDays(c) + (TotalDays(c) - 1)
<1>1. days[u] \in Nat /\ TotalDays(c) \in Nat /\ TotalDays(c) > 0
  BY DaysOfContributors
<1>2. e * days[u] \in Nat
  BY <1>1
<1> QED BY <1>1, <1>2, DivisionFacts DEF FloorShare

\* Rounding leaves less than a point for each contributor.
LEMMA RemainderFacts ==
  ASSUME days \in [Members -> Nat], NEW c, NEW e \in Nat, Contributors(c) # {}
  PROVE  /\ SumFunctionOnSet(Floors(c, e), Contributors(c)) \in Nat
         /\ Remainder(c, e) = e - SumFunctionOnSet(Floors(c, e), Contributors(c))
         /\ Remainder(c, e) \in Nat /\ Remainder(c, e) < Cardinality(Contributors(c))
<1> DEFINE C == Contributors(c)
           T == TotalDays(c)
           f == Floors(c, e)
           lower == [u \in C |-> T * f[u]]
           exact == [u \in C |-> e * days[u]]
           one == [u \in C |-> 1]
           slack == [u \in C |-> (T - 1) * one[u]]
           upper == [u \in C |-> lower[u] + slack[u]]
           s == SumFunctionOnSet(f, C)
           n == Cardinality(C)
<1>1. /\ T \in Nat /\ T > 0 /\ T = SumFunctionOnSet(days, C)
      /\ \A u \in C : days[u] \in Nat
  BY DaysOfContributors
<1>2. \A u \in C : /\ f[u] \in Nat /\ T * f[u] <= e * days[u]
                   /\ e * days[u] <= T * f[u] + (T - 1)
  <2>1. ASSUME NEW u \in C
        PROVE  /\ f[u] \in Nat /\ f[u] * T <= e * days[u]
               /\ e * days[u] <= f[u] * T + (T - 1)
    BY FloorFacts DEF Floors
  <2>2. ASSUME NEW u \in C PROVE f[u] * T = T * f[u]
    BY <1>1, <2>1
  <2> HIDE DEF f, T
  <2> QED BY <1>1, <2>1, <2>2
<1>3. IsFiniteSet(C) /\ n \in Nat /\ n > 0
  <2>1. IsFiniteSet(C) /\ n \in Nat
    BY MembersFinite
  <2> HIDE DEF C
  <2> QED BY <2>1, FS_EmptySet DEF C
<1>4. Remainder(c, e) = e - s
  BY DEF Remainder, SumFunction, Floors
<1> HIDE DEF C, T, f
<1>5. IntOn(f, C) /\ IntOn(lower, C) /\ IntOn(exact, C) /\ IntOn(one, C) /\ IntOn(slack, C)
      /\ IntOn(upper, C) /\ IntOn(days, C)
  BY <1>1, <1>2 DEF IntOn
<1>6. s \in Nat
  BY <1>2, <1>3, SumOfNaturals
<1>7. SumFunctionOnSet(lower, C) = T * s
  BY <1>1, <1>3, <1>5, SumScale
<1>8. SumFunctionOnSet(exact, C) = e * T
  BY <1>1, <1>3, <1>5, SumScale
<1>9. SumFunctionOnSet(one, C) = n
  BY <1>3, SumOfOnes
<1>10. SumFunctionOnSet(slack, C) = (T - 1) * n
  <2>1. T - 1 \in Int
    BY <1>1
  <2> HIDE DEF one
  <2> QED BY <1>3, <1>5, <1>9, <2>1, SumScale
<1>11. SumFunctionOnSet(upper, C) = T * s + (T - 1) * n
  <2> HIDE DEF lower, slack
  <2> QED BY <1>3, <1>5, <1>7, <1>10, SumAdd
<1>12. T * s <= e * T
  BY <1>2, <1>3, <1>5, <1>7, <1>8, SumMonotone
<1>13. e * T <= T * s + (T - 1) * n
  <2>1. ASSUME NEW u \in C PROVE exact[u] <= upper[u]
    <3>1. lower[u] = T * f[u] /\ slack[u] = T - 1 /\ exact[u] = e * days[u]
      BY <1>1
    <3>2. upper[u] = lower[u] + slack[u]
      OBVIOUS
    <3> HIDE DEF lower, slack, exact, upper
    <3> QED BY <1>2, <3>1, <3>2
  <2> HIDE DEF exact, upper
  <2> QED BY <1>3, <1>5, <1>8, <1>11, <2>1, SumMonotone
<1> HIDE DEF s, n
<1>14. s <= e
  BY <1>1, <1>6, <1>12
<1>15. e - s < n
  <2>1. (e - s) * T <= (T - 1) * n /\ (T - 1) * n < n * T
    BY <1>1, <1>3, <1>6, <1>13
  <2> QED BY <1>1, <1>3, <1>6, <2>1
<1> QED BY <1>4, <1>6, <1>14, <1>15 DEF s, n, f, C

\* The shares of e points are whole and add up to e.
LEMMA SharesFacts ==
  ASSUME days \in [Members -> Nat], NEW c, NEW e \in Nat, Contributors(c) # {}
  PROVE  /\ Shares(c, e) \in [Contributors(c) -> Nat]
         /\ SumFunctionOnSet(Shares(c, e), Contributors(c)) = e
<1> DEFINE C == Contributors(c)
           f == Floors(c, e)
           g == Shares(c, e)
           t == TopStake(c)
           r == Remainder(c, e)
<1>1. t \in C /\ IsFiniteSet(C) /\ \A u \in C : f[u] \in Nat
  BY TopStakeExists, MembersFinite, FloorFacts DEF Floors
<1>2. /\ r \in Nat /\ SumFunctionOnSet(f, C) \in Nat
      /\ r = e - SumFunctionOnSet(f, C)
  BY RemainderFacts
<1>3. \A u \in C : g[u] = f[u] + (IF u = t THEN r ELSE 0)
  BY DEF Shares, Floors
<1>4. g = [u \in C |-> g[u]]
  BY DEF Shares
<1> HIDE DEF C, f, g, t, r
<1>5. \A u \in C : g[u] \in Nat
  BY <1>1, <1>2, <1>3
<1>6. g \in [C -> Nat]
  BY <1>4, <1>5
<1>7. IntOn(f, C) /\ IntOn(g, C) /\ \A u \in C \ {t} : g[u] = f[u]
  BY <1>1, <1>3, <1>5 DEF IntOn
<1>8. SumFunctionOnSet(g, C) = SumFunctionOnSet(f, C) - f[t] + g[t]
  BY <1>1, <1>7, SumChange
<1>9. g[t] = f[t] + r /\ f[t] \in Nat
  BY <1>1, <1>3
<1> QED BY <1>2, <1>6, <1>8, <1>9 DEF g, C
-----------------------------------------------------------------------------
(* The types, and what a run that pays is about to pay.                    *)

Shareouts == {<<>>} \cup UNION {[S -> Nat] : S \in SUBSET Members}

Runs == [todo: SUBSET Companies, seen: SUBSET Queries, escrow: Int, settled: BOOLEAN,
         share: Shareouts, phase: {"idle", "reading", "paying"}]

Least(S) == CHOOSE c \in S : \A d \in S : c <= d

\* A run that pays has the shares of what it read.
Planned(h) ==
  run[h].phase = "paying" =>
    /\ run[h].escrow \in Nat
    /\ \A c, e : c = Least(run[h].todo) /\ e = run[h].escrow =>
         Contributors(c) # {} /\ run[h].share = Shares(c, e)

RunInv == run \in [Handlers -> Runs] /\ \A h \in Handlers : Planned(h)

DividendInv == TypeOK /\ RunInv /\ WalletsFollowLedger

\* The days of a year that is settled do not change any more.
LEMMA DaysKept ==
  ASSUME UNCHANGED days, NEW c, NEW e
  PROVE  /\ Shares(c, e)' = Shares(c, e) /\ Contributors(c)' = Contributors(c)
         /\ TotalDays(c)' = TotalDays(c)
<1>1. \A u : FloorShare(c, e, u)' = FloorShare(c, e, u)
  BY DEF FloorShare, TotalDays
<1>2. Contributors(c)' = Contributors(c) /\ TopStake(c)' = TopStake(c)
  BY DEF Contributors, TopStake
<1> QED BY DEF Shares, Remainder, FloorShare, TotalDays, TopStake, Contributors

\* The next company of a run, or its end, has nothing planned.
LEMMA NextCompanyType ==
  ASSUME RunInv, NEW h \in Handlers
  PROVE  /\ NoRun \in Runs /\ NoRun.phase = "idle"
         /\ NextCompany(h) \in Runs /\ NextCompany(h).phase \in {"idle", "reading"}
         /\ NextCompany(h).seen = {} /\ NextCompany(h).escrow = 0 /\ NextCompany(h).settled = FALSE
<1>1. NoRun \in Runs
  BY DEF NoRun, Runs, Shareouts
<1>2. run[h].todo \in SUBSET Companies
  BY DEF RunInv, Runs
<1>3. \A S \in SUBSET Companies : [NoRun EXCEPT !.todo = S, !.phase = "reading"] \in Runs
  BY <1>1 DEF Runs
<1> QED BY <1>1, <1>2, <1>3 DEF NextCompany, NoRun

\* What a step of one run must show.
LEMMA RunKept ==
  ASSUME RunInv, UNCHANGED days, NEW h \in Handlers, NEW r \in Runs,
         run' = [run EXCEPT ![h] = r],
         r.phase = "paying" =>
           /\ r.escrow \in Nat
           /\ \A c, e : c = Least(r.todo) /\ e = r.escrow =>
                Contributors(c) # {} /\ r.share = Shares(c, e)
  PROVE  RunInv'
<1>1. run' \in [Handlers -> Runs]
  BY DEF RunInv
<1>2. \A i \in Handlers : run'[i] = IF i = h THEN r ELSE run[i]
  BY DEF RunInv
<1>3. ASSUME NEW i \in Handlers PROVE Planned(i)'
  <2>1. CASE i = h
    BY <1>2, <2>1, DaysKept DEF Planned
  <2>2. CASE i # h
    BY <1>2, <2>2, DaysKept DEF Planned, RunInv
  <2> QED BY <2>1, <2>2
<1> QED BY <1>1, <1>3 DEF RunInv

\* One query of a run.
LEMMA QueryRun ==
  ASSUME TypeOK, RunInv, NEW h \in Handlers, NEW q \in Queries, Query(h, q)
  PROVE  \E r \in Runs :
           /\ run' = [run EXCEPT ![h] = r]
           /\ r.phase = "reading" /\ r.todo = run[h].todo /\ r.seen = run[h].seen \cup {q}
           /\ r.escrow = CASE q = "bids" -> run[h].escrow + SumFunctionOnSet(bid, MembersOf(Least(r.todo)))
                           [] q = "returned" -> run[h].escrow
                                                - SumFunctionOnSet(back, MembersOf(Least(r.todo)))
                                                - SumFunctionOnSet(paid, MembersOf(Least(r.todo)))
                           [] q = "dividends" -> run[h].escrow
           /\ r.settled = IF q = "dividends" THEN \E u \in MembersOf(Least(r.todo)) : paid[u] > 0
                          ELSE run[h].settled
<1> DEFINE c == Current(h)
           e == CASE q = "bids" -> run[h].escrow + SumFunctionOnSet(bid, MembersOf(c))
                  [] q = "returned" -> run[h].escrow - SumFunctionOnSet(back, MembersOf(c))
                                                     - SumFunctionOnSet(paid, MembersOf(c))
                  [] q = "dividends" -> run[h].escrow
           s == IF q = "dividends" THEN \E u \in MembersOf(c) : paid[u] > 0 ELSE run[h].settled
           r == [run[h] EXCEPT !.seen = run[h].seen \cup {q}, !.escrow = e, !.settled = s]
<1>1. run[h] \in Runs /\ run \in [Handlers -> Runs] /\ run[h].phase = "reading"
  BY DEF RunInv, Query
<1>2. c = Least(run[h].todo)
  BY DEF Current, Least
<1>3. /\ SumFunctionOnSet(bid, MembersOf(c)) \in Int /\ SumFunctionOnSet(back, MembersOf(c)) \in Int
      /\ SumFunctionOnSet(paid, MembersOf(c)) \in Int
  <2>1. IntOn(bid, MembersOf(c)) /\ IntOn(back, MembersOf(c)) /\ IntOn(paid, MembersOf(c))
    BY MembersFinite DEF IntOn, TypeOK
  <2> HIDE DEF c
  <2> QED BY <2>1, MembersFinite, SumType
<1>4. run' = [run EXCEPT ![h] = r]
  <2>1. run' = [run EXCEPT ![h].seen = run[h].seen \cup {q}, ![h].escrow = e, ![h].settled = s]
    BY <1>1 DEF Query
  <2> HIDE DEF e, s
  <2> QED BY <1>1, <2>1
<1> HIDE DEF c
<1>5. e \in Int
  <2>1. run[h].escrow \in Int
    BY <1>1 DEF Runs
  <2>2. CASE q = "bids"
    BY <1>3, <2>1, <2>2
  <2>3. CASE q = "returned"
    BY <1>3, <2>1, <2>3
  <2>4. CASE q = "dividends"
    BY <1>3, <2>1, <2>4
  <2> QED BY <2>2, <2>3, <2>4 DEF Queries
<1>s. s \in BOOLEAN
  BY <1>1 DEF Runs
<1> HIDE DEF e, s
<1>6. /\ r \in Runs /\ r.phase = "reading" /\ r.todo = run[h].todo /\ r.escrow = e
      /\ r.settled = s /\ r.seen = run[h].seen \cup {q}
  BY <1>1, <1>5, <1>s DEF Runs
<1> HIDE DEF r
<1> QED BY <1>2, <1>4, <1>6 DEF e, s
\* A decision plans the shares of what was read, or turns to the next company.
LEMMA DecideRun ==
  ASSUME DividendInv, NEW h \in Handlers, Decide(h)
  PROVE  \E r \in Runs :
           /\ run' = [run EXCEPT ![h] = r]
           /\ \/ r = NextCompany(h)
              \/ /\ r.phase = "paying" /\ r.todo = run[h].todo
                 /\ r.escrow = run[h].escrow /\ r.escrow \in Nat /\ ~ run[h].settled
                 /\ Contributors(Least(r.todo)) # {}
                 /\ r.share = Shares(Least(r.todo), r.escrow)
<1> DEFINE c == Current(h)
           s == Shares(c, run[h].escrow)
           r == [run[h] EXCEPT !.share = s, !.phase = "paying"]
<1>1. run[h] \in Runs /\ run \in [Handlers -> Runs] /\ c = Least(run[h].todo)
  BY DEF DividendInv, RunInv, Current, Least
<1>2. CASE Refuses(h) \/ NothingToPay(h)
  BY <1>2, NextCompanyType DEF Decide, AfterConflict, DividendInv
<1>3. CASE ~ (Refuses(h) \/ NothingToPay(h))
  <2>1. Contributors(c) # {} /\ run[h].escrow \in Nat /\ ~ run[h].settled
    BY <1>1, <1>3 DEF NothingToPay, Refuses, Runs
  <2>2. s \in [Contributors(c) -> Nat]
    BY <2>1, SharesFacts, DividendAssumption DEF DividendInv, TypeOK
  <2>3. s \in Shareouts
    BY <2>2, MembersFinite DEF Shareouts
  <2>4. run' = [run EXCEPT ![h] = r]
    BY <1>1, <1>3 DEF Decide
  <2> HIDE DEF s
  <2>5. r \in Runs /\ r.phase = "paying" /\ r.todo = run[h].todo /\ r.escrow = run[h].escrow
        /\ r.share = s
    BY <1>1, <2>3 DEF Runs
  <2> HIDE DEF r, c
  <2> QED BY <1>1, <2>1, <2>4, <2>5 DEF s
<1> QED BY <1>2, <1>3

\* A payout pays what was planned.
LEMMA PayShares ==
  ASSUME DividendInv, NEW h \in Handlers, Pay(h)
  PROVE  LET c == Least(run[h].todo)
             share == Shares(c, run[h].escrow) IN
         /\ run[h].escrow \in Nat /\ Contributors(c) # {}
         /\ share \in [Contributors(c) -> Nat]
         /\ SumFunctionOnSet(share, Contributors(c)) = run[h].escrow
         /\ wallet' = [u \in Members |-> IF u \in Contributors(c) THEN wallet[u] + share[u]
                                         ELSE wallet[u]]
         /\ paid' = [u \in Members |-> IF u \in Contributors(c) THEN paid[u] + share[u]
                                       ELSE paid[u]]
         /\ run' = [run EXCEPT ![h] = NextCompany(h)]
<1> DEFINE c == Least(run[h].todo)
           share == Shares(c, run[h].escrow)
<1>1. /\ run[h].escrow \in Nat /\ Contributors(c) # {} /\ run[h].share = share
  BY DEF Pay, DividendInv, RunInv, Planned
<1>2. share \in [Contributors(c) -> Nat]
      /\ SumFunctionOnSet(share, Contributors(c)) = run[h].escrow
  BY <1>1, SharesFacts, DividendAssumption DEF DividendInv, TypeOK
<1> HIDE DEF share, c
<1>3. DOMAIN run[h].share = Contributors(c)
  BY <1>1, <1>2
<1> QED BY <1>1, <1>2, <1>3 DEF Pay, Credited, share, c

\* A bid debits the bidder and refunds the leader before (place-bid.use-case.ts).
LEMMA BidKeepsLedger ==
  ASSUME DividendInv, NEW u \in Members, NEW c \in Companies, NEW x \in Nat, PlaceBid(u, c, x)
  PROVE  TypeOK' /\ WalletsFollowLedger'
<1> DEFINE leader == lot[c].leader
           price == lot[c].price
<1>1. /\ leader \in Members \cup {NoLeader} /\ price \in Nat /\ leader # u
      /\ x <= wallet[u] /\ lot' = [lot EXCEPT ![c] = [leader |-> u, price |-> x]]
      /\ wallet \in [Members -> Nat] /\ bid \in [Members -> Nat] /\ back \in [Members -> Nat]
      /\ paid \in [Members -> Nat] /\ InitialBalance \in [Members -> Nat]
  BY DividendAssumption DEF PlaceBid, Affords, DividendInv, TypeOK
<1>2. /\ wallet' = [v \in Members |-> IF v = u THEN wallet[v] - x
                                      ELSE IF v = leader THEN wallet[v] + price ELSE wallet[v]]
      /\ bid' = [bid EXCEPT ![u] = bid[u] + x]
      /\ back' = IF leader = NoLeader THEN back ELSE [back EXCEPT ![leader] = back[leader] + price]
      /\ UNCHANGED <<paid, days, run, aborts>>
  BY DEF PlaceBid
<1> HIDE DEF leader, price
<1>3. wallet' \in [Members -> Nat] /\ bid' \in [Members -> Nat] /\ back' \in [Members -> Nat]
  BY <1>1, <1>2
<1>4. lot' \in [Companies -> [leader: Members \cup {NoLeader}, price: Nat]]
  BY <1>1 DEF DividendInv, TypeOK
<1>5. bids' \in 0..MaxBids
  BY DividendAssumption DEF PlaceBid, DividendInv, TypeOK
<1>6. TypeOK'
  BY <1>2, <1>3, <1>4, <1>5 DEF DividendInv, TypeOK
<1>7. \A v \in Members : back'[v] = IF v = leader THEN back[v] + price ELSE back[v]
  BY <1>1, <1>2, DividendAssumption
<1>8. ASSUME NEW v \in Members
      PROVE  wallet'[v] = InitialBalance[v] - bid'[v] + back'[v] + paid'[v]
  <2>1. wallet[v] = InitialBalance[v] - bid[v] + back[v] + paid[v]
    BY DEF DividendInv, WalletsFollowLedger
  <2>2. /\ wallet[v] \in Nat /\ bid[v] \in Nat /\ back[v] \in Nat /\ paid[v] \in Nat
        /\ InitialBalance[v] \in Nat /\ paid'[v] = paid[v]
    BY <1>1, <1>2
  <2>3. CASE v = u
    <3>1. wallet'[v] = wallet[v] - x /\ bid'[v] = bid[v] + x /\ back'[v] = back[v]
      BY <1>1, <1>2, <1>7, <2>3
    <3> QED BY <2>1, <2>2, <3>1
  <2>4. CASE v = leader
    <3>1. wallet'[v] = wallet[v] + price /\ bid'[v] = bid[v] /\ back'[v] = back[v] + price
      BY <1>1, <1>2, <1>7, <2>4
    <3> QED BY <1>1, <2>1, <2>2, <3>1
  <2>5. CASE v # u /\ v # leader
    <3>1. wallet'[v] = wallet[v] /\ bid'[v] = bid[v] /\ back'[v] = back[v]
      BY <1>1, <1>2, <1>7, <2>5
    <3> QED BY <2>1, <2>2, <3>1
  <2> QED BY <2>3, <2>4, <2>5
<1> QED BY <1>6, <1>8 DEF WalletsFollowLedger

\* Every step keeps the types, the plans and the ledger, whichever runs overtake each other.
LEMMA DividendNext == DividendInv /\ [Next]_vars => DividendInv'
<1> SUFFICES ASSUME DividendInv, [Next]_vars PROVE DividendInv'
  OBVIOUS
<1> USE DEF auctions
<1>r. run \in [Handlers -> Runs] /\ RunInv /\ TypeOK /\ WalletsFollowLedger
  BY DEF DividendInv, RunInv
<1>1. ASSUME NEW u \in Members, NEW c \in Companies, NEW x \in 1..MaxPrice, PlaceBid(u, c, x)
      PROVE  DividendInv'
  <2>1. TypeOK' /\ WalletsFollowLedger'
    BY <1>1, BidKeepsLedger, DividendAssumption
  <2>2. UNCHANGED <<run, days>>
    BY <1>1 DEF PlaceBid
  <2>3. RunInv'
    BY <1>r, <2>2, DaysKept DEF RunInv, Planned
  <2> QED BY <2>1, <2>3 DEF DividendInv
<1>2. ASSUME UNCHANGED <<wallet, bid, back, paid, days, run, bids, aborts>>,
             lot' \in [Companies -> [leader: Members \cup {NoLeader}, price: Nat]]
      PROVE  DividendInv'
  <2>1. RunInv'
    BY <1>r, <1>2, DaysKept DEF RunInv, Planned
  <2> QED BY <1>2, <2>1 DEF DividendInv, TypeOK, WalletsFollowLedger
<1>3. ASSUME NEW c \in Companies, SettleLot(c) PROVE DividendInv'
  BY <1>2, <1>3, <1>r DEF SettleLot, TypeOK
<1>4. ASSUME NEW h \in Handlers, NEW r \in Runs, run' = [run EXCEPT ![h] = r],
             UNCHANGED <<wallet, auctions, paid, days>>, aborts' \in 0..MaxAborts,
             r.phase = "paying" =>
               /\ r.escrow \in Nat
               /\ \A c, e : c = Least(r.todo) /\ e = r.escrow =>
                    Contributors(c) # {} /\ r.share = Shares(c, e)
      PROVE  DividendInv'
  <2>1. RunInv'
    BY <1>4, <1>r, RunKept
  <2>2. \A i \in Handlers : run'[i].todo \subseteq Companies /\ run'[i].seen \subseteq Queries
    BY <2>1 DEF RunInv, Runs
  <2> QED BY <1>4, <2>1, <2>2 DEF DividendInv, TypeOK, WalletsFollowLedger
<1>5. ASSUME NEW h \in Handlers, NEW S \in SUBSET Companies, Start(h, S) PROVE DividendInv'
  <2> DEFINE r == [NoRun EXCEPT !.todo = S, !.phase = "reading"]
  <2>1. r \in Runs /\ r.phase = "reading"
    BY NextCompanyType, <1>r DEF Runs
  <2>2. run' = [run EXCEPT ![h] = r] /\ UNCHANGED <<wallet, auctions, paid, days>>
        /\ aborts' \in 0..MaxAborts
    BY <1>5 DEF Start, DividendInv, TypeOK
  <2> HIDE DEF r
  <2> QED BY <1>4, <2>1, <2>2
<1>6. ASSUME NEW h \in Handlers, NEW q \in Queries, Query(h, q) PROVE DividendInv'
  <2>1. PICK r \in Runs : run' = [run EXCEPT ![h] = r] /\ r.phase = "reading"
    BY <1>6, <1>r, QueryRun
  <2>2. UNCHANGED <<wallet, auctions, paid, days>> /\ aborts' \in 0..MaxAborts
    BY <1>6 DEF Query, DividendInv, TypeOK
  <2> QED BY <1>4, <2>1, <2>2
<1>7. ASSUME NEW h \in Handlers, Decide(h) PROVE DividendInv'
  <2>1. PICK r \in Runs :
          /\ run' = [run EXCEPT ![h] = r]
          /\ \/ r = NextCompany(h)
             \/ /\ r.phase = "paying" /\ r.escrow \in Nat
                /\ Contributors(Least(r.todo)) # {}
                /\ r.share = Shares(Least(r.todo), r.escrow)
    BY <1>7, DecideRun
  <2>2. UNCHANGED <<wallet, auctions, paid, days>> /\ aborts' \in 0..MaxAborts
    BY <1>7 DEF Decide, DividendInv, TypeOK
  <2>3. NextCompany(h).phase # "paying"
    BY <1>r, NextCompanyType
  <2> QED BY <1>4, <2>1, <2>2, <2>3
<1>8. ASSUME NEW h \in Handlers, Pay(h) PROVE DividendInv'
  <2> DEFINE C == Contributors(Least(run[h].todo))
             share == Shares(Least(run[h].todo), run[h].escrow)
  <2>1. /\ share \in [C -> Nat]
        /\ wallet' = [u \in Members |-> IF u \in C THEN wallet[u] + share[u] ELSE wallet[u]]
        /\ paid' = [u \in Members |-> IF u \in C THEN paid[u] + share[u] ELSE paid[u]]
        /\ run' = [run EXCEPT ![h] = NextCompany(h)]
    BY <1>8, PayShares
  <2>2. UNCHANGED <<auctions, days, aborts>>
    BY <1>8 DEF Pay
  <2>3. NextCompany(h) \in Runs /\ NextCompany(h).phase # "paying"
    BY <1>r, NextCompanyType
  <2>4. RunInv'
    BY <1>r, <2>1, <2>2, <2>3, RunKept
  <2> HIDE DEF C, share
  <2>5. wallet' \in [Members -> Nat] /\ paid' \in [Members -> Nat]
    BY <1>r, <2>1 DEF TypeOK
  <2>6. \A i \in Handlers : run'[i].todo \subseteq Companies /\ run'[i].seen \subseteq Queries
    BY <2>4 DEF RunInv, Runs
  <2>7. TypeOK'
    BY <1>r, <2>2, <2>5, <2>6 DEF TypeOK
  <2>8. ASSUME NEW u \in Members
        PROVE  wallet'[u] = InitialBalance[u] - bid'[u] + back'[u] + paid'[u]
    <3>1. wallet[u] = InitialBalance[u] - bid[u] + back[u] + paid[u]
      BY <1>r DEF WalletsFollowLedger
    <3>2. /\ wallet[u] \in Nat /\ bid[u] \in Nat /\ back[u] \in Nat /\ paid[u] \in Nat
          /\ InitialBalance[u] \in Nat /\ bid'[u] = bid[u] /\ back'[u] = back[u]
      BY <1>r, <2>2, DividendAssumption DEF TypeOK
    <3>3. CASE u \in C
      <4>1. wallet'[u] = wallet[u] + share[u] /\ paid'[u] = paid[u] + share[u] /\ share[u] \in Nat
        BY <2>1, <3>3
      <4> QED BY <3>1, <3>2, <4>1
    <3>4. CASE u \notin C
      BY <2>1, <3>1, <3>2, <3>4
    <3> QED BY <3>3, <3>4
  <2> QED BY <2>4, <2>7, <2>8 DEF DividendInv, WalletsFollowLedger
<1>9. ASSUME NEW h \in Handlers, Abort(h) PROVE DividendInv'
  <2>1. /\ run' = [run EXCEPT ![h] = NoRun] /\ UNCHANGED <<wallet, auctions, paid, days>>
        /\ aborts' \in 0..MaxAborts
    BY <1>9, DividendAssumption DEF Abort, DividendInv, TypeOK
  <2>2. NoRun \in Runs /\ NoRun.phase # "paying"
    BY <1>r, <1>9, NextCompanyType
  <2> QED BY <1>4, <2>1, <2>2
<1>10. CASE UNCHANGED vars
  BY <1>2, <1>10, <1>r DEF vars, TypeOK
<1>11. \A c \in Companies : {c} \in SUBSET Companies
  OBVIOUS
<1> QED BY <1>1, <1>3, <1>5, <1>6, <1>7, <1>8, <1>9, <1>10, <1>11 DEF Next, Work, Handlers

\* The model starts with no run, and a ledger that says nothing.
LEMMA DividendInit == Init => DividendInv
<1> SUFFICES ASSUME Init PROVE DividendInv
  OBVIOUS
<1>1. NoRun \in Runs /\ NoRun.phase = "idle" /\ run = [h \in Handlers |-> NoRun]
  BY DEF NoRun, Runs, Shareouts, Init
<1>2. RunInv
  BY <1>1 DEF RunInv, Planned
<1>3. TypeOK
  <2>1. \A h \in Handlers : run[h].todo \subseteq Companies /\ run[h].seen \subseteq Queries
    BY <1>2 DEF RunInv, Runs
  <2> QED BY <2>1, DividendAssumption DEF Init, TypeOK
<1>4. WalletsFollowLedger
  BY DividendAssumption DEF Init, WalletsFollowLedger
<1> QED BY <1>2, <1>3, <1>4 DEF DividendInv

\* What holds whichever runs and bids overtake each other.
THEOREM DividendInvariant == Spec => []DividendInv
<1> QED BY DividendInit, DividendNext, PTL DEF Spec

\* The variables keep their types: no share is negative or a fraction, no bid overdraws a wallet.
THEOREM TypeCorrect == Spec => []TypeOK
<1> QED BY DividendInvariant, PTL DEF DividendInv

\* In the program as it is, runs that overtake each other included, every point a wallet gains
\* or loses is in the ledger (welfare-point.provider.ts).
THEOREM LedgerFollowed == Spec => []WalletsFollowLedger
<1> QED BY DividendInvariant, PTL DEF DividendInv
-----------------------------------------------------------------------------
(* A run that has the ledger to itself.                                    *)

Bids(c) == SumFunctionOnSet(bid, MembersOf(c))
Backs(c) == SumFunctionOnSet(back, MembersOf(c))

\* The entries of a company have sums.
LEMMA EntriesType ==
  ASSUME TypeOK, NEW c
  PROVE  /\ Bids(c) \in Int /\ Backs(c) \in Int /\ Paid(c) \in Nat
         /\ Escrow(c) = Bids(c) - Backs(c) - Paid(c) /\ Escrow(c) \in Int
         /\ \A u \in MembersOf(c) : paid[u] \in Nat
<1>1. IntOn(bid, MembersOf(c)) /\ IntOn(back, MembersOf(c))
      /\ \A u \in MembersOf(c) : paid[u] \in Nat
  BY MembersFinite DEF IntOn, TypeOK
<1>2. Bids(c) \in Int /\ Backs(c) \in Int /\ Paid(c) \in Nat
  BY <1>1, MembersFinite, SumType, SumOfNaturals DEF Bids, Backs, Paid
<1>3. Escrow(c) = Bids(c) - Backs(c) - Paid(c)
  BY DEF Escrow, EscrowOf, Bids, Backs, Paid
<1> QED BY <1>1, <1>2, <1>3

\* What was read so far is what the ledger still says.
ReadAlone(r) ==
  \A c : c = Least(r.todo) =>
    /\ r.escrow = (IF "bids" \in r.seen THEN Bids(c) ELSE 0)
                  - (IF "returned" \in r.seen THEN Backs(c) + Paid(c) ELSE 0)
    /\ "dividends" \in r.seen => (r.settled <=> \E u \in MembersOf(c) : paid[u] > 0)

\* What is about to be paid is the escrow of a company that was not paid yet.
PayAlone(r) ==
  \A c : c = Least(r.todo) => r.escrow = Escrow(c) /\ \A u \in MembersOf(c) : paid[u] = 0

AloneInv ==
  /\ \A h, i \in Handlers : Busy(h) /\ Busy(i) => h = i
  /\ \A h \in Handlers : /\ run[h].phase = "reading" => ReadAlone(run[h])
                         /\ run[h].phase = "paying" => PayAlone(run[h])

\* What a step of the only run must show.
LEMMA AloneKept ==
  ASSUME RunInv, AloneInv, Alone, NEW h \in Handlers, NEW r \in Runs,
         run' = [run EXCEPT ![h] = r], Busy(h) \/ r.phase # "idle",
         r.phase = "reading" => ReadAlone(r)', r.phase = "paying" => PayAlone(r)'
  PROVE  AloneInv'
<1>1. \A i \in Handlers : run'[i] = IF i = h THEN r ELSE run[i]
  BY DEF RunInv
<1>2. \A i, j \in Handlers : Busy(i)' /\ Busy(j)' => i = j
  BY DEF Alone
<1>3. ASSUME NEW i \in Handlers, i # h PROVE run'[i].phase = "idle"
  <2>1. CASE Busy(h)
    BY <1>1, <1>3, <2>1 DEF AloneInv, Busy
  <2>2. CASE r.phase # "idle"
    BY <1>1, <1>2, <1>3, <2>2 DEF Busy
  <2> QED BY <2>1, <2>2
<1>4. ASSUME NEW i \in Handlers
      PROVE  /\ run'[i].phase = "reading" => ReadAlone(run[i])'
             /\ run'[i].phase = "paying" => PayAlone(run[i])'
  <2>1. CASE i = h
    BY <1>1, <2>1 DEF ReadAlone, PayAlone
  <2>2. CASE i # h
    BY <1>3, <2>2
  <2> QED BY <2>1, <2>2
<1> QED BY <1>2, <1>4 DEF AloneInv

\* A run that has read nothing has misread nothing.
LEMMA UnreadAlone ==
  ASSUME NEW r, r.seen = {}, r.escrow = 0
  PROVE  ReadAlone(r)'
BY DEF ReadAlone

\* A query adds what the ledger says.
LEMMA QueryAlone ==
  ASSUME DividendInv, AloneInv, NEW h \in Handlers, NEW q \in Queries, Query(h, q), Alone
  PROVE  AloneInv'
<1>1. PICK r \in Runs :
        /\ run' = [run EXCEPT ![h] = r]
        /\ r.phase = "reading" /\ r.todo = run[h].todo /\ r.seen = run[h].seen \cup {q}
        /\ r.escrow = CASE q = "bids" -> run[h].escrow + SumFunctionOnSet(bid, MembersOf(Least(r.todo)))
                        [] q = "returned" -> run[h].escrow
                                             - SumFunctionOnSet(back, MembersOf(Least(r.todo)))
                                             - SumFunctionOnSet(paid, MembersOf(Least(r.todo)))
                        [] q = "dividends" -> run[h].escrow
        /\ r.settled = IF q = "dividends" THEN \E u \in MembersOf(Least(r.todo)) : paid[u] > 0
                       ELSE run[h].settled
  BY QueryRun DEF DividendInv
<1>2. /\ run[h].phase = "reading" /\ q \notin run[h].seen /\ ReadAlone(run[h])
      /\ UNCHANGED <<bid, back, paid>>
  BY DEF Query, AloneInv, auctions
<1> DEFINE c == Least(r.todo)
           s == run[h].seen
           e == run[h].escrow
<1>3. /\ e = (IF "bids" \in s THEN Bids(c) ELSE 0) - (IF "returned" \in s THEN Backs(c) + Paid(c) ELSE 0)
      /\ "dividends" \in s => (run[h].settled <=> \E u \in MembersOf(c) : paid[u] > 0)
  BY <1>1, <1>2 DEF ReadAlone
<1>4. /\ Bids(c) \in Int /\ Backs(c) \in Int /\ Paid(c) \in Nat
  BY EntriesType DEF DividendInv
<1>5. r.escrow = CASE q = "bids" -> e + Bids(c)
                   [] q = "returned" -> e - Backs(c) - Paid(c)
                   [] q = "dividends" -> e
  BY <1>1 DEF Bids, Backs, Paid
<1>6. \A d : Bids(d)' = Bids(d) /\ Backs(d)' = Backs(d) /\ Paid(d)' = Paid(d)
  BY <1>2 DEF Bids, Backs, Paid
<1> HIDE DEF c, s, e
<1>7. r.escrow = (IF "bids" \in r.seen THEN Bids(c) ELSE 0)
                 - (IF "returned" \in r.seen THEN Backs(c) + Paid(c) ELSE 0)
  <2>1. r.seen = s \cup {q} /\ q \notin s
    BY <1>1, <1>2 DEF s
  <2>2. CASE q = "bids"
    BY <1>3, <1>4, <1>5, <2>1, <2>2
  <2>3. CASE q = "returned"
    BY <1>3, <1>4, <1>5, <2>1, <2>3
  <2>4. CASE q = "dividends"
    BY <1>3, <1>4, <1>5, <2>1, <2>4
  <2> QED BY <2>2, <2>3, <2>4 DEF Queries
<1>8. "dividends" \in r.seen => (r.settled <=> \E u \in MembersOf(c) : paid[u] > 0)
  BY <1>1, <1>3 DEF c, s
<1>9. ReadAlone(r)'
  BY <1>2, <1>6, <1>7, <1>8 DEF ReadAlone, c
<1>10. Busy(h)
  BY <1>2 DEF Busy
<1> QED BY <1>1, <1>9, <1>10, AloneKept DEF DividendInv

\* A decision to pay is about the escrow of a company that was not paid.
LEMMA DecideAlone ==
  ASSUME DividendInv, AloneInv, NEW h \in Handlers, Decide(h), Alone
  PROVE  AloneInv'
<1>1. PICK r \in Runs :
        /\ run' = [run EXCEPT ![h] = r]
        /\ \/ r = NextCompany(h)
           \/ /\ r.phase = "paying" /\ r.todo = run[h].todo
              /\ r.escrow = run[h].escrow /\ ~ run[h].settled
  BY DecideRun
<1>2. /\ run[h].phase = "reading" /\ run[h].seen = Queries /\ ReadAlone(run[h])
      /\ UNCHANGED <<bid, back, paid>> /\ Busy(h) /\ RunInv
  BY DEF Decide, AloneInv, auctions, Busy, DividendInv
<1>3. CASE r = NextCompany(h)
  <2>1. r.phase # "paying" /\ r.seen = {} /\ r.escrow = 0
    BY <1>2, <1>3, NextCompanyType
  <2>2. ReadAlone(r)'
    BY <2>1, UnreadAlone
  <2> QED BY <1>1, <1>2, <2>1, <2>2, AloneKept
<1>4. CASE r.phase = "paying" /\ r.todo = run[h].todo /\ r.escrow = run[h].escrow /\ ~ run[h].settled
  <2> DEFINE c == Least(r.todo)
  <2>1. /\ r.escrow = Bids(c) - (Backs(c) + Paid(c))
        /\ ~ \E u \in MembersOf(c) : paid[u] > 0
    BY <1>2, <1>4 DEF ReadAlone, Queries
  <2>2. r.escrow = Escrow(c) /\ \A u \in MembersOf(c) : paid[u] = 0
    BY <2>1, EntriesType DEF DividendInv
  <2>3. Escrow(c)' = Escrow(c)
    BY <1>2 DEF Escrow, EscrowOf
  <2>4. PayAlone(r)'
    BY <1>2, <2>2, <2>3 DEF PayAlone
  <2> QED BY <1>1, <1>2, <1>4, <2>4, AloneKept
<1> QED BY <1>1, <1>3, <1>4

\* A run that has the ledger to itself reads what is there, and pays what it read.
LEMMA AloneNext == DividendInv /\ AloneInv /\ [Next /\ Alone]_vars => AloneInv'
<1> SUFFICES ASSUME DividendInv, AloneInv, [Next /\ Alone]_vars PROVE AloneInv'
  OBVIOUS
<1>r. RunInv
  BY DEF DividendInv
<1>1. ASSUME UNCHANGED <<bid, back, paid, run>> PROVE AloneInv'
  <2>1. \A r : ReadAlone(r)' <=> ReadAlone(r)
    BY <1>1 DEF ReadAlone, Bids, Backs, Paid
  <2>2. \A r : PayAlone(r)' <=> PayAlone(r)
    BY <1>1 DEF PayAlone, Escrow, EscrowOf
  <2> QED BY <1>1, <2>1, <2>2 DEF AloneInv, Busy, ReadAlone, PayAlone
<1>2. ASSUME NEW u \in Members, NEW c \in Companies, NEW x \in 1..MaxPrice,
             PlaceBid(u, c, x), Alone
      PROVE  AloneInv'
  <2>1. bids' = bids + 1 /\ bids \in Nat /\ UNCHANGED run
    BY <1>2, DividendAssumption DEF PlaceBid, DividendInv, TypeOK
  <2>2. \A h \in Handlers : ~ Busy(h)
    BY <1>2, <2>1 DEF Alone, auctions
  <2>3. \A h \in Handlers : run'[h].phase = "idle"
    BY <2>1, <2>2 DEF Busy
  <2> QED BY <2>3 DEF AloneInv, Busy
<1>3. ASSUME NEW c \in Companies, SettleLot(c) PROVE AloneInv'
  BY <1>1, <1>3 DEF SettleLot
<1>4. ASSUME NEW h \in Handlers, NEW S \in SUBSET Companies, Start(h, S), Alone PROVE AloneInv'
  <2> DEFINE r == [NoRun EXCEPT !.todo = S, !.phase = "reading"]
  <2>1. r \in Runs /\ r.phase = "reading" /\ r.seen = {} /\ r.escrow = 0
    BY <1>r, NextCompanyType DEF Runs, NoRun
  <2>2. run' = [run EXCEPT ![h] = r]
    BY <1>4 DEF Start
  <2> HIDE DEF r
  <2>3. ReadAlone(r)'
    BY <2>1, UnreadAlone
  <2> QED BY <1>4, <1>r, <2>1, <2>2, <2>3, AloneKept
<1>5. ASSUME NEW h \in Handlers, Pay(h), Alone PROVE AloneInv'
  <2>1. PICK r \in Runs : r = NextCompany(h)
    BY <1>r, NextCompanyType
  <2>2. r.phase # "paying" /\ r.seen = {} /\ r.escrow = 0
    BY <1>r, <2>1, NextCompanyType
  <2>3. run' = [run EXCEPT ![h] = r] /\ Busy(h)
    BY <1>5, <2>1 DEF Pay, Busy
  <2>4. ReadAlone(r)'
    BY <2>2, UnreadAlone
  <2> QED BY <1>5, <1>r, <2>2, <2>3, <2>4, AloneKept
<1>6. ASSUME NEW h \in Handlers, Abort(h), Alone PROVE AloneInv'
  <2>1. NoRun \in Runs /\ NoRun.phase = "idle" /\ run' = [run EXCEPT ![h] = NoRun] /\ Busy(h)
    BY <1>r, <1>6, NextCompanyType DEF Abort
  <2> QED BY <1>6, <1>r, <2>1, AloneKept
<1>7. CASE UNCHANGED vars
  BY <1>1, <1>7 DEF vars, auctions
<1>8. \A c \in Companies : {c} \in SUBSET Companies
  OBVIOUS
<1> QED BY <1>2, <1>3, <1>4, <1>5, <1>6, <1>7, <1>8, QueryAlone, DecideAlone DEF Next, Work, Handlers

\* No run is under way when the model starts.
LEMMA AloneInit == Init => AloneInv
BY DEF Init, AloneInv, Busy, NoRun

\* What holds while every run has the ledger to itself.
THEOREM AloneInvariant == AloneSpec => [](DividendInv /\ AloneInv)
<1>1. [Next /\ Alone]_vars => [Next]_vars
  OBVIOUS
<1> QED BY <1>1, DividendInit, DividendNext, AloneInit, AloneNext, PTL DEF AloneSpec

\* Only a payout changes what was paid.
LEMMA OnlyPayPays ==
  ASSUME [Next]_vars, paid' # paid
  PROVE  \E h \in Handlers : Pay(h)
BY DEF Next, vars, auctions, Work, PlaceBid, SettleLot, Start, Query, Decide, Abort, Handlers

\* The members of two companies have nobody in common.
LEMMA CompaniesDisjoint ==
  ASSUME NEW c, NEW d, c # d
  PROVE  MembersOf(c) \cap MembersOf(d) = {}
BY DEF MembersOf

\* A payout of a run that has the ledger to itself empties one escrow, and no other.
LEMMA PayoutAlone ==
  ASSUME DividendInv, AloneInv, NEW h \in Handlers, Pay(h), NEW c, c = Least(run[h].todo)
  PROVE  /\ Escrow(c) \in Nat /\ Contributors(c) # {}
         /\ Shares(c, Escrow(c)) \in [Contributors(c) -> Nat]
         /\ \A u \in Contributors(c) : paid'[u] - paid[u] = Shares(c, Escrow(c))[u]
         /\ \A u \in Members \ Contributors(c) : paid'[u] = paid[u]
         /\ Paid(c) = 0 /\ Escrow(c)' = 0
         /\ \A d : d # c => Paid(d)' = Paid(d) /\ Escrow(d)' = Escrow(d)
<1> DEFINE M == MembersOf(c)
           C == Contributors(c)
           share == Shares(c, Escrow(c))
           g == [u \in M |-> IF u \in C THEN share[u] ELSE 0]
<1>1. run[h].escrow = Escrow(c) /\ \A u \in M : paid[u] = 0
  BY DEF AloneInv, PayAlone, Pay
<1>2. /\ Escrow(c) \in Nat /\ C # {}
      /\ share \in [C -> Nat] /\ SumFunctionOnSet(share, C) = Escrow(c)
      /\ paid' = [u \in Members |-> IF u \in C THEN paid[u] + share[u] ELSE paid[u]]
      /\ UNCHANGED <<bid, back>>
  BY <1>1, PayShares DEF Pay, auctions
<1>3. /\ M \in SUBSET Members /\ C \in SUBSET M /\ IsFiniteSet(M) /\ IsFiniteSet(C)
      /\ paid \in [Members -> Nat] /\ bid \in [Members -> Nat] /\ back \in [Members -> Nat]
  BY MembersFinite DEF DividendInv, TypeOK
<1>4. /\ Escrow(c) = SumFunctionOnSet(bid, M) - SumFunctionOnSet(back, M) - SumFunctionOnSet(paid, M)
      /\ Escrow(c)' = SumFunctionOnSet(bid, M) - SumFunctionOnSet(back, M) - SumFunctionOnSet(paid', M)
      /\ SumFunctionOnSet(bid, M) \in Int /\ SumFunctionOnSet(back, M) \in Int
  BY <1>2, EntriesType DEF DividendInv, Escrow, EscrowOf, Bids, Backs
<1> DEFINE E == Escrow(c)
<1>5. ASSUME NEW d, d # c PROVE Paid(d)' = Paid(d) /\ Escrow(d)' = Escrow(d)
  <2>1. \A u \in MembersOf(d) : paid'[u] = paid[u]
    BY <1>2, <1>3, <1>5, CompaniesDisjoint, MembersFinite
  <2>2. SumFunctionOnSet(paid, MembersOf(d)) = SumFunctionOnSet(paid', MembersOf(d))
    BY <2>1, MembersFinite, SumSame
  <2> QED BY <1>2, <2>2 DEF Paid, Escrow, EscrowOf
<1> HIDE DEF share, C, M
<1>6. \A u \in M : g[u] \in Nat /\ paid'[u] = g[u]
  BY <1>1, <1>2, <1>3
<1>7. SumFunctionOnSet(g, M) = SumFunctionOnSet(share, C)
  <2>1. \A u \in M \ C : g[u] = 0
    OBVIOUS
  <2>2. \A u \in C : g[u] = share[u]
    BY <1>3
  <2>3. IntOn(g, M)
    BY <1>6 DEF IntOn
  <2> HIDE DEF g
  <2>4. SumFunctionOnSet(g, M) = SumFunctionOnSet(g, C)
    BY <1>3, <2>1, <2>3, SumOfPart
  <2> QED BY <1>3, <2>2, <2>4, SumSame
<1>8. SumFunctionOnSet(paid', M) = SumFunctionOnSet(g, M)
  <2> HIDE DEF g
  <2> QED BY <1>3, <1>6, SumSame
<1>9. SumFunctionOnSet(paid, M) = 0
  BY <1>1, <1>3, SumZero
<1>10. Paid(c) = 0 /\ Escrow(c)' = 0
  BY <1>2, <1>4, <1>7, <1>8, <1>9 DEF Paid, M
<1>11. \A u \in C : paid'[u] - paid[u] = share[u]
  BY <1>2, <1>3
<1>12. \A u \in Members \ C : paid'[u] = paid[u]
  BY <1>2
<1> QED BY <1>2, <1>5, <1>10, <1>11, <1>12 DEF C, share

\* A company's dividend that changes is paid by somebody, in full.
LEMMA PayoutOf ==
  ASSUME DividendInv, AloneInv, [Next]_vars, NEW c, Paid(c)' # Paid(c)
  PROVE  Paid(c) = 0 /\ Escrow(c)' = 0
<1>1. paid' # paid
  BY DEF Paid
<1>2. PICK h \in Handlers : Pay(h)
  BY <1>1, OnlyPayPays
<1>3. PICK d : d = Least(run[h].todo)
  OBVIOUS
<1>4. c = d
  BY <1>2, <1>3, PayoutAlone
<1> QED BY <1>2, <1>3, <1>4, PayoutAlone

\* A run that has the ledger to itself leaves nothing in the escrow of a company it pays
\* (settle-year-end-dividend.use-case.ts).
THEOREM EscrowEmptied == AloneSpec => EscrowPaidOut
<1>1. DividendInv /\ AloneInv /\ [Next /\ Alone]_vars
      => \A c \in Companies : Paid(c)' # Paid(c) => Escrow(c)' = 0
  BY PayoutOf
<1> QED BY <1>1, AloneInvariant, PTL DEF AloneSpec, EscrowPaidOut

\* A company whose dividend was paid is not paid again, whoever asks for it
\* (settle-year-end-dividend.use-case.ts).
THEOREM NeverPaidTwice == AloneSpec => PaidOnce
<1>1. DividendInv /\ AloneInv /\ [Next /\ Alone]_vars
      => \A c \in Companies : Paid(c) > 0 => Paid(c)' = Paid(c)
  BY PayoutOf
<1> QED BY <1>1, AloneInvariant, PTL DEF AloneSpec, PaidOnce

\* A share is the part rounded down, and what is left goes to the first of the list.
LEMMA ShareBounds ==
  ASSUME days \in [Members -> Nat], NEW c, NEW e \in Nat, NEW u \in Contributors(c)
  PROVE  /\ Shares(c, e)[u] \in Nat /\ FloorShare(c, e, u) <= Shares(c, e)[u]
         /\ u # TopStake(c) => Shares(c, e)[u] = FloorShare(c, e, u)
         /\ (Shares(c, e)[u] - Cardinality(Contributors(c))) * TotalDays(c) < e * days[u]
<1> DEFINE T == TotalDays(c)
           f == FloorShare(c, e, u)
           g == Shares(c, e)[u]
           r == Remainder(c, e)
           n == Cardinality(Contributors(c))
           m == e * days[u]
<1>1. T \in Nat /\ T > 0 /\ f \in Nat /\ f * T <= m /\ m \in Nat
  BY FloorFacts, DaysOfContributors
<1>2. r \in Nat /\ n \in Nat /\ r < n
  BY RemainderFacts, MembersFinite
<1>3. g = f + (IF u = TopStake(c) THEN r ELSE 0)
  BY DEF Shares
<1> HIDE DEF T, f, g, r, n, m
<1>4. g \in Nat /\ f <= g /\ g - n <= f - 1
  BY <1>1, <1>2, <1>3
<1>5. (g - n) * T <= (f - 1) * T
  BY <1>1, <1>2, <1>4
<1>6. (f - 1) * T < f * T
  BY <1>1
<1>7. (g - n) * T < m
  <2>1. (g - n) * T \in Int /\ (f - 1) * T \in Int /\ f * T \in Int
    BY <1>1, <1>2, <1>4
  <2> QED BY <1>1, <1>5, <1>6, <2>1
<1> QED BY <1>1, <1>3, <1>4, <1>7 DEF T, f, g, n, m

\* Who contributed more has no smaller part.
LEMMA FloorMonotone ==
  ASSUME days \in [Members -> Nat], NEW c, NEW e \in Nat, NEW u \in Contributors(c),
         NEW v \in Contributors(c), days[v] <= days[u]
  PROVE  FloorShare(c, e, v) <= FloorShare(c, e, u)
<1> DEFINE T == TotalDays(c)
           f == FloorShare(c, e, u)
           k == FloorShare(c, e, v)
<1>1. /\ T \in Nat /\ T > 0 /\ f \in Nat /\ k \in Nat
      /\ k * T <= e * days[v] /\ e * days[u] <= f * T + (T - 1)
  BY FloorFacts, DaysOfContributors
<1>2. days[u] \in Nat /\ days[v] \in Nat
  BY DaysOfContributors
<1> HIDE DEF T, f, k
<1>3. e * days[v] <= e * days[u]
  BY <1>2
<1>4. k * T <= f * T + (T - 1)
  <2>1. e * days[v] \in Int /\ e * days[u] \in Int /\ k * T \in Int /\ f * T \in Int
    BY <1>1, <1>2
  <2> QED BY <1>1, <1>3, <2>1
<1>5. k < f + 1
  <2>1. k * T < (f + 1) * T
    BY <1>1, <1>4
  <2> QED BY <1>1, <2>1
<1> QED BY <1>1, <1>5 DEF f, k

\* One payout is fair to any two members.
LEMMA PayoutFair ==
  ASSUME DividendInv, AloneInv, NEW h \in Handlers, Pay(h), NEW u \in Members, NEW v \in Members
  PROVE  LET c == BookedFor(u)  got == paid'[u] - paid[u] IN
         /\ BookedFor(v) = c /\ days[u] > days[v] => got >= paid'[v] - paid[v]
         /\ got > 0 =>
              /\ u # TopStake(c) => got * TotalDays(c) <= Escrow(c) * days[u]
              /\ (got - Cardinality(Contributors(c))) * TotalDays(c) < Escrow(c) * days[u]
<1> DEFINE c == BookedFor(u)
           e == Escrow(c)
           C == Contributors(c)
<1>1. days \in [Members -> Nat] /\ paid \in [Members -> Nat]
  BY DividendAssumption DEF DividendInv, TypeOK
<1>2. PICK d : d = Least(run[h].todo)
  OBVIOUS
<1>3. /\ Escrow(d) \in Nat /\ Contributors(d) # {}
      /\ \A w \in Contributors(d) : paid'[w] - paid[w] = Shares(d, Escrow(d))[w]
      /\ \A w \in Members \ Contributors(d) : paid'[w] = paid[w]
  BY <1>2, PayoutAlone
<1>4. \A w \in Members : w \notin Contributors(d) => paid'[w] - paid[w] = 0
  BY <1>1, <1>3
<1>5. \A w \in Members : w \in Contributors(d) <=> BookedFor(w) = d /\ days[w] > 0
  BY DEF Contributors, MembersOf
<1>6. CASE u \notin Contributors(d)
  <2>1. paid'[u] - paid[u] = 0
    BY <1>4, <1>6
  <2>2. BookedFor(v) = c /\ days[u] > days[v] => v \notin Contributors(d)
    BY <1>1, <1>5, <1>6
  <2> QED BY <1>4, <2>1, <2>2
<1>7. CASE u \in Contributors(d)
  <2>1. c = d
    BY <1>5, <1>7
  <2>2. u \in C /\ e \in Nat /\ paid'[u] - paid[u] = Shares(c, e)[u]
    BY <1>3, <1>7, <2>1
  <2>3. /\ Shares(c, e)[u] \in Nat /\ FloorShare(c, e, u) <= Shares(c, e)[u]
        /\ u # TopStake(c) => Shares(c, e)[u] = FloorShare(c, e, u)
        /\ (Shares(c, e)[u] - Cardinality(C)) * TotalDays(c) < e * days[u]
        /\ FloorShare(c, e, u) * TotalDays(c) <= e * days[u]
        /\ FloorShare(c, e, u) \in Nat
    <3> HIDE DEF c, e
    <3> QED BY <1>1, <2>2, ShareBounds, FloorFacts
  <2>4. ASSUME BookedFor(v) = c, days[u] > days[v]
        PROVE  paid'[v] - paid[v] <= Shares(c, e)[u]
    <3>1. CASE v \notin C
      BY <1>4, <2>1, <2>3, <3>1
    <3>2. CASE v \in C
      <4>1. v # TopStake(c)
        <5>1. days[u] <= days[TopStake(c)]
          BY <1>1, <2>2, TopStakeExists
        <5> QED BY <1>1, <2>2, <2>4, <5>1, TopStakeExists
      <4>2. paid'[v] - paid[v] = Shares(c, e)[v]
        BY <1>3, <2>1, <3>2
      <4>3. Shares(c, e)[v] = FloorShare(c, e, v) /\ Shares(c, e)[v] \in Nat
        <5> HIDE DEF c, e
        <5> QED BY <1>1, <2>2, <3>2, <4>1, ShareBounds
      <4>4. FloorShare(c, e, v) <= FloorShare(c, e, u)
        <5>1. days[v] <= days[u]
          BY <1>1, <2>4
        <5> HIDE DEF c, e
        <5> QED BY <1>1, <2>2, <3>2, <5>1, FloorMonotone
      <4> QED BY <2>3, <4>2, <4>3, <4>4
    <3> QED BY <3>1, <3>2
  <2> HIDE DEF e, C
  <2>5. (paid'[u] - paid[u]) >= 0
    BY <2>2, <2>3
  <2> QED BY <2>2, <2>3, <2>4 DEF e, C
<1> QED BY <1>6, <1>7

\* Who contributed more never gets less, nobody but the first of the list gets more than
\* their part (settle-year-end-dividend.use-case.ts).
THEOREM FairShares == AloneSpec => SharesAreFair
<1> DEFINE Fair == \A u, v \in Members :
       LET c == BookedFor(u)  got == paid'[u] - paid[u] IN
       /\ BookedFor(v) = c /\ days[u] > days[v] => got >= paid'[v] - paid[v]
       /\ got > 0 =>
            /\ u # TopStake(c) => got * TotalDays(c) <= Escrow(c) * days[u]
            /\ (got - Cardinality(Contributors(c))) * TotalDays(c) < Escrow(c) * days[u]
<1>1. ASSUME DividendInv, AloneInv, [Next]_vars PROVE Fair
  <2>1. CASE paid' = paid
    <3>1. \A u \in Members : paid'[u] - paid[u] = 0
      BY <1>1, <2>1 DEF DividendInv, TypeOK
    <3> QED BY <3>1
  <2>2. CASE paid' # paid
    <3>1. PICK h \in Handlers : Pay(h)
      BY <1>1, <2>2, OnlyPayPays
    <3> QED BY <1>1, <3>1, PayoutFair
  <2> QED BY <2>1, <2>2
<1>2. DividendInv /\ AloneInv /\ [Next /\ Alone]_vars => Fair
  BY <1>1
<1> QED BY <1>2, AloneInvariant, PTL DEF AloneSpec, SharesAreFair

\* What a forecast counts is what the member's company has, if the others have nothing.
LEMMA SeenIsCompany ==
  ASSUME DividendInv, NEW u \in Members, NEW c, c = BookedFor(u),
         CompanyOf[u] = NoCompany =>
           /\ EscrowOf(Members \ MembersOf(c)) = 0
           /\ SumFunctionOnSet(days, Members \ MembersOf(c)) = 0
  PROVE  EscrowOf(SeenBy(u)) = Escrow(c) /\ SumFunctionOnSet(days, SeenBy(u)) = TotalDays(c)
<1>1. CASE CompanyOf[u] # NoCompany
  <2>1. SeenBy(u) = MembersOf(c)
    BY <1>1 DEF SeenBy, MembersOf, BookedFor
  <2> QED BY <2>1 DEF Escrow, TotalDays
<1>2. CASE CompanyOf[u] = NoCompany
  <2> DEFINE M == MembersOf(c)
             R == Members \ M
             Total(f) == SumFunctionOnSet(f, Members) = SumFunctionOnSet(f, M) + SumFunctionOnSet(f, R)
  <2>1. SeenBy(u) = Members
    BY <1>2 DEF SeenBy
  <2>2. IntOn(bid, Members) /\ IntOn(back, Members) /\ IntOn(paid, Members) /\ IntOn(days, Members)
    <3>1. /\ bid \in [Members -> Nat] /\ back \in [Members -> Nat] /\ paid \in [Members -> Nat]
          /\ days \in [Members -> Nat]
      BY DividendAssumption DEF DividendInv, TypeOK
    <3> QED BY <3>1 DEF IntOn
  <2>3. M \in SUBSET Members /\ IsFiniteSet(Members) /\ R \in SUBSET Members
        /\ IsFiniteSet(M) /\ IsFiniteSet(R)
    BY MembersFinite, DividendAssumption, FS_Subset
  <2> HIDE DEF M, R
  <2>4. Total(bid) /\ Total(back) /\ Total(paid) /\ Total(days)
    <3>1. R = Members \ M
      BY DEF R
    <3> QED BY <2>2, <2>3, <3>1, SumSplit
  <2>5. \A f \in {bid, back, paid, days} :
          SumFunctionOnSet(f, M) \in Int /\ SumFunctionOnSet(f, R) \in Int
    <3>1. ASSUME NEW f \in {bid, back, paid, days}
          PROVE  IntOn(f, M) /\ IntOn(f, R)
      BY <2>2, <2>3 DEF IntOn
    <3> QED BY <2>3, <3>1, SumType
  <2>6. SumFunctionOnSet(days, SeenBy(u)) = TotalDays(c)
    <3>1. SumFunctionOnSet(days, R) = 0
      BY <1>2 DEF R, M
    <3> QED BY <2>1, <2>4, <2>5, <3>1 DEF TotalDays, M
  <2>7. EscrowOf(SeenBy(u)) = Escrow(c)
    <3>1. EscrowOf(R) = 0
      BY <1>2 DEF R, M
    <3>2. SumFunctionOnSet(bid, R) - SumFunctionOnSet(back, R) - SumFunctionOnSet(paid, R) = 0
      BY <3>1 DEF EscrowOf
    <3>3. EscrowOf(Members) = EscrowOf(M)
      BY <2>4, <2>5, <3>2 DEF EscrowOf
    <3> QED BY <2>1, <3>3 DEF Escrow, M
  <2> QED BY <2>6, <2>7
<1> QED BY <1>1, <1>2

\* Whoever asks right before the payout is told what they will get, or one point less; only
\* the first of the list gets more (get-my-dividend.use-case.ts).
THEOREM ForecastKept == AloneSpec => ForecastMatches
<1> DEFINE Matches == \A u \in Members :
       LET c == BookedFor(u)  others == Members \ MembersOf(c) IN
       /\ Paid(c)' # Paid(c)
       /\ CompanyOf[u] = NoCompany =>
            EscrowOf(others) = 0 /\ SumFunctionOnSet(days, others) = 0
       => \A told \in Forecast(u) :
            /\ told <= paid'[u] - paid[u]
            /\ u # TopStake(c) => paid'[u] - paid[u] <= told + 1
<1>1. ASSUME DividendInv, AloneInv, [Next]_vars PROVE Matches
  <2> SUFFICES ASSUME NEW u \in Members, NEW c, c = BookedFor(u), Paid(c)' # Paid(c),
                      CompanyOf[u] = NoCompany =>
                        /\ EscrowOf(Members \ MembersOf(c)) = 0
                        /\ SumFunctionOnSet(days, Members \ MembersOf(c)) = 0,
                      NEW told \in Forecast(u)
               PROVE  /\ told <= paid'[u] - paid[u]
                      /\ u # TopStake(c) => paid'[u] - paid[u] <= told + 1
    OBVIOUS
  <2>s. EscrowOf(SeenBy(u)) = Escrow(c) /\ SumFunctionOnSet(days, SeenBy(u)) = TotalDays(c)
    BY <1>1, SeenIsCompany
  <2> DEFINE e == Escrow(c)
             part == FloorShare(c, e, u)
             got == paid'[u] - paid[u]
  <2>1. days \in [Members -> Nat] /\ paid \in [Members -> Nat]
    BY <1>1, DividendAssumption DEF DividendInv, TypeOK
  <2>2. paid' # paid
    BY DEF Paid
  <2>3. PICK h \in Handlers : Pay(h)
    BY <1>1, <2>2, OnlyPayPays
  <2>4. PICK d : d = Least(run[h].todo)
    OBVIOUS
  <2>5. c = d
    BY <1>1, <2>3, <2>4, PayoutAlone
  <2>6. /\ e \in Nat /\ Contributors(c) # {}
        /\ u \in Contributors(c) => got = Shares(c, e)[u]
        /\ u \notin Contributors(c) => got = 0
    BY <1>1, <2>1, <2>3, <2>4, <2>5, PayoutAlone
  <2>7. TotalDays(c) \in Nat /\ TotalDays(c) > 0
    BY <2>1, <2>6, DaysOfContributors
  <2>8. told = part \/ (e * days[u] # 0 /\ (e * days[u]) % TotalDays(c) = 0 /\ told = part - 1)
    BY <2>7, <2>s DEF Forecast, FloorShare
  <2>9. CASE u \in Contributors(c)
    <3>1. /\ part \in Nat /\ got \in Nat /\ part <= got
          /\ u # TopStake(c) => got = part
      <4> HIDE DEF e
      <4> QED BY <2>1, <2>6, <2>9, ShareBounds, FloorFacts
    <3> HIDE DEF part, got
    <3> QED BY <2>8, <3>1 DEF got
  <2>10. CASE u \notin Contributors(c)
    <3>1. days[u] = 0
      BY <2>1, <2>10 DEF Contributors, MembersOf
    <3>2. e * days[u] = 0
      BY <2>6, <3>1
    <3>3. part = 0
      BY <2>7, <3>2 DEF FloorShare
    <3> HIDE DEF part
    <3>4. told = 0 /\ got = 0
      BY <2>6, <2>8, <2>10, <3>2, <3>3
    <3> QED BY <3>4
  <2> QED BY <2>9, <2>10
<1>2. DividendInv /\ AloneInv /\ [Next /\ Alone]_vars => Matches
  BY <1>1
<1> QED BY <1>2, AloneInvariant, PTL DEF AloneSpec, ForecastMatches

\* Everybody who bids has a company: a super ADMIN's bids on another company's lot would be
\* booked under the default company, and what comes back of them too.
EveryoneEmployed == \A u \in Members : CompanyOf[u] # NoCompany

\* A lot is led by a member of its company, and no escrow is overdrawn.
EscrowInv ==
  /\ \A c \in Companies : lot[c].leader # NoLeader => BookedFor(lot[c].leader) = c
  /\ EscrowNotOverdrawn

\* A bid adds to the escrow of its company what it adds to the price of the lot.
LEMMA BidFillsEscrow ==
  ASSUME EveryoneEmployed, DividendInv, EscrowInv,
         NEW u \in Members, NEW c \in Companies, NEW x \in Nat, PlaceBid(u, c, x)
  PROVE  EscrowInv'
<1> DEFINE leader == lot[c].leader
           price == lot[c].price
<1>1. /\ BookedFor(u) = c /\ leader \in Members \cup {NoLeader} /\ price \in Nat /\ leader # u
      /\ x > price /\ lot' = [lot EXCEPT ![c] = [leader |-> u, price |-> x]]
      /\ bid \in [Members -> Nat] /\ back \in [Members -> Nat] /\ paid \in [Members -> Nat]
      /\ bid' = [bid EXCEPT ![u] = bid[u] + x] /\ paid' = paid
      /\ back' = IF leader = NoLeader THEN back ELSE [back EXCEPT ![leader] = back[leader] + price]
      /\ leader # NoLeader => leader \in MembersOf(c)
      /\ u \in MembersOf(c) /\ lot \in [Companies -> [leader: Members \cup {NoLeader}, price: Nat]]
  BY DividendAssumption DEF PlaceBid, DividendInv, TypeOK, EscrowInv, MembersOf, BookedFor, EveryoneEmployed
<1>2. \A d \in Companies : lot'[d].leader # NoLeader => BookedFor(lot'[d].leader) = d
  BY <1>1 DEF EscrowInv
<1> HIDE DEF leader, price
<1>3. bid' \in [Members -> Nat] /\ back' \in [Members -> Nat]
  BY <1>1
<1>4. \A d : /\ IntOn(bid, MembersOf(d)) /\ IntOn(back, MembersOf(d))
             /\ IntOn(bid', MembersOf(d)) /\ IntOn(back', MembersOf(d))
             /\ IntOn(paid, MembersOf(d)) /\ IsFiniteSet(MembersOf(d))
  BY <1>1, <1>3, MembersFinite DEF IntOn
<1>5. \A d : Escrow(d) \in Int
  BY EntriesType DEF DividendInv
<1>6. SumFunctionOnSet(bid', MembersOf(c)) = SumFunctionOnSet(bid, MembersOf(c)) + x
  <2>1. SumFunctionOnSet(bid', MembersOf(c)) = SumFunctionOnSet(bid, MembersOf(c)) - bid[u] + bid'[u]
    <3>1. \A y \in MembersOf(c) \ {u} : bid'[y] = bid[y]
      BY <1>1, MembersFinite
    <3>2. u \in MembersOf(c)
      BY <1>1
    <3> QED BY <1>4, <3>1, <3>2, SumChange
  <2>2. bid[u] \in Int /\ bid'[u] = bid[u] + x /\ SumFunctionOnSet(bid, MembersOf(c)) \in Int
    BY <1>1, <1>4, MembersFinite, SumType
  <2> QED BY <2>1, <2>2
<1>7. SumFunctionOnSet(back', MembersOf(c)) <= SumFunctionOnSet(back, MembersOf(c)) + price
  <2>t. SumFunctionOnSet(back, MembersOf(c)) \in Int
    BY <1>4, MembersFinite, SumType
  <2>1. CASE leader = NoLeader
    BY <1>1, <2>t, <2>1
  <2>2. CASE leader # NoLeader
    <3>1. SumFunctionOnSet(back', MembersOf(c))
            = SumFunctionOnSet(back, MembersOf(c)) - back[leader] + back'[leader]
      <4>1. \A y \in MembersOf(c) \ {leader} : back'[y] = back[y]
        BY <1>1, <2>2, MembersFinite
      <4>2. leader \in MembersOf(c)
        BY <1>1, <2>2
      <4> QED BY <1>4, <4>1, <4>2, SumChange
    <3>2. back[leader] \in Int /\ back'[leader] = back[leader] + price
      BY <1>1, <2>2
    <3> QED BY <1>1, <2>t, <3>1, <3>2
  <2> QED BY <2>1, <2>2
<1>8. Escrow(c)' >= Escrow(c)
  <2>1. SumFunctionOnSet(back, MembersOf(c)) \in Int /\ SumFunctionOnSet(back', MembersOf(c)) \in Int
        /\ SumFunctionOnSet(bid, MembersOf(c)) \in Int /\ SumFunctionOnSet(paid, MembersOf(c)) \in Int
    BY <1>4, SumType
  <2>2. Escrow(c)' = SumFunctionOnSet(bid', MembersOf(c)) - SumFunctionOnSet(back', MembersOf(c))
                     - SumFunctionOnSet(paid, MembersOf(c))
    BY <1>1 DEF Escrow, EscrowOf
  <2>3. Escrow(c) = SumFunctionOnSet(bid, MembersOf(c)) - SumFunctionOnSet(back, MembersOf(c))
                    - SumFunctionOnSet(paid, MembersOf(c))
    BY DEF Escrow, EscrowOf
  <2> QED BY <1>1, <1>6, <1>7, <2>1, <2>2, <2>3
<1>9. ASSUME NEW d, d # c PROVE Escrow(d)' = Escrow(d)
  <2>1. \A v \in MembersOf(d) : bid[v] = bid'[v] /\ back[v] = back'[v]
    BY <1>1, <1>9, CompaniesDisjoint, MembersFinite
  <2>2. /\ SumFunctionOnSet(bid, MembersOf(d)) = SumFunctionOnSet(bid', MembersOf(d))
        /\ SumFunctionOnSet(back, MembersOf(d)) = SumFunctionOnSet(back', MembersOf(d))
    BY <2>1, MembersFinite, SumSame
  <2> QED BY <1>1, <2>2 DEF Escrow, EscrowOf
<1>10. \A d \in Companies : Escrow(d)' >= 0
  <2> TAKE d \in Companies
  <2>1. Escrow(d) >= 0 /\ Escrow(d) \in Int
    BY <1>5 DEF EscrowInv, EscrowNotOverdrawn
  <2>2. CASE d = c
    <3>1. Escrow(c)' \in Int
      <4>1. SumFunctionOnSet(back', MembersOf(c)) \in Int /\ SumFunctionOnSet(bid', MembersOf(c)) \in Int
            /\ SumFunctionOnSet(paid, MembersOf(c)) \in Int
        BY <1>4, SumType
      <4> QED BY <1>1, <4>1 DEF Escrow, EscrowOf
    <3>2. Escrow(d)' = Escrow(c)'
      BY <2>2 DEF Escrow, EscrowOf
    <3> QED BY <1>8, <2>1, <2>2, <3>1, <3>2
  <2>3. CASE d # c
    BY <1>9, <2>1, <2>3
  <2> QED BY <2>2, <2>3
<1> QED BY <1>2, <1>10 DEF EscrowInv, EscrowNotOverdrawn

\* No step of the program overdraws an escrow while every run has the ledger to itself.
LEMMA EscrowNext ==
  ASSUME EveryoneEmployed
  PROVE  DividendInv /\ AloneInv /\ EscrowInv /\ [Next]_vars => EscrowInv'
<1> SUFFICES ASSUME DividendInv, AloneInv, EscrowInv, [Next]_vars PROVE EscrowInv'
  OBVIOUS
<1>1. ASSUME UNCHANGED <<bid, back, paid>>,
             \A c \in Companies : lot'[c].leader \in {lot[c].leader, NoLeader}
      PROVE  EscrowInv'
  BY <1>1 DEF EscrowInv, EscrowNotOverdrawn, Escrow, EscrowOf
<1>2. ASSUME NEW u \in Members, NEW c \in Companies, NEW x \in 1..MaxPrice, PlaceBid(u, c, x)
      PROVE  EscrowInv'
  BY <1>2, BidFillsEscrow, DividendAssumption
<1>3. ASSUME NEW c \in Companies, SettleLot(c) PROVE EscrowInv'
  BY <1>1, <1>3 DEF SettleLot, DividendInv, TypeOK
<1>4. ASSUME NEW h \in Handlers, Pay(h) PROVE EscrowInv'
  <2>1. PICK c : c = Least(run[h].todo)
    OBVIOUS
  <2>2. Escrow(c)' = 0 /\ \A d : d # c => Escrow(d)' = Escrow(d)
    BY <1>4, <2>1, PayoutAlone
  <2>3. UNCHANGED lot
    BY <1>4 DEF Pay, auctions
  <2> QED BY <2>2, <2>3 DEF EscrowInv, EscrowNotOverdrawn
<1>5. ASSUME UNCHANGED <<bid, back, paid, lot>> PROVE EscrowInv'
  BY <1>1, <1>5
<1> QED BY <1>2, <1>3, <1>4, <1>5
     DEF Next, Work, Handlers, Start, Query, Decide, Abort, vars, auctions

\* Nothing is in escrow when the model starts.
LEMMA EscrowInit == Init => EscrowInv
<1> SUFFICES ASSUME Init PROVE EscrowInv
  OBVIOUS
<1>1. ASSUME NEW c \in Companies PROVE Escrow(c) = 0
  <2>1. \A u \in MembersOf(c) : bid[u] = 0 /\ back[u] = 0 /\ paid[u] = 0
    BY MembersFinite DEF Init
  <2> QED BY <2>1, MembersFinite, SumZero DEF Escrow, EscrowOf
<1> QED BY <1>1 DEF Init, EscrowInv, EscrowNotOverdrawn

\* No dividend is paid beyond what is in escrow, while every run has the ledger to itself
\* and everybody has a company (settle-year-end-dividend.use-case.ts); two runs at once
\* overdraw it.
THEOREM EscrowCoversDividends ==
  ASSUME EveryoneEmployed
  PROVE  AloneSpec => []EscrowNotOverdrawn
<1>1. DividendInv /\ AloneInv /\ EscrowInv /\ [Next /\ Alone]_vars => EscrowInv'
  BY EscrowNext
<1> QED BY <1>1, AloneInvariant, EscrowInit, PTL DEF AloneSpec, EscrowInv
=============================================================================
