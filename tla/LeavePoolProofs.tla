-------------------------- MODULE LeavePoolProofs --------------------------
(***************************************************************************)
(* Theorems about LeavePool, for every value of its constants.             *)
(***************************************************************************)
EXTENDS LeavePool, Sums

-----------------------------------------------------------------------------
(* Naturals and maxima.                                                    *)

\* A set of naturals that is not empty has a least element.
LEMMA LeastNatural ==
  ASSUME NEW K \in SUBSET Nat, K # {}
  PROVE  \E k \in K : \A j \in K : k <= j
<1>1. PICK k \in K : \A j \in K : ~ (<<j, k>> \in OpToRel(<, Nat))
  BY NatLessThanWellFounded, WFMin
<1>2. \A j \in K : ~ (j < k)
  BY <1>1 DEF OpToRel
<1> QED BY <1>2

\* Of the subsets that the elements of a finite set are given, one is minimal.
LEMMA MinimalImage ==
  ASSUME NEW S, IsFiniteSet(S), S # {}, NEW F, \A x \in S : F[x] \subseteq S
  PROVE  \E m \in S : \A x \in S : F[x] \subseteq F[m] => F[x] = F[m]
<1> DEFINE T == {F[x] : x \in S}
<1>1. T \in SUBSET SUBSET S /\ T # {}
  OBVIOUS
<1>2. \E t \in T : \A u \in T : u \subseteq t => u = t
  <2> HIDE DEF T
  <2> QED BY <1>1, MinimalSubset
<1> QED BY <1>2

\* The maximum of a finite set of naturals bounds it.
LEMMA MaxFacts ==
  ASSUME NEW S, \A x \in S : x \in Nat, IsFiniteSet(S), S # {}
  PROVE  Max(S) \in S /\ \A x \in S : x <= Max(S)
<1> DEFINE F == [x \in S |-> {y \in S : y > x}]
<1>1. \A x \in S : F[x] \subseteq S /\ x \in Nat
  OBVIOUS
<1>2. PICK m \in S : \A x \in S : F[x] \subseteq F[m] => F[x] = F[m]
  <2> HIDE DEF F
  <2> QED BY <1>1, MinimalImage
<1>3. ASSUME NEW x \in S, x > m PROVE FALSE
  <2>1. \A y \in F[x] : y \in F[m]
    BY <1>1, <1>3
  <2>2. x \notin F[x] /\ x \in F[m]
    BY <1>1, <1>3
  <2> HIDE DEF F
  <2> QED BY <1>2, <1>3, <2>1, <2>2
<1>4. \A x \in S : m >= x
  BY <1>1, <1>3
<1>5. Max(S) \in S /\ \A x \in S : Max(S) >= x
  BY <1>4 DEF Max
<1> QED BY <1>1, <1>5

-----------------------------------------------------------------------------
(* A release takes in turns.                                               *)

\* One round of Taken.
Open(rest, t) == {u \in Users : t[u] < rest[u]}
NextOf(rest, t) == CHOOSE u \in Open(rest, t) : \A v \in Open(rest, t) :
                     t[u] < t[v] \/ (t[u] = t[v] /\ u <= v)
Round(rest, t) == IF Open(rest, t) = {} THEN t ELSE [t EXCEPT ![NextOf(rest, t)] = @ + 1]

IsRounds(f, rest, k) ==
  f = [n \in 0..k |-> IF n = 0 THEN None ELSE Round(rest, f[n - 1])]

LEMMA TakenUnfold ==
  ASSUME NEW rest, NEW need
  PROVE  Taken(rest, need) = (CHOOSE f : IsRounds(f, rest, need))[need]
BY DEF Taken, IsRounds, Round, NextOf, Open

\* What was taken after so many rounds.
InTurn(rest, t) ==
  \A u, v \in Users : t[v] < rest[v] => t[u] <= t[v] + (IF u < v THEN 1 ELSE 0)
Taking(rest, t, n) ==
  /\ t \in [Users -> Nat] /\ \A u \in Users : t[u] <= rest[u]
  /\ InTurn(rest, t) /\ SumFunctionOnSet(t, Users) <= n

\* Whoever has days left and has given the fewest is next.
LEMMA NextExists ==
  ASSUME NEW rest \in [Users -> Nat], NEW t \in [Users -> Nat], Open(rest, t) # {}
  PROVE  /\ NextOf(rest, t) \in Open(rest, t)
         /\ \A v \in Open(rest, t) :
              t[NextOf(rest, t)] < t[v] \/ (t[NextOf(rest, t)] = t[v] /\ NextOf(rest, t) <= v)
<1> DEFINE C == Open(rest, t)
           F == [u \in C |-> {v \in C : t[v] < t[u] \/ (t[v] = t[u] /\ v < u)}]
<1>1. /\ C # {} /\ IsFiniteSet(C)
      /\ \A u \in C : F[u] \subseteq C /\ u \in Nat /\ t[u] \in Nat
  BY FS_Subset, PoolAssumption DEF Open
<1>2. PICK u \in C : \A v \in C : F[v] \subseteq F[u] => F[v] = F[u]
  <2> HIDE DEF F, C
  <2> QED BY <1>1, MinimalImage
<1> HIDE DEF C
<1>3. ASSUME NEW v \in F[u] PROVE FALSE
  <2>1. v \in C /\ F[v] \subseteq F[u]
    BY <1>1, <1>3
  <2>2. v \notin F[v]
    BY <1>1, <2>1
  <2> QED BY <1>2, <1>3, <2>1, <2>2
<1>4. \A v \in C : t[u] < t[v] \/ (t[u] = t[v] /\ u <= v)
  BY <1>1, <1>3
<1> QED BY <1>4 DEF NextOf, C

\* A round takes one day, from whoever has given the fewest.
LEMMA RoundKeeps ==
  ASSUME NEW rest \in [Users -> Nat], NEW n \in Nat, NEW t, Taking(rest, t, n)
  PROVE  Taking(rest, Round(rest, t), n + 1)
<1>1. t \in [Users -> Nat] /\ SumFunctionOnSet(t, Users) <= n
  BY DEF Taking
<1>2. IsFiniteSet(Users) /\ IntOn(t, Users) /\ SumFunctionOnSet(t, Users) \in Int
  <2>1. IsFiniteSet(Users) /\ IntOn(t, Users)
    BY <1>1, PoolAssumption DEF IntOn
  <2> QED BY <2>1, SumType
<1>3. CASE Open(rest, t) = {}
  BY <1>1, <1>2, <1>3 DEF Taking, Round
<1>4. CASE Open(rest, t) # {}
  <2> DEFINE w == NextOf(rest, t)
             q == [t EXCEPT ![w] = @ + 1]
  <2>1. /\ w \in Users /\ t[w] < rest[w]
        /\ \A v \in Users : t[v] < rest[v] => t[w] < t[v] \/ (t[w] = t[v] /\ w <= v)
    BY <1>1, <1>4, NextExists DEF Open
  <2> HIDE DEF w
  <2>2. q \in [Users -> Nat] /\ \A u \in Users : q[u] = IF u = w THEN t[u] + 1 ELSE t[u]
    BY <1>1, <2>1
  <2>3. Round(rest, t) = q
    BY <1>4 DEF Round, w
  <2> HIDE DEF q
  <2>4. \A u \in Users : q[u] <= rest[u]
    BY <1>1, <2>1, <2>2 DEF Taking
  <2>5. InTurn(rest, q)
    <3>1. SUFFICES ASSUME NEW u \in Users, NEW v \in Users, q[v] < rest[v]
                   PROVE  q[u] <= q[v] + (IF u < v THEN 1 ELSE 0)
      BY DEF InTurn
    <3>2. t[v] < rest[v] /\ t[u] \in Nat /\ t[v] \in Nat /\ u \in Nat /\ v \in Nat
      BY <1>1, <2>1, <2>2, <3>1, PoolAssumption
    <3>3. t[u] <= t[v] + (IF u < v THEN 1 ELSE 0)
      BY <3>2 DEF Taking, InTurn
    <3>4. t[w] < t[v] \/ (t[w] = t[v] /\ w <= v)
      BY <2>1, <3>2
    <3> QED BY <2>2, <3>2, <3>3, <3>4
  <2>6. SumFunctionOnSet(q, Users) = SumFunctionOnSet(t, Users) - t[w] + q[w]
    <3>1. IntOn(q, Users) /\ \A y \in Users \ {w} : q[y] = t[y]
      BY <2>2 DEF IntOn
    <3> QED BY <1>2, <2>1, <3>1, SumChange
  <2>7. SumFunctionOnSet(q, Users) <= n + 1
    BY <1>1, <1>2, <2>1, <2>2, <2>6
  <2> QED BY <2>2, <2>3, <2>4, <2>5, <2>7 DEF Taking
<1> QED BY <1>3, <1>4

\* The rounds can be counted.
LEMMA RoundsExist ==
  ASSUME NEW rest, NEW k \in Nat
  PROVE  \E f : IsRounds(f, rest, k)
<1> DEFINE K == {j \in Nat : ~ \E f : IsRounds(f, rest, j)}
<1>1. SUFFICES ASSUME K # {} PROVE FALSE
  OBVIOUS
<1>2. PICK j \in K : \A i \in K : j <= i
  <2>1. K \in SUBSET Nat
    OBVIOUS
  <2> HIDE DEF K
  <2> QED BY <1>1, <2>1, LeastNatural
<1>3. CASE j = 0
  <2>1. IsRounds([n \in 0..0 |-> None], rest, 0)
    BY DEF IsRounds
  <2> QED BY <1>2, <1>3, <2>1
<1>4. CASE j # 0
  <2>1. j - 1 \in Nat /\ j - 1 \notin K /\ j \in Nat
    BY <1>2, <1>4
  <2>2. PICK g : IsRounds(g, rest, j - 1)
    BY <2>1
  <2> DEFINE f == [n \in 0..j |-> IF n = j THEN Round(rest, g[j - 1]) ELSE g[n]]
  <2>3. \A n \in 0..j : f[n] = IF n = 0 THEN None ELSE Round(rest, f[n - 1])
    <3>1. ASSUME NEW n \in 0..j
          PROVE  f[n] = IF n = 0 THEN None ELSE Round(rest, f[n - 1])
      <4>1. CASE n = 0
        BY <1>4, <2>1, <2>2, <4>1 DEF IsRounds
      <4>2. CASE n = j
        BY <1>4, <2>1, <4>2
      <4>3. CASE n # 0 /\ n # j
        BY <2>1, <2>2, <4>3 DEF IsRounds
      <4> QED BY <4>1, <4>2, <4>3
    <3> QED BY <3>1
  <2>4. IsRounds(f, rest, j)
    BY <2>3 DEF IsRounds
  <2> QED BY <1>2, <2>4
<1> QED BY <1>3, <1>4

\* What a release takes: of nobody more than they have, no more than was asked for, and in turn.
LEMMA TakenFacts ==
  ASSUME NEW rest \in [Users -> Nat], NEW need \in Nat
  PROVE  Taking(rest, Taken(rest, need), need)
<1> DEFINE f == CHOOSE g : IsRounds(g, rest, need)
           K == {n \in 0..need : ~ Taking(rest, f[n], n)}
<1>1. IsRounds(f, rest, need)
  BY RoundsExist
<1>2. Taken(rest, need) = f[need]
  BY TakenUnfold
<1> HIDE DEF f
<1>3. f[0] = None /\ \A n \in 1..need : f[n] = Round(rest, f[n - 1])
  BY <1>1 DEF IsRounds
<1>4. ASSUME K # {} PROVE FALSE
  <2>1. K \in SUBSET Nat
    OBVIOUS
  <2>2. PICK k \in K : \A i \in K : k <= i
    <3> HIDE DEF K
    <3> QED BY <1>4, <2>1, LeastNatural
  <2>3. CASE k = 0
    <3>1. SumFunctionOnSet(None, Users) = 0
      BY SumZero, PoolAssumption DEF None
    <3>2. Taking(rest, None, 0)
      BY <3>1 DEF Taking, InTurn, None
    <3> QED BY <1>3, <2>2, <2>3, <3>2
  <2>4. CASE k # 0
    <3>1. k \in 1..need /\ k - 1 \in 0..need /\ k - 1 \in Nat /\ k - 1 \notin K
      BY <2>2, <2>4
    <3>2. Taking(rest, f[k - 1], k - 1)
      BY <3>1
    <3>3. Taking(rest, Round(rest, f[k - 1]), (k - 1) + 1)
      BY <3>1, <3>2, RoundKeeps
    <3> QED BY <1>3, <2>2, <3>1, <3>3
  <2> QED BY <2>3, <2>4
<1>5. Taking(rest, f[need], need)
  BY <1>4
<1> QED BY <1>2, <1>5

-----------------------------------------------------------------------------
(* Types, and how much a period releases.                                  *)

Periods == {Period(p, t) : p \in Policies, t \in 0..MaxClock}

\* What a handler's job holds in each phase.
Jobs ==
  {IdleJob}
  \cup [phase : {"collect?", "contributions"}, year : Int]
  \cup [phase : {"collect"}, days : [Users -> Nat]]
  \cup [phase : {"policy"}, year : Int, force : BOOLEAN]
  \cup [phase : {"supplies"}, year : Int, policy : Policies, period : Periods, due : BOOLEAN]
  \cup [phase : {"released?"}, year : Int, policy : Policies, period : Periods, due : BOOLEAN,
        rest : [Users -> Nat]]
  \cup [phase : {"release"}, period : Periods, take : [Users -> Nat]]

\* A release in work is of its policy's period, and takes no more than the policy allows.
JobRight(j) ==
  /\ j.phase \in {"supplies", "released?"} => j.period[1] = j.policy.every
  /\ j.phase = "release" /\ j.period[1] # 0 => Total(j.take) <= Rate(j.period)

JobsOK == job \in [Handlers -> Jobs] /\ \A h \in Handlers : JobRight(job[h])

PoolInv == TypeOK /\ JobsOK /\ released \subseteq Periods /\ IsFiniteSet(released) /\ RateKept

\* What each phase knows of its job.
LEMMA JobFacts ==
  ASSUME NEW j \in Jobs
  PROVE  /\ j.phase \in {"collect?", "contributions"} =>
              j \in [phase : {"collect?", "contributions"}, year : Int]
         /\ j.phase = "collect" => j \in [phase : {"collect"}, days : [Users -> Nat]]
         /\ j.phase = "policy" => j \in [phase : {"policy"}, year : Int, force : BOOLEAN]
         /\ j.phase = "supplies" =>
              j \in [phase : {"supplies"}, year : Int, policy : Policies, period : Periods, due : BOOLEAN]
         /\ j.phase = "released?" =>
              j \in [phase : {"released?"}, year : Int, policy : Policies, period : Periods, due : BOOLEAN,
                     rest : [Users -> Nat]]
         /\ j.phase = "release" => j \in [phase : {"release"}, period : Periods, take : [Users -> Nat]]
BY DEF Jobs, IdleJob

\* A handler that is idle.
LEMMA IdleRight == IdleJob \in Jobs /\ JobRight(IdleJob)
BY DEF Jobs, JobRight, IdleJob

\* The sum over all members.
LEMMA TotalFacts ==
  ASSUME NEW f \in [Users -> Int]
  PROVE  /\ Total(f) = SumFunctionOnSet(f, Users) /\ Total(f) \in Int /\ IntOn(f, Users)
         /\ f \in [Users -> Nat] => Total(f) \in Nat
<1>1. Total(f) = SumFunctionOnSet(f, Users)
  BY DEF Total, SumFunction
<1>2. IntOn(f, Users) /\ IsFiniteSet(Users)
  BY PoolAssumption DEF IntOn
<1>3. SumFunctionOnSet(f, Users) \in Int
  BY <1>2, SumType
<1>4. ASSUME f \in [Users -> Nat] PROVE SumFunctionOnSet(f, Users) \in Nat
  BY <1>2, <1>4, SumOfNaturals
<1> QED BY <1>1, <1>2, <1>3, <1>4

\* A period begins with how often its policy has one.
LEMMA PeriodFacts ==
  ASSUME NEW p \in Policies, NEW t \in 0..MaxClock
  PROVE  Period(p, t) \in Periods /\ Period(p, t)[1] = p.every
BY DEF Periods, Period

\* The rate of a period is the largest quantity of a policy that has it.
LEMMA RateFacts ==
  ASSUME NEW d \in Periods
  PROVE  /\ Rate(d) \in Nat
         /\ \A p \in Policies : p.every = d[1] => p.quantity <= Rate(d)
<1> DEFINE Q == {q \in Policies : q.every = d[1]}
           S == {q.quantity : q \in Q}
<1>1. PICK p \in Policies, t \in 0..MaxClock : d = Period(p, t)
  BY DEF Periods
<1>1a. d[1] = p.every
  BY <1>1, PeriodFacts
<1>2. IsFiniteSet(S)
  <2>1. IsFiniteSet(Q)
    BY FS_Subset, PoolAssumption
  <2>2. [q \in Q |-> q.quantity] \in Surjection(Q, S)
    BY DEF Surjection
  <2> QED BY <2>1, <2>2, FS_Surjection
<1>3. S # {} /\ \A x \in S : x \in Nat
  BY <1>1a, PoolAssumption
<1>4. Rate(d) = Max(S)
  BY DEF Rate
<1> HIDE DEF S
<1>5. Max(S) \in S /\ \A x \in S : x <= Max(S)
  BY <1>2, <1>3, MaxFacts
<1> QED BY <1>3, <1>4, <1>5 DEF S

\* The types of the jobs' phases follow from those of the jobs.
LEMMA PhasesTyped ==
  ASSUME NEW j \in [Handlers -> Jobs]
  PROVE  \A h \in Handlers : j[h].phase \in
           {"idle", "collect?", "contributions", "collect", "policy", "supplies", "released?", "release"}
BY DEF Jobs, IdleJob

\* Nothing is asked for, collected or released when the program starts.
LEMMA PoolInit == Init => PoolInv
<1> SUFFICES ASSUME Init PROVE PoolInv
  OBVIOUS
<1>1. None \in [Users -> Nat] /\ None \in [Users -> Int]
  BY DEF None
<1>3. JobsOK
  BY IdleRight DEF Init, JobsOK
<1>2. TypeOK
  <2>0. MaxClock \in Nat /\ Granted \subseteq Nat
    BY PoolAssumption
  <2>1. clock \in 0..MaxClock /\ policy \in Policies
    BY <2>0 DEF Init
  <2>3. left \in [Users -> Nat]
    BY <2>0 DEF Init
  <2>2. /\ collected \in BOOLEAN /\ stake \in [Users -> Nat] /\ supply \in [Users -> Int]
        /\ created \in Nat /\ timer \in [{Collector, Releaser} -> BOOLEAN]
    BY <1>1 DEF Init
  <2> QED BY <1>3, <2>1, <2>2, <2>3, PhasesTyped DEF TypeOK, JobsOK
<1>4. released = {} /\ created = 0
  BY DEF Init
<1>5. IsFiniteSet(released)
  BY <1>4, FS_EmptySet
<1>6. SumFunction([period \in released |-> Rate(period)]) = 0
  BY <1>4, SumEmpty DEF SumFunction
<1>7. RateKept
  BY <1>4, <1>6 DEF RateKept
<1> QED BY <1>2, <1>3, <1>4, <1>5, <1>7 DEF PoolInv

\* A handler takes up another job, and the others stay at theirs.
LEMMA JobChanged ==
  ASSUME JobsOK, NEW h \in Handlers, NEW j \in Jobs, JobRight(j), Goto(h, j)
  PROVE  JobsOK' /\ \A g \in Handlers : job'[g] = IF g = h THEN j ELSE job[g]
BY DEF JobsOK, JobRight, Goto

\* A step that only gives a handler another job, and may stop a timer or count a request.
LEMMA JobStep ==
  ASSUME PoolInv, NEW h \in Handlers, NEW j \in Jobs, JobRight(j), Goto(h, j),
         Stop(h) \/ UNCHANGED timer, UNCHANGED <<clock, left, pool, policy>>
  PROVE  PoolInv'
<1>1. JobsOK'
  BY JobChanged DEF PoolInv
<1>2. timer' \in [{Collector, Releaser} -> BOOLEAN]
  BY DEF PoolInv, TypeOK, Stop
<1>3. TypeOK'
  <2>1. \A g \in Handlers : job'[g].phase \in
          {"idle", "collect?", "contributions", "collect", "policy", "supplies", "released?", "release"}
    BY <1>1, PhasesTyped DEF JobsOK
  <2> QED BY <1>2, <2>1 DEF PoolInv, TypeOK, pool
<1>4. RateKept' /\ released' \subseteq Periods /\ IsFiniteSet(released')
  BY DEF PoolInv, RateKept, pool
<1> QED BY <1>1, <1>3, <1>4 DEF PoolInv

\* The steps of a collection before its commit.
LEMMA CollectionSteps ==
  ASSUME PoolInv, NEW h \in Handlers,
         (\E y \in Years : StartCollect(h, y)) \/ CheckCollected(h) \/ ReadContributions(h)
  PROVE  PoolInv'
<1>0. job \in [Handlers -> Jobs] /\ job[h] \in Jobs
  BY DEF PoolInv, JobsOK
<1>1. ASSUME NEW y \in Years, StartCollect(h, y) PROVE PoolInv'
  <2> DEFINE j == [phase |-> "collect?", year |-> y]
  <2>1. j \in Jobs /\ JobRight(j)
    BY DEF Jobs, JobRight, Years
  <2>2. Goto(h, j) /\ UNCHANGED timer /\ UNCHANGED <<clock, left, pool, policy>>
    BY <1>1 DEF StartCollect
  <2> HIDE DEF j
  <2> QED BY <2>1, <2>2, JobStep
<1>2. ASSUME CheckCollected(h) PROVE PoolInv'
  <2> DEFINE j == [job[h] EXCEPT !.phase = "contributions"]
  <2>1. job[h] \in [phase : {"collect?", "contributions"}, year : Int]
    BY <1>0, <1>2, JobFacts DEF CheckCollected
  <2>2. j \in Jobs /\ JobRight(j)
    BY <2>1 DEF Jobs, JobRight
  <2>3. /\ (Goto(h, IdleJob) /\ Stop(h)) \/ (Goto(h, j) /\ UNCHANGED timer)
        /\ UNCHANGED <<clock, left, pool, policy>>
    BY <1>2 DEF CheckCollected, Finish
  <2> HIDE DEF j
  <2> QED BY <2>2, <2>3, JobStep, IdleRight
<1>3. ASSUME ReadContributions(h) PROVE PoolInv'
  <2> DEFINE days == IF job[h].year = 0 THEN left ELSE None
             j == [phase |-> "collect", days |-> days]
  <2>1. days \in [Users -> Nat]
    BY DEF PoolInv, TypeOK, None
  <2>2. j \in Jobs /\ JobRight(j)
    BY <2>1 DEF Jobs, JobRight
  <2>3. /\ (Goto(h, IdleJob) /\ Stop(h)) \/ (Goto(h, j) /\ UNCHANGED timer)
        /\ UNCHANGED <<clock, left, pool, policy>>
    BY <1>3 DEF ReadContributions, Finish
  <2> HIDE DEF j
  <2> QED BY <2>2, <2>3, JobStep, IdleRight
<1> QED BY <1>1, <1>2, <1>3

\* The commit of a collection.
LEMMA CollectStep == ASSUME PoolInv, NEW h \in Handlers, Collect(h) PROVE PoolInv'
<1>1. job[h] \in Jobs /\ job[h].phase = "collect" /\ Goto(h, IdleJob) /\ JobsOK
  BY DEF PoolInv, JobsOK, Collect, Finish
<1>2. job[h].days \in [Users -> Nat] /\ job[h].days \in [Users -> Int]
  <2>1. job[h].days \in [Users -> Nat]
    BY <1>1, JobFacts
  <2> QED BY <2>1
<1>3. JobsOK'
  BY <1>1, JobChanged, IdleRight
<1>4. /\ UNCHANGED <<clock, left, released, created, policy>>
      /\ \/ collected' = TRUE /\ stake' = job[h].days /\ supply' = job[h].days /\ Stop(h)
         \/ UNCHANGED <<collected, stake, supply, timer>>
  BY DEF Collect
<1>5. TypeOK'
  <2>1. timer' \in [{Collector, Releaser} -> BOOLEAN]
    BY <1>4 DEF PoolInv, TypeOK, Stop
  <2>2. collected' \in BOOLEAN /\ stake' \in [Users -> Nat] /\ supply' \in [Users -> Int]
    BY <1>2, <1>4 DEF PoolInv, TypeOK
  <2>3. \A g \in Handlers : job'[g].phase \in
          {"idle", "collect?", "contributions", "collect", "policy", "supplies", "released?", "release"}
    BY <1>3, PhasesTyped DEF JobsOK
  <2> QED BY <1>4, <2>1, <2>2, <2>3 DEF PoolInv, TypeOK
<1>6. RateKept' /\ released' \subseteq Periods /\ IsFiniteSet(released')
  BY <1>4 DEF PoolInv, RateKept
<1> QED BY <1>3, <1>5, <1>6 DEF PoolInv

\* The days that ReadSupplies finds.
Found(h) == IF job[h].year = 0 THEN [u \in Users |-> IF supply[u] > 0 THEN supply[u] ELSE 0] ELSE None

\* What a release is about to take.
Wanted(h) == Quantity(job[h].policy, Total(job[h].rest))

\* A release is about to take from what it found, in turn, and no more than its period may.
LEMMA WantedFacts ==
  ASSUME PoolInv, NEW h \in Handlers, job[h].phase = "released?"
  PROVE  /\ job[h].rest \in [Users -> Nat] /\ Wanted(h) \in Nat
         /\ Taking(job[h].rest, Taken(job[h].rest, Wanted(h)), Wanted(h))
         /\ LET j == [phase |-> "release", period |-> job[h].period,
                      take |-> Taken(job[h].rest, Wanted(h))]
            IN j \in Jobs /\ JobRight(j)
<1> DEFINE t == Taken(job[h].rest, Wanted(h))
           j == [phase |-> "release", period |-> job[h].period, take |-> t]
<1>1. /\ job[h].policy \in Policies /\ job[h].period \in Periods /\ job[h].rest \in [Users -> Nat]
      /\ job[h].period[1] = job[h].policy.every
  <2>1. job[h] \in Jobs /\ JobRight(job[h])
    BY DEF PoolInv, JobsOK
  <2> QED BY <2>1, JobFacts DEF JobRight
<1>2. job[h].policy.quantity \in Nat /\ Total(job[h].rest) \in Nat
  <2>1. job[h].rest \in [Users -> Int]
    BY <1>1
  <2>2. Total(job[h].rest) \in Nat
    BY <1>1, <2>1, TotalFacts
  <2> QED BY <1>1, <2>2, PoolAssumption
<1>3. Wanted(h) \in Nat /\ (job[h].policy.every # 0 => Wanted(h) <= job[h].policy.quantity)
  BY <1>2 DEF Wanted, Quantity
<1>4. Taking(job[h].rest, t, Wanted(h))
  BY <1>1, <1>3, TakenFacts
<1>5. t \in [Users -> Nat] /\ t \in [Users -> Int] /\ SumFunctionOnSet(t, Users) <= Wanted(h)
  <2>1. t \in [Users -> Nat] /\ SumFunctionOnSet(t, Users) <= Wanted(h)
    BY <1>4 DEF Taking
  <2> QED BY <2>1
<1>6. Total(t) \in Int /\ Total(t) <= Wanted(h)
  <2> HIDE DEF t
  <2> QED BY <1>5, TotalFacts
<1> HIDE DEF t
<1>7. job[h].period[1] # 0 => Total(t) <= Rate(job[h].period)
  <2>1. Rate(job[h].period) \in Nat /\ job[h].policy.quantity <= Rate(job[h].period)
    BY <1>1, RateFacts
  <2> QED BY <1>1, <1>2, <1>3, <1>6, <2>1
<1>8. j \in Jobs
  BY <1>1, <1>5 DEF Jobs
<1>9. JobRight(j)
  BY <1>7 DEF JobRight
<1> QED BY <1>1, <1>3, <1>4, <1>8, <1>9 DEF t

\* The steps of a release before its commit.
LEMMA ReleaseSteps ==
  ASSUME PoolInv, NEW h \in Handlers,
         \/ \E y \in Years, force \in BOOLEAN : StartRelease(h, y, force)
         \/ ReadPolicy(h) \/ ReadSupplies(h) \/ CheckReleased(h)
  PROVE  PoolInv'
<1>0. job \in [Handlers -> Jobs] /\ job[h] \in Jobs /\ JobRight(job[h])
  BY DEF PoolInv, JobsOK
<1>1. ASSUME NEW y \in Years, NEW force \in BOOLEAN, StartRelease(h, y, force) PROVE PoolInv'
  <2> DEFINE j == [phase |-> "policy", year |-> y, force |-> force]
  <2>1. j \in Jobs /\ JobRight(j)
    BY DEF Jobs, JobRight, Years
  <2>2. Goto(h, j) /\ UNCHANGED timer /\ UNCHANGED <<clock, left, pool, policy>>
    BY <1>1 DEF StartRelease
  <2> HIDE DEF j
  <2> QED BY <2>1, <2>2, JobStep
<1>2. ASSUME ReadPolicy(h) PROVE PoolInv'
  <2> DEFINE j == [phase |-> "supplies", year |-> job[h].year, policy |-> policy,
                   period |-> Period(policy, clock), due |-> job[h].force \/ Due(policy, clock)]
  <2>1. job[h] \in [phase : {"policy"}, year : Int, force : BOOLEAN]
    BY <1>0, <1>2, JobFacts DEF ReadPolicy
  <2>2. policy \in Policies /\ Period(policy, clock) \in Periods /\ Period(policy, clock)[1] = policy.every
    BY PeriodFacts DEF PoolInv, TypeOK
  <2>3. (job[h].force \/ Due(policy, clock)) \in BOOLEAN
    OBVIOUS
  <2>4. j \in Jobs
    BY <2>1, <2>2, <2>3 DEF Jobs
  <2>5. JobRight(j)
    BY <2>2 DEF JobRight
  <2>6. Goto(h, j) /\ UNCHANGED timer /\ UNCHANGED <<clock, left, pool, policy>>
    BY <1>2 DEF ReadPolicy
  <2> HIDE DEF j
  <2> QED BY <2>4, <2>5, <2>6, JobStep
<1>3. ASSUME ReadSupplies(h) PROVE PoolInv'
  <2> DEFINE j == [phase |-> "released?", year |-> job[h].year, policy |-> job[h].policy,
                   period |-> job[h].period, due |-> job[h].due, rest |-> Found(h)]
  <2>1. job[h] \in [phase : {"supplies"}, year : Int, policy : Policies, period : Periods, due : BOOLEAN]
        /\ job[h].period[1] = job[h].policy.every
    BY <1>0, <1>3, JobFacts DEF ReadSupplies, JobRight
  <2>2. Found(h) \in [Users -> Nat]
    BY DEF Found, None, PoolInv, TypeOK
  <2>3. j \in Jobs
    BY <2>1, <2>2 DEF Jobs
  <2>4. JobRight(j)
    BY <2>1 DEF JobRight
  <2>5. Goto(h, j) /\ UNCHANGED timer /\ UNCHANGED <<clock, left, pool, policy>>
    BY <1>3 DEF ReadSupplies, Found
  <2> HIDE DEF j
  <2> QED BY <2>3, <2>4, <2>5, JobStep
<1>4. ASSUME CheckReleased(h) PROVE PoolInv'
  <2> DEFINE j == [phase |-> "release", period |-> job[h].period,
                   take |-> Taken(job[h].rest, Wanted(h))]
  <2>1. j \in Jobs /\ JobRight(j)
    BY <1>4, WantedFacts DEF CheckReleased
  <2>2. /\ \/ Goto(h, IdleJob) /\ (UNCHANGED timer \/ Stop(h))
           \/ Goto(h, j) /\ UNCHANGED timer
        /\ UNCHANGED <<clock, left, pool, policy>>
    BY <1>4 DEF CheckReleased, Finish, Wanted
  <2> HIDE DEF j
  <2> QED BY <2>1, <2>2, JobStep, IdleRight
<1> QED BY <1>1, <1>2, <1>3, <1>4

\* The commit of a release adds its period and no more than its rate.
LEMMA ReleaseStep == ASSUME PoolInv, NEW h \in Handlers, Release(h) PROVE PoolInv'
<1> DEFINE d == job[h].period
           t == job[h].take
           f == [period \in released |-> Rate(period)]
<1>1. /\ job[h] \in Jobs /\ JobRight(job[h]) /\ job[h].phase = "release" /\ Goto(h, IdleJob) /\ JobsOK
      /\ UNCHANGED <<clock, left, collected, stake, policy, timer>>
  BY DEF PoolInv, JobsOK, Release, Finish
<1>2. JobsOK'
  BY <1>1, JobChanged, IdleRight
<1>3. \A g \in Handlers : job'[g].phase \in
        {"idle", "collect?", "contributions", "collect", "policy", "supplies", "released?", "release"}
  BY <1>2, PhasesTyped DEF JobsOK
<1>4. d \in Periods /\ t \in [Users -> Nat] /\ (d[1] # 0 => Total(t) <= Rate(d))
  BY <1>1, JobFacts DEF JobRight
<1> HIDE DEF d, t
<1>5. Total(t) \in Nat /\ t \in [Users -> Int] /\ Rate(d) \in Nat
  <2>1. t \in [Users -> Int]
    BY <1>4
  <2> QED BY <1>4, <2>1, TotalFacts, RateFacts
<1>6. CASE UNCHANGED <<supply, created, released>>
  BY <1>1, <1>2, <1>3, <1>6 DEF PoolInv, TypeOK, RateKept
<1>7. CASE /\ d \notin released
           /\ supply' = [u \in Users |-> supply[u] - t[u]]
           /\ created' = created + Total(t)
           /\ released' = released \cup {d}
  <2>1. supply' \in [Users -> Int] /\ created' \in Nat /\ created \in Nat
    BY <1>4, <1>5, <1>7 DEF PoolInv, TypeOK
  <2>2. TypeOK'
    BY <1>1, <1>3, <2>1 DEF PoolInv, TypeOK
  <2>3. released' \subseteq Periods /\ released \subseteq Periods
    BY <1>4, <1>7 DEF PoolInv
  <2>4. IsFiniteSet(released') /\ IsFiniteSet(released)
    BY <1>7, FS_AddElement DEF PoolInv
  <2>5. ASSUME \A period \in released' : period[1] # 0
        PROVE  created' <= SumFunction([period \in released' |-> Rate(period)])
    <3> DEFINE g == [period \in released' |-> Rate(period)]
    <3>1. IntOn(g, released') /\ IntOn(f, released) /\ g[d] = Rate(d) /\ d \in released'
          /\ \A x \in released : g[x] = f[x]
      BY <1>7, <2>3, RateFacts DEF IntOn
    <3>2. released' \ {d} = released
      BY <1>7
    <3> HIDE DEF f, g
    <3>3. SumFunctionOnSet(g, released') = g[d] + SumFunctionOnSet(g, released)
      BY <2>4, <3>1, <3>2, SumRemove
    <3>4. SumFunctionOnSet(g, released) = SumFunctionOnSet(f, released)
      BY <2>4, <3>1, SumSame
    <3>5. SumFunctionOnSet(f, released) \in Int
      BY <2>4, <3>1, SumType
    <3>6. created <= SumFunctionOnSet(f, released)
      BY <1>7, <2>5 DEF PoolInv, RateKept, SumFunction, f
    <3>7. created' <= SumFunctionOnSet(g, released')
      BY <1>4, <1>5, <1>7, <2>1, <2>5, <3>1, <3>3, <3>4, <3>5, <3>6
    <3> QED BY <3>7 DEF SumFunction, g
  <2>6. RateKept'
    BY <2>5 DEF RateKept
  <2> QED BY <1>2, <2>2, <2>3, <2>4, <2>6 DEF PoolInv
<1> QED BY <1>6, <1>7 DEF Release, PeriodFree, d, t

\* What is not a handler's work: a use of leave, a policy, the time, a restart.
LEMMA OtherSteps ==
  ASSUME PoolInv, \/ \E u \in Users : UseLeave(u)
                  \/ \E p \in Policies : UpdatePolicy(p)
                  \/ TimePasses \/ Reboot
  PROVE  PoolInv'
<1>1. UNCHANGED pool
  BY DEF UseLeave, UpdatePolicy, TimePasses, Reboot
<1>2. RateKept' /\ released' \subseteq Periods /\ IsFiniteSet(released')
  BY <1>1 DEF PoolInv, RateKept, pool
<1>3. JobsOK'
  <2>1. CASE UNCHANGED job
    BY <2>1 DEF PoolInv, JobsOK
  <2>2. CASE job' = [h \in Handlers |-> IdleJob]
    BY <2>2, IdleRight DEF JobsOK
  <2> QED BY <2>1, <2>2 DEF UseLeave, UpdatePolicy, TimePasses, Reboot
<1>4. \A g \in Handlers : job'[g].phase \in
        {"idle", "collect?", "contributions", "collect", "policy", "supplies", "released?", "release"}
  BY <1>3, PhasesTyped DEF JobsOK
<1>5. clock' \in 0..MaxClock
  <2>1. MaxClock \in Nat
    BY PoolAssumption
  <2> QED BY <2>1 DEF PoolInv, TypeOK, UseLeave, UpdatePolicy, TimePasses, Reboot
<1>6. left' \in [Users -> Nat]
  BY DEF PoolInv, TypeOK, UseLeave, Usable, UpdatePolicy, TimePasses, Reboot
<1>7. policy' \in Policies /\ timer' \in [{Collector, Releaser} -> BOOLEAN]
  BY DEF PoolInv, TypeOK, UseLeave, UpdatePolicy, TimePasses, Reboot
<1>8. TypeOK'
  BY <1>1, <1>4, <1>5, <1>6, <1>7 DEF PoolInv, TypeOK, pool
<1> QED BY <1>2, <1>3, <1>8 DEF PoolInv

\* Every step keeps the types and the rates.
LEMMA PoolNext == PoolInv /\ [Next]_vars => PoolInv'
<1> SUFFICES ASSUME PoolInv, [Next]_vars PROVE PoolInv'
  OBVIOUS
<1>1. CASE UNCHANGED vars
  BY <1>1 DEF vars, pool, counts, PoolInv, TypeOK, JobsOK, RateKept
<1>2. Collector \in Handlers /\ Releaser \in Handlers /\ Admins \subseteq Handlers
  BY DEF Handlers
<1>3. CASE TickCollector \/ TickReleaser
  BY <1>2, <1>3, CollectionSteps, ReleaseSteps DEF TickCollector, TickReleaser
<1>4. CASE \E h \in Admins, y \in Years :
             StartCollect(h, y) \/ \E force \in BOOLEAN : StartRelease(h, y, force)
  BY <1>2, <1>4, CollectionSteps, ReleaseSteps
<1>5. CASE \E h \in Handlers : Go(h)
  BY <1>5, CollectionSteps, CollectStep, ReleaseSteps, ReleaseStep DEF Go
<1>6. CASE (\E u \in Users : UseLeave(u)) \/ (\E p \in Policies : UpdatePolicy(p))
           \/ TimePasses \/ Reboot
  BY <1>6, OtherSteps
<1> QED BY <1>1, <1>3, <1>4, <1>5, <1>6 DEF Next

\* In every behaviour, whatever requests, timers and policies cross, every variable of the pool
\* keeps its type (collect-leave-pool.use-case.ts, release-inventory.use-case.ts).
THEOREM PoolTyped == Spec => []TypeOK
<1>1. PoolInv => TypeOK
  BY DEF PoolInv
<1> QED BY <1>1, PoolInit, PoolNext, PTL DEF Spec

\* No period ever releases more than the quantity of a policy that has it, whoever asks, how
\* often, and however the policy changes (leave_pool_release_run, release-inventory.use-case.ts).
THEOREM PeriodsKeepRate == Spec => []RateKept
<1>1. PoolInv => RateKept
  BY DEF PoolInv
<1> QED BY <1>1, PoolInit, PoolNext, PTL DEF Spec

-----------------------------------------------------------------------------
(* The balance of the pool.                                                *)

\* Before a collection there is nothing to release.
Uncollected == ~ collected => stake = None /\ supply = None /\ created = 0

\* What a release has read is the supply, and what it takes is taken from it, until the period
\* is another release's.
ReadSupply(j) ==
  /\ j.phase = "released?" => \/ j.rest = None
                              \/ collected /\ (j.period \in released \/ j.rest = supply)
  /\ j.phase = "release" => \/ j.period \in released
                            \/ collected /\ \E need \in Nat : j.take = Taken(supply, need)

SteadyInv == /\ SamePeriod /\ Uncollected /\ PoolBalanced
             /\ \A h \in Handlers : ReadSupply(job[h])

\* Nothing is collected and nobody reads when the program starts.
LEMMA SteadyInit == Init => SteadyInv
<1> SUFFICES ASSUME Init PROVE SteadyInv
  OBVIOUS
<1>1. \A h \in Handlers : job[h] = IdleJob
  BY DEF Init
<1>2. SamePeriod /\ \A h \in Handlers : ReadSupply(job[h])
  BY <1>1 DEF SamePeriod, Releasing, ReadSupply, IdleJob
<1>3. Uncollected
  BY DEF Init, Uncollected
<1>4. PoolBalanced
  <2>1. Total(None) = 0
    <3>1. None \in [Users -> Int]
      BY DEF None
    <3>2. Total(None) = SumFunctionOnSet(None, Users)
      BY <3>1, TotalFacts
    <3> QED BY <3>2, SumZero, PoolAssumption DEF None
  <2> QED BY <2>1 DEF Init, PoolBalanced, None
<1> QED BY <1>2, <1>3, <1>4 DEF SteadyInv

\* A step that only gives a handler another job.
LEMMA SteadyJob ==
  ASSUME PoolInv, SteadyInv, SamePeriod', UNCHANGED pool,
         NEW h \in Handlers, NEW j \in Jobs, JobRight(j), ReadSupply(j), Goto(h, j)
  PROVE  SteadyInv'
<1>1. \A g \in Handlers : job'[g] = IF g = h THEN j ELSE job[g]
  BY JobChanged DEF PoolInv
<1>2. ASSUME NEW g \in Handlers PROVE ReadSupply(job[g])'
  BY <1>1 DEF SteadyInv, ReadSupply, pool
<1>3. Uncollected' /\ PoolBalanced'
  BY DEF SteadyInv, Uncollected, PoolBalanced, pool
<1> QED BY <1>2, <1>3 DEF SteadyInv

\* The steps of a collection before its commit, and the first two of a release, read no supply.
LEMMA SteadyReaders ==
  ASSUME PoolInv, SteadyInv, SamePeriod', NEW h \in Handlers,
         \/ \E y \in Years : StartCollect(h, y)
         \/ \E y \in Years, force \in BOOLEAN : StartRelease(h, y, force)
         \/ CheckCollected(h) \/ ReadContributions(h) \/ ReadPolicy(h)
  PROVE  SteadyInv'
<1>1. UNCHANGED pool
  BY DEF StartCollect, StartRelease, CheckCollected, ReadContributions, ReadPolicy
<1>2. PICK j : Goto(h, j) /\ j.phase \in {"idle", "collect?", "contributions", "collect", "policy", "supplies"}
  <2>0. job[h] \in Jobs
    BY DEF PoolInv, JobsOK
  <2>1. CASE \E y \in Years : StartCollect(h, y)
    BY <2>1 DEF StartCollect
  <2>2. CASE \E y \in Years, force \in BOOLEAN : StartRelease(h, y, force)
    BY <2>2 DEF StartRelease
  <2>3. CASE CheckCollected(h)
    <3>1. job[h] \in [phase : {"collect?", "contributions"}, year : Int]
      BY <2>0, <2>3, JobFacts DEF CheckCollected
    <3> QED BY <2>3, <3>1 DEF CheckCollected, Finish, IdleJob
  <2>4. CASE ReadContributions(h)
    BY <2>4 DEF ReadContributions, Finish, IdleJob
  <2>5. CASE ReadPolicy(h)
    BY <2>5 DEF ReadPolicy
  <2> QED BY <2>1, <2>2, <2>3, <2>4, <2>5
<1>3. \A g \in Handlers : job'[g] = IF g = h THEN j ELSE job[g]
  BY <1>2 DEF PoolInv, JobsOK, Goto
<1>4. ASSUME NEW g \in Handlers PROVE ReadSupply(job[g])'
  BY <1>1, <1>2, <1>3 DEF SteadyInv, ReadSupply, pool
<1>5. Uncollected' /\ PoolBalanced'
  BY <1>1 DEF SteadyInv, Uncollected, PoolBalanced, pool
<1> QED BY <1>4, <1>5 DEF SteadyInv

\* A release reads the supply.
LEMMA SteadyRead ==
  ASSUME PoolInv, SteadyInv, SamePeriod', NEW h \in Handlers, ReadSupplies(h)
  PROVE  SteadyInv'
<1>1. UNCHANGED pool /\ job[h].phase = "supplies" /\ job[h] \in Jobs
  BY DEF ReadSupplies, PoolInv, JobsOK
<1>2. \A g \in Handlers : g # h => job'[g] = job[g]
  BY DEF ReadSupplies, PoolInv, JobsOK, Goto
<1>3. job'[h].phase = "released?" /\ job'[h].rest = Found(h)
  BY DEF ReadSupplies, PoolInv, JobsOK, Goto, Found
<1>4. Found(h) = None \/ (collected /\ Found(h) = supply)
  <2>1. CASE collected
    <3>1. supply \in [Users -> Int] /\ \A u \in Users : supply[u] >= 0
      BY DEF PoolInv, TypeOK, SteadyInv, PoolBalanced
    <3>2. [u \in Users |-> IF supply[u] > 0 THEN supply[u] ELSE 0] = supply
      BY <3>1
    <3> QED BY <2>1, <3>2 DEF Found
  <2>2. CASE ~ collected
    BY <2>2 DEF SteadyInv, Uncollected, Found, None
  <2> QED BY <2>1, <2>2
<1>5. ASSUME NEW g \in Handlers PROVE ReadSupply(job[g])'
  <2>1. CASE g = h
    BY <1>1, <1>3, <1>4, <2>1 DEF ReadSupply, pool
  <2>2. CASE g # h
    BY <1>1, <1>2, <2>2 DEF SteadyInv, ReadSupply, pool
  <2> QED BY <2>1, <2>2
<1>6. Uncollected' /\ PoolBalanced'
  BY <1>1 DEF SteadyInv, Uncollected, PoolBalanced, pool
<1> QED BY <1>5, <1>6 DEF SteadyInv

\* A release decides what to take of the supply it read.
LEMMA SteadyCheck ==
  ASSUME PoolInv, SteadyInv, SamePeriod', NEW h \in Handlers, CheckReleased(h)
  PROVE  SteadyInv'
<1> DEFINE t == Taken(job[h].rest, Wanted(h))
           j == [phase |-> "release", period |-> job[h].period, take |-> t]
<1>1. job[h].phase = "released?" /\ UNCHANGED pool
  BY DEF CheckReleased
<1>2. Wanted(h) \in Nat /\ j \in Jobs /\ JobRight(j)
  BY <1>1, WantedFacts
<1>3. \/ Goto(h, IdleJob)
      \/ Goto(h, j) /\ Total(job[h].rest) # 0
  BY DEF CheckReleased, Finish, Wanted
<1>4. CASE Goto(h, IdleJob)
  <2>1. ReadSupply(IdleJob)
    BY DEF ReadSupply, IdleJob
  <2> QED BY <1>1, <1>4, <2>1, IdleRight, SteadyJob
<1>5. CASE Goto(h, j) /\ Total(job[h].rest) # 0
  <2>1. job[h].rest # None
    <3>1. None \in [Users -> Int]
      BY DEF None
    <3>2. Total(None) = SumFunctionOnSet(None, Users)
      BY <3>1, TotalFacts
    <3>3. Total(None) = 0
      BY <3>2, SumZero, PoolAssumption DEF None
    <3> QED BY <1>5, <3>3
  <2>2. collected /\ (job[h].period \in released \/ job[h].rest = supply)
    BY <1>1, <2>1 DEF SteadyInv, ReadSupply
  <2>3. ReadSupply(j)
    BY <1>2, <2>2 DEF ReadSupply
  <2> HIDE DEF j
  <2> QED BY <1>1, <1>2, <1>5, <2>3, SteadyJob
<1> QED BY <1>3, <1>4, <1>5

\* A collection is of all that is contributed, and there is one.
LEMMA SteadyCollect ==
  ASSUME PoolInv, SteadyInv, SamePeriod', NEW h \in Handlers, Collect(h)
  PROVE  SteadyInv'
<1>1. /\ job[h].phase = "collect" /\ job[h] \in Jobs /\ Goto(h, IdleJob)
      /\ UNCHANGED <<released, created>>
      /\ \/ /\ ~ collected /\ collected' = TRUE /\ stake' = job[h].days /\ supply' = job[h].days
         \/ UNCHANGED <<collected, stake, supply>>
  BY DEF PoolInv, JobsOK, Collect, Finish, MarkerFree
<1>2. \A g \in Handlers : job'[g] = IF g = h THEN IdleJob ELSE job[g]
  BY <1>1 DEF PoolInv, JobsOK, Goto
<1>3. CASE UNCHANGED <<collected, stake, supply>>
  <2>1. ReadSupply(IdleJob)
    BY DEF ReadSupply, IdleJob
  <2> QED BY <1>1, <1>3, <2>1, IdleRight, SteadyJob DEF pool
<1>4. CASE ~ collected /\ collected' = TRUE /\ stake' = job[h].days /\ supply' = job[h].days
  <2>1. job[h].days \in [Users -> Nat]
    BY <1>1, JobFacts
  <2>2. PoolBalanced'
    <3>1. created' = 0
      BY <1>1, <1>4 DEF SteadyInv, Uncollected
    <3>2. job[h].days \in [Users -> Int]
      BY <2>1
    <3>3. Total(job[h].days) \in Int
      BY <3>2, TotalFacts
    <3>4. (created + Total(supply) = Total(stake))'
      BY <1>4, <3>1, <3>3 DEF Total
    <3> QED BY <1>4, <2>1, <3>4 DEF PoolBalanced
  <2>3. ASSUME NEW g \in Handlers PROVE ReadSupply(job[g])'
    BY <1>1, <1>2, <1>4 DEF SteadyInv, ReadSupply, IdleJob
  <2>4. Uncollected'
    BY <1>4 DEF Uncollected
  <2> QED BY <2>2, <2>3, <2>4 DEF SteadyInv
<1> QED BY <1>1, <1>3, <1>4

\* What a release commits is a share of the supply, taken in turn.
LEMMA SteadyTake ==
  ASSUME PoolInv, SteadyInv, NEW h \in Handlers, Release(h), PeriodFree(h)
  PROVE  /\ job[h].take \in [Users -> Nat] /\ supply \in [Users -> Nat]
         /\ \A u \in Users : job[h].take[u] <= supply[u]
         /\ InTurn(supply, job[h].take) /\ collected
<1>1. supply \in [Users -> Nat]
  BY DEF PoolInv, TypeOK, SteadyInv, PoolBalanced
<1>2. PICK need \in Nat : job[h].take = Taken(supply, need) /\ collected
  BY DEF SteadyInv, ReadSupply, Release, PeriodFree
<1>3. Taking(supply, job[h].take, need)
  BY <1>1, <1>2, TakenFacts
<1> QED BY <1>1, <1>2, <1>3 DEF Taking

\* The commit of a release: what leaves the supply is what becomes auctions.
LEMMA SteadyRelease ==
  ASSUME PoolInv, SteadyInv, SamePeriod', NEW h \in Handlers, Release(h)
  PROVE  SteadyInv'
<1> DEFINE d == job[h].period
           t == job[h].take
<1>1. /\ job[h].phase = "release" /\ Goto(h, IdleJob) /\ UNCHANGED <<collected, stake>>
      /\ \/ /\ PeriodFree(h)
            /\ supply' = [u \in Users |-> supply[u] - t[u]]
            /\ created' = created + Total(t)
            /\ released' = released \cup {d}
         \/ UNCHANGED <<supply, created, released>>
  BY DEF Release, Finish
<1>2. \A g \in Handlers : job'[g] = IF g = h THEN IdleJob ELSE job[g]
  BY <1>1 DEF PoolInv, JobsOK, Goto
<1>3. CASE UNCHANGED <<supply, created, released>>
  <2>1. ReadSupply(IdleJob)
    BY DEF ReadSupply, IdleJob
  <2> QED BY <1>1, <1>3, <2>1, IdleRight, SteadyJob DEF pool
<1>4. CASE PeriodFree(h) /\ ~ UNCHANGED <<supply, created, released>>
  <2>1. /\ supply' = [u \in Users |-> supply[u] - t[u]]
        /\ created' = created + Total(t)
        /\ released' = released \cup {d}
    BY <1>1, <1>4
  <2>2. /\ t \in [Users -> Nat] /\ supply \in [Users -> Nat] /\ collected
        /\ \A u \in Users : t[u] <= supply[u]
    BY <1>4, SteadyTake
  <2>3. ASSUME NEW g \in Handlers PROVE ReadSupply(job[g])'
    <3>1. CASE g = h
      BY <1>2, <3>1 DEF ReadSupply, IdleJob
    <3>2. CASE g # h /\ Releasing(g)
      <4>1. job[g].period = d
        BY <1>1, <3>2 DEF SteadyInv, SamePeriod, Releasing
      <4> QED BY <1>1, <1>2, <2>1, <2>2, <3>2, <4>1 DEF ReadSupply
    <3>3. CASE g # h /\ ~ Releasing(g)
      BY <1>2, <3>3 DEF ReadSupply, Releasing
    <3> QED BY <3>1, <3>2, <3>3
  <2> HIDE DEF d, t
  <2>4. supply' \in [Users -> Nat] /\ \A u \in Users : supply[u] = supply'[u] + t[u]
    BY <2>1, <2>2
  <2>5. supply \in [Users -> Int] /\ supply' \in [Users -> Int] /\ t \in [Users -> Int]
    BY <2>2, <2>4
  <2>6. Total(supply) = Total(supply') + Total(t)
    <3>1. IsFiniteSet(Users) /\ IntOn(supply, Users) /\ IntOn(supply', Users) /\ IntOn(t, Users)
      BY <2>5, TotalFacts, PoolAssumption
    <3>2. SumFunctionOnSet(supply, Users) = SumFunctionOnSet(supply', Users) + SumFunctionOnSet(t, Users)
      BY <2>4, <3>1, SumAdd
    <3> QED BY <2>5, <3>2, TotalFacts
  <2>7. created \in Nat /\ Total(supply') \in Int /\ Total(t) \in Int
    BY <2>5, TotalFacts DEF PoolInv, TypeOK
  <2>8. created + Total(supply) = Total(stake) /\ stake' = stake
    BY <1>1 DEF SteadyInv, PoolBalanced
  <2>9. (created + Total(supply) = Total(stake))'
    BY <2>1, <2>6, <2>7, <2>8 DEF Total
  <2>10. PoolBalanced'
    BY <2>4, <2>9 DEF PoolBalanced
  <2>11. Uncollected'
    BY <1>1, <2>2 DEF Uncollected
  <2> QED BY <2>3, <2>10, <2>11 DEF SteadyInv
<1> QED BY <1>1, <1>3, <1>4

\* What is not a handler's work.
LEMMA SteadyOthers ==
  ASSUME PoolInv, SteadyInv, SamePeriod',
         \/ \E u \in Users : UseLeave(u)
         \/ \E p \in Policies : UpdatePolicy(p)
         \/ TimePasses \/ Reboot
  PROVE  SteadyInv'
<1>1. UNCHANGED pool /\ (UNCHANGED job \/ job' = [h \in Handlers |-> IdleJob])
  BY DEF UseLeave, UpdatePolicy, TimePasses, Reboot
<1>2. ASSUME NEW g \in Handlers PROVE ReadSupply(job[g])'
  BY <1>1 DEF SteadyInv, ReadSupply, IdleJob, pool
<1>3. Uncollected' /\ PoolBalanced'
  BY <1>1 DEF SteadyInv, Uncollected, PoolBalanced, pool
<1> QED BY <1>2, <1>3 DEF SteadyInv

\* Every step keeps the pool balanced, as long as releases at once are of one period.
LEMMA SteadyNext == PoolInv /\ SteadyInv /\ [Next /\ SamePeriod']_vars => SteadyInv'
<1> SUFFICES ASSUME PoolInv, SteadyInv, [Next /\ SamePeriod']_vars PROVE SteadyInv'
  OBVIOUS
<1>1. CASE UNCHANGED vars
  BY <1>1 DEF vars, pool, SteadyInv, SamePeriod, Releasing, Uncollected, PoolBalanced, ReadSupply
<1>2. Collector \in Handlers /\ Releaser \in Handlers /\ Admins \subseteq Handlers
  BY DEF Handlers
<1>3. CASE SamePeriod' /\ (TickCollector \/ TickReleaser)
  BY <1>2, <1>3, SteadyReaders DEF TickCollector, TickReleaser
<1>4. CASE SamePeriod' /\ \E h \in Admins, y \in Years :
             StartCollect(h, y) \/ \E force \in BOOLEAN : StartRelease(h, y, force)
  BY <1>2, <1>4, SteadyReaders
<1>5. CASE SamePeriod' /\ \E h \in Handlers : Go(h)
  BY <1>5, SteadyReaders, SteadyRead, SteadyCheck, SteadyCollect, SteadyRelease DEF Go
<1>6. CASE SamePeriod' /\ ((\E u \in Users : UseLeave(u)) \/ (\E p \in Policies : UpdatePolicy(p))
                          \/ TimePasses \/ Reboot)
  BY <1>6, SteadyOthers
<1> QED BY <1>1, <1>3, <1>4, <1>5, <1>6 DEF Next

\* Every contributed day is in the supply or was made an auction, and only one, and nobody's
\* supply is released beyond what is left of it, whatever collections and releases cross (OP-2;
\* collect-leave-pool.use-case.ts, release-inventory.use-case.ts), as long as releases at
\* once are of one period.
THEOREM PoolKept == SteadySpec => []PoolBalanced
<1>1. SteadyInv => PoolBalanced
  BY DEF SteadyInv
<1>2. [Next /\ SamePeriod']_vars => [Next]_vars
  OBVIOUS
<1> QED BY <1>1, <1>2, PoolInit, PoolNext, SteadyInit, SteadyNext, PTL DEF SteadySpec

\* A release is the only step that adds a period, and it takes in turn.
LEMMA TurnKept ==
  ASSUME PoolInv, SteadyInv, [Next]_vars, NEW u \in Users, NEW v \in Users,
         released' # released, supply'[v] > 0
  PROVE  supply[u] - supply'[u] <= supply[v] - supply'[v] + (IF u < v THEN 1 ELSE 0)
<1>1. PICK h \in Handlers : Release(h)
  <2>1. CASE \E h \in Handlers : Go(h)
    BY <2>1 DEF Go, CheckCollected, ReadContributions, Collect, ReadPolicy, ReadSupplies,
                CheckReleased, pool
  <2>2. CASE UNCHANGED vars
    BY <2>2 DEF vars, pool
  <2>3. ASSUME NEW h, NEW y, StartCollect(h, y) \/ \E force : StartRelease(h, y, force)
        PROVE  FALSE
    BY <2>3 DEF StartCollect, StartRelease, pool
  <2>4. CASE (\E w \in Users : UseLeave(w)) \/ (\E p \in Policies : UpdatePolicy(p))
             \/ TimePasses \/ Reboot
    BY <2>4 DEF UseLeave, UpdatePolicy, TimePasses, Reboot, pool
  <2> QED BY <2>1, <2>2, <2>3, <2>4 DEF Next, TickCollector, TickReleaser
<1>2. PeriodFree(h) /\ supply' = [w \in Users |-> supply[w] - job[h].take[w]]
  BY <1>1 DEF Release
<1>3. /\ job[h].take \in [Users -> Nat] /\ supply \in [Users -> Nat]
      /\ InTurn(supply, job[h].take)
  BY <1>1, <1>2, SteadyTake
<1> DEFINE t == job[h].take
<1> HIDE DEF t
<1>4. /\ supply'[u] = supply[u] - t[u] /\ supply'[v] = supply[v] - t[v]
      /\ t[u] \in Nat /\ t[v] \in Nat /\ supply[u] \in Nat /\ supply[v] \in Nat
  BY <1>2, <1>3 DEF t
<1>5. t[v] < supply[v]
  BY <1>4
<1>6. t[u] <= t[v] + (IF u < v THEN 1 ELSE 0)
  BY <1>3, <1>5 DEF InTurn, t
<1> QED BY <1>4, <1>6

\* A release takes from the members in turn: who has days left has given as many as anyone else,
\* one fewer at most, and that only to a member of a smaller id (release-allocator.ts), as long
\* as releases at once are of one period.
THEOREM ReleasedInTurn == SteadySpec => TakenInTurn
<1>1. PoolInv /\ SteadyInv /\ [Next /\ SamePeriod']_vars
      => [\A u, v \in Users :
            LET gave(w) == supply[w] - supply'[w] IN
            released' # released /\ supply'[v] > 0 =>
              gave(u) <= gave(v) + (IF u < v THEN 1 ELSE 0)]_vars
  BY TurnKept
<1>2. [Next /\ SamePeriod']_vars => [Next]_vars
  OBVIOUS
<1> QED BY <1>1, <1>2, PoolInit, PoolNext, SteadyInit, SteadyNext, PTL DEF SteadySpec, TakenInTurn
=============================================================================
