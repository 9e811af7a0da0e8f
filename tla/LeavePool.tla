----------------------------- MODULE LeavePool -----------------------------
(***************************************************************************)
(* The leave pool of one company: at the end of a year the members' unused *)
(* regular leave is collected as stakes and supply, and in the next year   *)
(* the supply is released, some days each period, as one-day auctions.     *)
(*                                                                         *)
(* Collection and release are handlers that read first, outside any        *)
(* transaction, and commit in one; administrators and two timers run them. *)
(* Time is counted in instants, YearLength to a year; the last of a year   *)
(* is the minute from 31 December, 23:59.  The leave of year 0 is what the *)
(* module follows: other years have none.                                  *)
(***************************************************************************)
EXTENDS Integers, FiniteSets, FiniteSetsExt, Functions

CONSTANTS
  Users,                \* user ids, naturals
  Admins, Collector, Releaser,
  Granted,              \* regular leave a member may have left when the model starts
  Policies,             \* the release policies an administrator may set
  YearLength, MaxClock, \* MaxClock is a bound
  MaxUses, MaxReboots,  \* bounds: days of leave used, restarts of the process
  MaxRequests           \* bound: requests of administrators

\* A policy opens a period every so many instants, at the from-th of them, for so
\* many days; every = 0 is cadence "none": everything at once.
ASSUME PoolAssumption ==
  /\ Users \subseteq Nat /\ IsFiniteSet(Users) /\ Granted \subseteq Nat
  /\ Collector # Releaser /\ {Collector, Releaser} \cap Admins = {}
  /\ Policies \subseteq [every : Nat, from : Nat, quantity : Nat \ {0}] /\ IsFiniteSet(Policies)
  /\ YearLength \in Nat \ {0} /\ {MaxClock, MaxUses, MaxReboots, MaxRequests} \subseteq Nat

VARIABLES
  clock,
  left,       \* leave_balance, REGULAR, year 0: granted + adjusted - used
  collected,  \* whether leave_pool_run has a row for target year 1
  stake, supply,  \* stake.days; leave_pool_supply.remaining_days
  released,   \* leave_pool_release_run: the periods
  created,    \* auctions made from the pool
  policy,     \* release_policy
  job,        \* what each handler is doing
  timer,      \* whether the interval timers of the schedulers still run
  uses, reboots, requests

pool   == <<collected, stake, supply, released, created>>
counts == <<uses, reboots, requests>>
vars   == <<clock, left, pool, policy, job, timer, counts>>

Handlers == Admins \cup {Collector, Releaser}
None     == [u \in Users |-> 0]
Total(f) == SumFunction(f)
YearOf(t) == t \div YearLength
IsCutoff(t) == t % YearLength = YearLength - 1

IdleJob == [phase |-> "idle"]

Init ==
  /\ clock = 0 /\ left \in [Users -> Granted]
  /\ collected = FALSE /\ stake = None /\ supply = None /\ released = {} /\ created = 0
  /\ policy \in Policies
  /\ job = [h \in Handlers |-> IdleJob] /\ timer = [h \in {Collector, Releaser} |-> TRUE]
  /\ uses = 0 /\ reboots = 0 /\ requests = 0

Asked(h) == IF h \in Admins THEN requests < MaxRequests /\ requests' = requests + 1
                            ELSE UNCHANGED requests
Idle(h)  == job[h].phase = "idle"
Goto(h, j) == job' = [job EXCEPT ![h] = j]
Finish(h) == Goto(h, IdleJob)
Stop(h)   == timer' = IF h \in DOMAIN timer THEN [timer EXCEPT ![h] = FALSE] ELSE timer

-----------------------------------------------------------------------------
(* Collection.                                                             *)

StartCollect(h, year) ==
  /\ Idle(h) /\ Asked(h)
  /\ h = Collector => timer[h] /\ IsCutoff(clock) /\ year = YearOf(clock)
  /\ Goto(h, [phase |-> "collect?", year |-> year])
  /\ UNCHANGED <<clock, left, pool, policy, timer, uses, reboots>>

\* isCollected: a conflict is swallowed by executeAll, and the timer stops.
CheckCollected(h) ==
  /\ job[h].phase = "collect?"
  /\ IF job[h].year = 0 /\ collected
     THEN Finish(h) /\ Stop(h)
     ELSE Goto(h, [job[h] EXCEPT !.phase = "contributions"]) /\ UNCHANGED timer
  /\ UNCHANGED <<clock, left, pool, policy, counts>>

ReadContributions(h) ==
  LET days == IF job[h].year = 0 THEN left ELSE None IN
  /\ job[h].phase = "contributions"
  /\ IF days = None
     THEN Finish(h) /\ Stop(h)
     ELSE Goto(h, [phase |-> "collect", days |-> days]) /\ UNCHANGED timer
  /\ UNCHANGED <<clock, left, pool, policy, counts>>

MarkerFreeAlways == TRUE    \* Mutant: no unique index on leave_pool_run.
MarkerFree == ~ collected

\* The commit, or its roll-back by the unique index; then the timer goes on.
Collect(h) ==
  /\ job[h].phase = "collect"
  /\ Finish(h)
  /\ \/ /\ MarkerFree
        /\ collected' = TRUE /\ stake' = job[h].days /\ supply' = job[h].days
        /\ Stop(h)
     \/ ~ MarkerFree /\ UNCHANGED <<collected, stake, supply, timer>>
  /\ UNCHANGED <<clock, left, released, created, policy, counts>>

-----------------------------------------------------------------------------
(* Release.                                                                *)

\* take: round-robin by user id, a day at a time, from those who have days left.
TakenGreedy(rest, need) ==    \* Mutant: the first is emptied before the next.
  LET taken[n \in 0..need] ==
        IF n = 0 THEN None
        ELSE LET before == taken[n - 1]
                 open   == {u \in Users : before[u] < rest[u]}
                 next   == CHOOSE u \in open : \A v \in open : u <= v
             IN IF open = {} THEN before ELSE [before EXCEPT ![next] = @ + 1]
  IN taken[need]
Taken(rest, need) ==
  LET taken[n \in 0..need] ==
        IF n = 0 THEN None
        ELSE LET before == taken[n - 1]
                 open   == {u \in Users : before[u] < rest[u]}
                 next   == CHOOSE u \in open : \A v \in open :
                             before[u] < before[v] \/ (before[u] = before[v] /\ u <= v)
             IN IF open = {} THEN before ELSE [before EXCEPT ![next] = @ + 1]
  IN taken[need]

Period(p, t) == IF p.every = 0 THEN <<0, 0>> ELSE <<p.every, t \div p.every>>
Due(p, t)    == p.every = 0 \/ t % p.every >= p.from

StartRelease(h, year, force) ==
  /\ Idle(h) /\ Asked(h)
  /\ h = Releaser => timer[h] /\ year = YearOf(clock) /\ ~ force
  /\ Goto(h, [phase |-> "policy", year |-> year, force |-> force])
  /\ UNCHANGED <<clock, left, pool, policy, timer, uses, reboots>>

ReadPolicy(h) ==
  /\ job[h].phase = "policy"
  /\ Goto(h, [phase |-> "supplies", year |-> job[h].year, policy |-> policy,
              period |-> Period(policy, clock), due |-> job[h].force \/ Due(policy, clock)])
  /\ UNCHANGED <<clock, left, pool, policy, timer, counts>>

\* The rows with days left; a target year other than 1 has none.
ReadSupplies(h) ==
  LET rest == IF job[h].year = 0 THEN [u \in Users |-> IF supply[u] > 0 THEN supply[u] ELSE 0]
              ELSE None IN
  /\ job[h].phase = "supplies"
  /\ Goto(h, [phase |-> "released?", year |-> job[h].year, policy |-> job[h].policy,
              period |-> job[h].period, due |-> job[h].due, rest |-> rest])
  /\ UNCHANGED <<clock, left, pool, policy, timer, counts>>

Quantity(p, total) == IF p.every = 0 \/ p.quantity > total THEN total ELSE p.quantity

\* ALREADY_RELEASED, WAITING and EMPTY, in this order; EMPTY stops the timer.
CheckReleased(h) ==
  LET already == job[h].year = 0 /\ job[h].period \in released
      total   == Total(job[h].rest) IN
  /\ job[h].phase = "released?"
  /\ IF already \/ ~ job[h].due THEN Finish(h) /\ UNCHANGED timer
     ELSE IF total = 0 THEN Finish(h) /\ Stop(h)
     ELSE /\ Goto(h, [phase |-> "release", period |-> job[h].period,
                      take |-> Taken(job[h].rest, Quantity(job[h].policy, total))])
          /\ UNCHANGED timer
  /\ UNCHANGED <<clock, left, pool, policy, counts>>

PeriodFreeAlways(h) == TRUE    \* Mutant: no unique index on leave_pool_release_run.
PeriodFree(h) == job[h].period \notin released

\* The commit, or its roll-back by the unique index.
Release(h) ==
  /\ job[h].phase = "release"
  /\ Finish(h)
  /\ \/ /\ PeriodFree(h)
        /\ supply' = [u \in Users |-> supply[u] - job[h].take[u]]
        /\ created' = created + Total(job[h].take)
        /\ released' = released \cup {job[h].period}
     \/ ~ PeriodFree(h) /\ UNCHANGED <<supply, created, released>>
  /\ UNCHANGED <<clock, left, collected, stake, policy, timer, counts>>

-----------------------------------------------------------------------------

UsableAny(u) == left[u] >= 0    \* Mutant
Usable(u) == left[u] > 0

\* deductPriority, of the regular days.
UseLeave(u) ==
  /\ Usable(u) /\ left' = [left EXCEPT ![u] = @ - 1]
  /\ uses < MaxUses /\ uses' = uses + 1
  /\ UNCHANGED <<clock, pool, policy, job, timer, reboots, requests>>

UpdatePolicy(p) ==
  /\ requests < MaxRequests /\ requests' = requests + 1
  /\ p # policy /\ policy' = p
  /\ UNCHANGED <<clock, left, pool, job, timer, uses, reboots>>

TimePasses ==
  /\ clock < MaxClock /\ clock' = clock + 1
  /\ UNCHANGED <<left, pool, policy, job, timer, counts>>

Reboot ==
  /\ reboots < MaxReboots /\ reboots' = reboots + 1
  /\ job' = [h \in Handlers |-> IdleJob] /\ timer' = [h \in DOMAIN timer |-> TRUE]
  /\ UNCHANGED <<clock, left, pool, policy, uses, requests>>

Years == 0..YearOf(MaxClock)

Go(h) == CheckCollected(h) \/ ReadContributions(h) \/ Collect(h)
         \/ ReadPolicy(h) \/ ReadSupplies(h) \/ CheckReleased(h) \/ Release(h)
TickCollector == \E y \in Years : StartCollect(Collector, y)
TickReleaser  == \E y \in Years : StartRelease(Releaser, y, FALSE)

Next ==
  \/ TickCollector \/ TickReleaser
  \/ \E h \in Admins, y \in Years :
       StartCollect(h, y) \/ \E force \in BOOLEAN : StartRelease(h, y, force)
  \/ \E h \in Handlers : Go(h)
  \/ \E u \in Users : UseLeave(u)
  \/ \E p \in Policies : UpdatePolicy(p)
  \/ TimePasses \/ Reboot

Spec == Init /\ [][Next]_vars

\* Releases under way at once are of one period.
Releasing(h) == job[h].phase \in {"supplies", "released?", "release"}
SamePeriod == \A g, h \in Handlers :
                Releasing(g) /\ Releasing(h) => job[g].period = job[h].period

SteadySpec == Init /\ [][Next /\ SamePeriod']_vars

\* Time passes, the timers tick, and awaited calls return.
FairSpec ==
  /\ Spec
  /\ WF_vars(TimePasses) /\ WF_vars(TickCollector) /\ WF_vars(TickReleaser)
  /\ \A h \in Handlers : WF_vars(Go(h))

-----------------------------------------------------------------------------
(* Properties.                                                             *)

TypeOK ==
  /\ clock \in 0..MaxClock /\ left \in [Users -> Nat] /\ collected \in BOOLEAN
  /\ stake \in [Users -> Nat] /\ supply \in [Users -> Int] /\ created \in Nat
  /\ policy \in Policies /\ timer \in [{Collector, Releaser} -> BOOLEAN]
  /\ \A h \in Handlers : job[h].phase \in
       {"idle", "collect?", "contributions", "collect", "policy", "supplies", "released?", "release"}

\* Every contributed day is in the supply or was made an auction, and only one
\* (OP-2; collect-leave-pool, release-inventory), however collections cross; the supply of
\* nobody is released beyond what is left of it (release-allocator).
PoolBalanced ==
  /\ created + Total(supply) = Total(stake)
  /\ \A u \in Users : supply[u] >= 0

\* No period releases more than the quantity of a policy that has such periods,
\* whoever asks for the release and how often (leave_pool_release_run).
Rate(period) == Max({p.quantity : p \in {q \in Policies : q.every = period[1]}})
RateKept ==
  (\A period \in released : period[1] # 0) => created <= SumFunction([period \in released |-> Rate(period)])

\* A release takes from the members in turn: who has days left has given as many as
\* anyone else, one fewer at most, and that only to a member of a smaller id.
TakenInTurn ==
  [][\A u, v \in Users :
       LET gave(w) == supply[w] - supply'[w] IN
       released' # released /\ supply'[v] > 0 =>
         gave(u) <= gave(v) + (IF u < v THEN 1 ELSE 0)]_vars

\* A pool that was collected is released in the end (release-inventory.scheduler).
PoolReleased == collected ~> Total(supply) = 0
=============================================================================
