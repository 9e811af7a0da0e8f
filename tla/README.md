# TimesoftCone: verification project

TimesoftCone is the auction house of a company's unused leave. Members' unused
days are collected into a pool, the pool is sold a day at a time in auctions for
points ("cones"), and what the winners paid is shared out among those who gave the
days. The backend (`src/backend/src`, NestJS and Prisma over SQLite) holds the
rules; the frontend (`src/frontend/src`, React) is a client of its HTTP interface that
shows lists, calls handlers and asks again for what they changed.

This directory models both in TLA+, checks the models with TLC and proves the main
invariants of all of them with TLAPS. `PROJECT.json` lists the components,
runs, mutants, findings, hazards and theorems, and maps each definition to its source lines.

## 1. Inventory

| Component | State it keeps | Operations | Talks to |
|---|---|---|---|
| Auction house (`domain/auction`, `application/auction`) | `auction`, `bid_event` | create, schedule, open, bid, extend deadline, close now, settle, cancel, purge, EVENT grant, reopen | wallet and ledger (bids, refunds), leave balances (the winner's day), outbox (the notice), events |
| Wallet and ledger | `wallet`, `ledger_entry` (insert only) | debit, credit, correct by hand; the escrow is not stored but derived from the ledger | everything that moves points |
| Year-end dividend | DIVIDEND entries; reads `stake` | settle one company or all, dry run, forecast for a member | escrow query of the statistics, payout channel |
| Charge requests | `charge_request` | submit, approve, reject | wallet and ledger |
| Redemption market | `redemption_item`, `redemption_request` | submit, propose, approve, reject, confirm, edit the catalogue | wallet and ledger |
| Leave pool | `leave_pool_run`, `leave_pool_supply`, `leave_pool_release_run`, `stake`, `release_policy` | collect, release, change the policy | leave balances; makes auctions |
| Outbox relay | `outbox` | relay a batch, retry, give up; reconcile a user | the personnel system (ezpass) over HTTP |
| Leave balances | `leave_balance` | grant, deduct by priority, synchronise, reconcile | auctions, pool, directory, personnel system |
| Login and members | `user` | log in, create, edit, switch, synchronise | the personnel system's login and directory |
| Schedulers | a timer and a `running` flag each | open due, settle due, relay, collect, release, pay, purge | the use cases above |
| Notifications, streams | `notification` | observe events after the commit, push, mark read | the client's bell and the auction page |
| Statistics, lists, exports | none | reads | every screen |
| Frontend (`pages`, `components`, `lib`) | the stored session; per page: views, dialogs, filters, busy flags, requests on their way | queries, handlers, dialogs, polling, the event stream | the HTTP interface |

**How they interact.** One Node process runs the backend; handlers of HTTP requests
and ticks of timers interleave at every `await`. Some operations are one
`$transaction`; others read, await, and write in another transaction or none. There
is no other coordination than the transactions and a few unique indexes. Events are
emitted after a commit and their handlers' errors are swallowed. The tab of a client
interleaves in the same way: answers come in any order, and a handler goes on with the
values of the render it was made in.

**Hard behaviours**, in the order of what they cost when they go wrong: rows saved
whole after they were read outside a transaction; checks made before a transaction
that acts on them; sums that come from several queries; retries of a request that
is not idempotent; absolute numbers written to another system; timers whose condition
holds for a minute a year; rounding; companies sharing tables; screens that show what
was true before their own write. `PROJECT.json` lists each as a hazard with its line and
the properties that would catch it.

**What makes each component correct.** The auction: an outbid member has their
points back, the winner and nobody else is debited and granted the day, once. The
ledger: wallets follow it. The dividend: the escrow is paid out once, to the last
point and never beyond it, as it was forecast. The desks: each request is decided once and
charged or credited once. The pool: each contributed day becomes one auction, nobody's
supply is overdrawn. The relay: every notice arrives at least once and is closed. The
book of leave: no day is used twice, and days are used in the order of their kinds. The
members: role and company agree, and administrators are not demoted by a job. The
client: a tab at rest shows what its user did.

## 2. Modules

| Module | Models | Interacts with / composes |
|---|---|---|
| `AuctionHouse` | auctions, bids, wallets and escrow entries, administrators' handlers, both schedulers | refines `LotEscrow` |
| `LotEscrow` | abstract: what an auction promises its members | - |
| `YearEndDividend` | the settlement of the escrow with bids going on, and the forecast | one lot per company stands for `AuctionHouse` |
| `ChargeDesk` | charge requests and corrections by hand | composed in `Desks` |
| `RedemptionDesk` | the redemption market and its catalogue | composed in `Desks` |
| `Desks` | one wallet and one ledger under both desks | composes `ChargeDesk` and `RedemptionDesk` |
| `LeavePool` | collection, supply, releases, timers, policies | - |
| `OutboxRelay` | settlement's notices, relay, client, reconciliation | refines `LeaveNotice` |
| `LeaveNotice` | abstract: at-least-once delivery of a notice | - |
| `LeaveBook` | balances of the three kinds under wins, grants, uses, synchronisation and reconciliation | composed in `Personnel`; a notice and its delivery are one step each of `OutboxRelay` |
| `Membership` | the users table under logins, directory synchronisation and administrators' edits | composed in `Personnel` |
| `Personnel` | members and their leave, which the synchronisation writes both | composes `Membership` and `LeaveBook` |
| `Api` | for each use case the parts of the database it shows or changes, the routes, and the client's functions on top | - |
| `Screens` | for each screen its views, handlers, dialogs and what they ask for again | extends `Api` |
| `Browser` | a tab that runs the screens: session, router, hook, timers, stream, answers in any order | extends `Screens` |
| `Sums` | lemmas about sums over finite sets, for the proofs | - |
| `AuctionHouseProofs`, `YearEndDividendProofs`, `DesksProofs`, `LeavePoolProofs` | theorems about the module they are named after | extend `Sums` |
| `OutboxRelayProofs`, `PersonnelProofs`, `BrowserProofs` | theorems about the module they are named after | `TLAPS` |
| `MC*` | values of the constants for TLC | the module they are named after |

### State and actions against the code

*AuctionHouse.* `auction` is the table (a row of status, price, leader, bid count,
company, start and end; `NoRow` if the id is free); `held[a][u]` the negated sum of
`u`'s BID and REFUND entries for auction `a`; `granted` counts the leave granted for
it; `bidEvents` the bid log. Each `$transaction` is one action: `PlaceBid`,
`SettleAuction`, `CancelAuctions`, `PurgeUnsold`, `GrantEventFromUnsold`,
`ReopenUnsold`. The handlers without a transaction (`CreateAuction`, `OpenAuction`,
`ScheduleAuction`, `ExtendDeadline`, `CloseImmediately`, and the scheduler's
`OpenDue`) read and compute in one step and leave the rows to write in `op[h]`;
`SaveRow` writes them one by one, whatever the table has become, and `SettleClosed`
is the settlement that ends `CloseImmediately`. `SerialSpec` keeps the behaviours in
which no row changes between a handler's read and its save; `Spec` keeps them all.

*YearEndDividend.* A run of a handler goes through `Start`, three `Query` steps in any
order (the `Promise.all` over the two sums and the count), `Decide` (refusal,
nothing to pay, or shares), and `Pay` (the payout transaction); `NextCompany` and
`AfterConflict` are the loop of `executeAll`. `PlaceBid` and `SettleLot` are the
auction's effect on the ledger. A member without a company (`NoCompany`: the super ADMIN) may
bid on every company's lots; their entries, wallet and stake are booked under the default
company (`BookedFor`). `Forecast` is what `get-my-dividend` tells a member, from the entries
and stakes of their company, or of all companies for who has none (`SeenBy`). It is a set,
because its product is a floating-point number rounded down, which may be one less than
the exact quotient. `AloneSpec` has one run at a time and no bids while it runs.

*ChargeDesk.* `Submit`, `Approve` and `Correct` are one transaction each; a rejection
is `ReadForReject` and `WriteReject`, or `LoseReject` when the process dies between.

*RedemptionDesk.* All operations are transactions. `supplied` is a history variable:
what administrators put into a stock.

*Desks.* The tables of the two desks are apart; `wallet` is the same, and the ledger is
kept as two sums, `credits` (CHARGE and corrections) and `spent` (REDEMPTION and its refunds).
A step of one desk (`AtCharges`, `AtMarket`) leaves the other's tables alone and may
change what the other can afford. `WalletsFollowLedger` is a property of both, so it is
stated here.

*LeavePool.* A handler's `job` has a phase for each await of the two use cases:
`CheckCollected`, `ReadContributions`, `Collect`; `ReadPolicy`, `ReadSupplies`,
`CheckReleased`, `Release`. `SteadySpec` keeps the behaviours in which releases that are
under way at once are of one period; collections cross in any order. The commits are
refused by the unique indexes (`MarkerFree`, `PeriodFree`). `Stop` clears a timer,
`Reboot` restarts all.

*OutboxRelay.* `Award` queues a notice in the settlement's transaction; `Tick`,
`Dispatch`, `ReadMdat`, `PutMdat`, `MarkSent`, `MarkFailed` are the steps of
`OutboxRelayScheduler.tick` and of the client's `grantLeave`; `ReadOurs` and
`PutTarget` those of a reconciliation; `Crash` may come at any step.

*LeaveBook.* `entitled` and `used` are the columns of `leave_balance`, a row for each
kind; `mdat` is the number the personnel system keeps. `UseLeave` is the transaction of
`use-leave` with the plan of `leave-deduction.ts` (`Plan`, three rounds of `Taken`);
`Win` and `GrantEvent` the upserts of a settlement and of an EVENT grant. `ListMembers`,
`SyncMember` and `SkipMember` are what `sync-members` does to the balances: one listing, then
one write or one noted error per member; `ReadOurs` and `PutTarget` are
`reconcile-user-leave`.

*Membership.* A login is `AuthenticateLocally` or `AuthenticateByCompany` (the composite
provider), then `ReadUser`, which computes role and company as `resolveRole` does, then
`Provision` or `Update`. `ListDirectory`, `ReadListed`, and `WriteListed` or `SkipListed` are the
steps of `sync-members` on the table. An administrator's request reads (`ReadForCreate`,
`ReadForEdit`), hashes a password and writes (`WriteCreated`, `WriteSaved`: the fields the
request names). An edit is refused for plain members of the company only (`Editable`), as by the
handler; what the page offers is narrower. `DirectoryChanges` is the personnel department's.

*Personnel.* The two on one list of members. `ListCompany` is the answer of the directory: who is
listed, with the standing and the days. Member after member, `ReadMember` and `MirrorMember`
are the user's row, and `SyncBalance` the REGULAR row or its error; an error before it
(`SkipMember`) skips both. The next member is read when the balance of the last one is `Due` no
more. Leave is used and granted by those who have a row (`Known`).

*Api, Screens, Browser.* `Api` reduces a use case to the set of `Parts` of the database
its answer shows or its transaction changes, names them again for each route, and once
more for each function of `queries.ts`. `Screens` describes each page as a record: `views`
with the parts their cards render, `acts` with the flag that disables the button and when it
falls, what the call changes and the groups of views awaited one after another when it has
answered, `panels` with what the page and its dialogs offer. `Browser` runs any of them:
`Land`, `Fail` and `Poll` are `use-query.ts` and the timers; `Begin`, `Serve`,
`Refuse`, `Answer`, `Reread`, `Finish` are a handler from the click to the end of its
`finally`; `Guarded`, `Visit`, `doLogin`, `logout`, `onUnauthorized` the session and the
router. The busy flags are variables of the page (`raised`), which anybody who names them
lowers: most handlers do at their end, the dialogs of the policy and of a new lot on the answer,
before the page has asked again (`falls`); the decision on a redemption does both, since its flag
is the id of a request and is cleared whichever request it is by then (requests are not told
apart, so a second decision may begin once the first has its answer). The previews of the
dividend and of the collection raise the flag of their dialog's handler and lower it when they end;
a preview that fails closes the dialog, also one opened since (`Raising`). A handler that keeps
the id of a busy row only has no flag here: another row's button is free. The server in it
is reduced to what a tab can tell: an answer was read before a write or after it, and what is
shown `lacks` the writes it was read before.

### Modelling assumptions

- A `$transaction` is atomic. This includes the wallets that `payout` reads through
  another client: SQLite has one writer, and the transaction is taken to hold the
  write lock. A failed transaction writes nothing.
- One Node process; a restart loses what handlers were doing.
- The minimum increment and the leave days per lot are constants (1 in the code's
  default data); all auction ids are of one year.
- Within `LeavePool`: one company; only leave of the first year exists; only
  REGULAR leave is used there (`LeaveBook` has the three kinds).
- The personnel system is what the client's requests assume of it: one number per
  user and year, an absolute write.
- `YearEndDividend` has one lot per company on sale at a time, and stakes are fixed while the
  model runs.
- `LeaveBook` is of one year, and `Atmc`, the days granted by law, do not change.
- `Personnel` has one synchronisation at a time; who has no row has no balance.
- `Membership` starts from a table as the seed leaves it: companies agree with roles,
  and nobody of the company's domain has a local role. A request sets a local role or none, as
  its DTO has it. No row is deleted: no use case does.
- `Browser` is one tab. A timer does not tick while the answer to its last tick is on
  its way, and a tick that would change nothing is left out. The tab begins at rest on some
  page.
- Names, notes, texts, and pictures are left out.

## 3. Runs

Runs that pass:

| Run | Question | Bounds and why they are enough |
|---|---|---|
| `auction_serial` | Do ledger, leave, bid log, lots and the companies' escrows follow the table, and does the house keep `LotEscrow`'s promise, while no handler overwrites a change? | Two bidders of one company with purses 3 and 2 (each can be outbid and bid again), two lots, which may be of either of two companies (rebids, reopening, a batch of two), two administrators with two requests (both may be in flight, on one row or two), times 1-4 with schedules in {2, 3}: before, in and after each window, and an extension by sniping |
| `auction_program` | What holds whatever handlers overwrite, and does every scheduled lot open and every open one settle? | Two ids, one lot on sale at the start (a second one by creation or reopening); one administrator's request against two bidders and the scheduler on the same rows; five instants, the last one after every possible extension |
| `dividend` | Is the escrow of each company paid out exactly, once, in fair shares and as forecast, although runs are repeated and die? | Three members with 0, 1 or 2 days each, one in each of two companies and one without a company, who is booked with the first: shares with a remainder, ties, a single contributor, none, a forecast over all companies; two bids, one run that dies, so that the next one finds a company settled |
| `charge_program` | Are requests credited at most once, and do wallets follow the ledger, however decisions cross, while the same wallet is spent from? | Two requests for points, two administrators, two corrections; beside them one request at the market, for more than a member has at first |
| `redemption_desk` | Are points and units taken and given back once, at the price of the request, while the same wallet is corrected? | Three requests of two members, a stock of one, two edits of the catalogue, and one correction by hand; members and requests are interchangeable (symmetry). The stock of the wish item stays unlimited (see below) |
| `outbox_relay` | Are notices closed, in the order of the promise, not given up early, and do retries add up? | Three notices in batches of two, two attempts, one accident, one reconciliation, a user without an email |
| `leave_pool` | Is the pool collected once, no day lost, each period's rate kept, and are days taken in turn? | Two members with 0, 1 or 3 days, three policies, two requests, one restart, one day used, all interleavings of an administrator and the timers. Releases under way at once are of one period (`SteadySpec`; see below) |
| `leave_book` | Is a day used twice, or out of order, while the synchronisation overwrites REGULAR? Does an undisturbed reconciliation make both systems agree? | A worker and a newcomer with one day by law, one win each, one unsold lot, uses of one or two days (a use that spans two kinds), two synchronisations (the first brings the newcomer, the second writes over what was used; either may fail at the row or at the balance), one reconciliation |
| `membership` | Do role and company agree, and who can demote an administrator, however logins, synchronisations and edits overtake each other? | A super administrator, a member of the company's domain, a visitor, and an address that only the directory has; two logins, one synchronisation of rows and balances, one edit (of anybody but a plain member of the company) and one move in the directory, each overtaken by any other; no leave is used |
| `browser` | Does a tab at rest show what its user did, do bells and badges catch up, does the router keep each session to its pages? | All pages of the client, one handler, two events (moves of the user, others' writes, lost calls, failures); two requests for one view on their way at once (the older answer may come last), five in all. Two events and one handler make the crossings that matter: a filter picked, a dialog opened, or another's write between a handler's call and its rereads |

Deadlock is not checked where the behaviours end when bounded inputs run out (all runs but
the auctions' and the dividend's); in `browser` a tab may rest.

Runs that show the code at odds with what it says of itself (each has its finding in
`PROJECT.json`, with the line and the quotation):

| Run | What happens |
|---|---|
| `auction_lost_bid` | An administrator's handler saves a row it read before a bid: the bid is gone, its debit stays |
| `dividend_twice` | Two settlements both count no DIVIDEND entry and both pay |

### Further disagreements

The models reach these too, under other specifications, constants or properties for which
no run is kept:

- A handler that read a row while it was open saves it after its settlement
  (`extend-auction-deadline.use-case.ts:32`): `WinnerGrantedOnce` fails under `Spec`.
- A draft opened without an end keeps the placeholder of 1970 (`auction.ts:220`).
- A bid of a member without a company is booked under company 1
  (`prisma-ledger.repository.ts:36`): `CompanyEscrowBacked` fails when one of the members
  has `NoCompany`.
- A bid between the two sums of the escrow (`get-admin-stats.use-case.ts:42`):
  `EscrowNotOverdrawn` fails under `Spec` even with a single run. The leading bid of a lot
  still on sale is part of the escrow that is paid out.
- A request is approved between a rejection's check and its write
  (`reject-charge-request.use-case.ts:18`), so that it is credited and REJECTED:
  `DecidedOnce` in `ChargeDesk` fails.
- A proposal takes no unit of the wish item, and its rejection adds one: `StockBalanced`
  fails with `WishLimited = TRUE`.
- A retry after a lost answer, or a crash, gives the day twice, and a reconciliation
  writes a day whose notice is still pending (`ezpass-hr-leave.client.ts:94`,
  `reconcile-user-leave.use-case.ts:51`): `NeverAhead` in `OutboxRelay` fails.
- From New Year on the release looks a year too far, finds nothing and stops
  (`release-inventory.use-case.ts:68`): `PoolReleased` in `LeavePool` fails.
- Two releases in different periods (the policy or the clock moved on) take the same
  supply: `PoolBalanced` fails under `Spec`.
- A contributed day of leave can still be used, and a timer with no tick in the last
  minute of the year never collects (`leave-pool.scheduler.ts:81`).
- The synchronisation writes REGULAR as `atmc + mdat`, though the days won at auctions are
  already in `mdat` (`sync-members.use-case.ts:68`), while the report of
  `get-leave-sync-report.use-case.ts:6` promises `atmc + mdat = REGULAR + AUCTION`:
  `BooksAgree` in `LeaveBook` fails after a win, its notice and a synchronisation.
- A login that read a member before a promotion writes the old role back
  (`login.use-case.ts:95`, against its own "관리자 계열은 고정"): `PromotionKept` in
  `Membership` fails. `DemotedOnlyByOthers`, which the run checks, says that nothing else
  demotes.
- An edit may give an administrator of the company a local role: the handler refuses plain
  members only (`manage-members.use-case.ts:83`) and writes the role without the company
  (line 91); the page offers it for local roles only (`AdminMembers.tsx:1227`). The company
  stays until a login computes it again; `CompanyFollowsRole` leaves these rows out
  (`adopted`).
- A member without a company is forecast a part of all companies' escrow by the stakes of all
  (`get-my-dividend.use-case.ts:53`), and paid with the default company:
  `ForecastMatches` speaks of them only where the other companies have nothing.
- A member the directory lists with an address of another domain changes sides with each
  synchronisation and each login; `CompanyFollowsRole` leaves these addresses out. Members
  made by the synchronisation or by an administrator have no company until they log in.

Read in the code, and outside what the models tell apart:

- `SyncMembersUseCase` has the year 2026 as a constant (line 12), and the directory gives the
  days of the latest year a member has a row of (`msaportal-member-directory.adapter.ts:37`).
- After a 401 the client of the personnel system logs in again and repeats the request with
  the old token (`ezpass-hr-leave.client.ts:140`, `192`, `231`, `239`, against its comment in
  line 22).
- The forecast breaks ties of rank by the order of the database, the payout by the
  member's id; the export of dividends weighs `user.contributedDays` instead of stakes.
- AC-2.1.E5 of `acceptance-criteria.md` lets the leader raise their own bid,
  `Auction.placeBid` refuses it.
- In the client: the item form sends every field with the absolute stock as it was when
  the dialog opened (`AdminStore.tsx`); the policy dialog starts from "none" while
  the policy is still asked for (`AdminAuctions.tsx:373`); the busy row is a single id
  (`AdminMembers.tsx:108`), and so is the request decided (`AdminRedemption.tsx:39`), which the
  end of an earlier decision clears; after a failed request the dialog of an item's changes shows
  the previous item's (`AdminStore.tsx:201`); the ledger mixes rows of two filters when a further page
  comes after the filter changed; the auction page does not ask again when the event
  stream reconnects, and drops a typed bid when it asks again; opening the bell marks
  notices read that are not shown yet.

`RestShowsOwn` holds but for `Forgotten`: closing a lot does not ask again for the ended
ones, saving a policy not for the next release, a dialog opened while a call is on its
way is not known to the call's handler, and the preview of the dividend can be opened while a
collection is on its way whose flag an older preview has lowered (as far as the flags go: that
the preview says "collected already" may disable the button before). Two more exceptions are in
its text: an older answer that comes after a newer one (nothing in `use-query.ts` drops it), and
the charge list, which its handlers ask for by the filter of their own render (`Captured`).

### Fairness

- *Auction*: the clock advances, the schedulers tick (`setInterval`), and an awaited
  save settles. An error of one auction is logged and the next tick tries again, so
  weak fairness of `SettleAuction(a)` for each auction is what the loop gives.
  Requests of administrators and bids are not fair.
- *Dividend*: nothing makes anybody start a settlement. The timer is off by default, and its
  window is the last minute of the year under an hourly tick. `FairAloneSpec` has only that a
  run which was started goes on, since its awaited calls return; at most `MaxAborts` die.
  `EveryCompanyPaid` therefore speaks of a company on the list of a run that is under way when no
  abort is left, with contributors and something in escrow.
- *Outbox*: the timer ticks, awaited calls return, back-offs pass. Accidents
  are bounded; requests may fail without bound, since attempts are counted.
- *Pool*: `FairSpec`, under which `PoolReleased` fails, has time pass, timers tick and
  awaited calls return. A tick may come late: the interval is an hour, the window a minute, so
  a tick need not fall into it. `leave_pool` itself checks safety only.
- *Browser*: the timers of a page fire for as long as it is shown, and what they ask for is
  answered. Nothing the user does is fair; failures are among the bounded events.

## 4. Proofs

`AuctionHouseProofs` proves, for any users, companies, lots, prices and handlers:

- `TypeCorrect`, `RowsStayWellFormed`: of the program as it is (`Spec`), with every
  overwriting save.
- `LeadersDebited`, `WinnersGranted`, `BidsLogged`: of `SerialSpec`.

*Argument.* `RowsWellFormed` is not inductive by itself: `SaveRow` writes rows computed
earlier. The strengthening `TableInv` adds `PendingDerived`: each row waiting to be
written comes from the row that was read by a transition of the aggregate (`Derived`),
which keeps the bid columns and never turns back. `TableNext` shows action by action
that it is kept, from one lemma for each transition of a row. For the escrow,
`EscrowInv` says for one lot at a time (`Backed`) that the entries, the grant and the log
are what the row says; it needs `Undisturbed`, that no row in flight has changed,
because then a save keeps the bid columns (`Derived`) and nothing is booked. The three
theorems are conjuncts of `Backed`.

From there it goes on to what the house promises and to its totals:

- `EscrowPromiseKept`: `SerialSpec => KeepsEscrowPromise`, that is, the house implements
  `LotEscrow` as long as no handler overwrites a row it did not read.
- `BidsAnswerable` (`SnipeAnswerable`) and `NoPointLost` (`PointsConserved`): of `Spec`.
- `NoLotLost` (`LotsConserved`): of `SerialSpec`.
- `EscrowOfCompanies` (`CompanyEscrowBacked`): of `SerialSpec`, if nobody without a company
  bids. Otherwise it is false (see above).

*Argument.* `LotOf` maps a row to its lot. A bid is `Raise`, a settlement `Hammer`, the three
deletions `Withdraw`, reopening `Relist`; a save whose row was not overtaken offers a lot,
opens it, or moves a deadline only, which `Derived` decides (a row that did not exist before
waits). That the hammer leaves one day of leave and not two needs `EscrowInv`: nobody was
granted the lot while it was open. The anti-snipe rule is a fact about `SnipedEnd`, and no
step but a bid writes the log. Points are conserved because a bid moves the wallet of each of its
two members by what it books for them, which holds whatever row the bid was computed from. For the
lots, a step that takes rows away counts them in the same step, and a save that adds a
row is the first of its id, which only `SerialSpec` guarantees. The escrow of a company is a sum
over its lots, each of which `EscrowInv` has backed by its leader's bid.

`YearEndDividendProofs` proves of `YearEndDividend`, for any members, companies, days
and bids:

- `TypeCorrect`, `LedgerFollowed` (`WalletsFollowLedger`): of `Spec`, runs that overtake
  each other included.
- `EscrowCoversDividends` (`EscrowNotOverdrawn`, if everybody has a company: `EveryoneEmployed`;
  the refund of who has none is booked under the default company, whichever lot it is of),
  `EscrowEmptied` (`EscrowPaidOut`),
  `NeverPaidTwice` (`PaidOnce`), `FairShares` (`SharesAreFair`), `ForecastKept`
  (`ForecastMatches`): of `AloneSpec`, one run at a time.

*Argument.* Shares come first: each is at most the exact quotient, so their sum is at
most the escrow, and the remainder that the first of the list is given makes it equal.
`DividendInv` (types, and wallets that follow the entries) holds of `Spec`. `AloneInv` adds
what a run that has the ledger to itself knows at each phase: the sums it has read are those
of the ledger, the count too, and the shares it is about to pay come from them. Thus a
payout pays exactly what is in escrow, and finds no entry of an earlier one. For the forecast of
who has no company, the escrow and the stakes of all companies split into the default
company's and the others' (`SumSplit`), and the others' are nothing by the property's condition.

`DesksProofs` proves of `Desks`, for any members, administrators, items, requests, prices,
amounts, corrections and edits:

- `DesksTyped` (`TypeOK`), `LedgerFollowed` (`WalletsFollowLedger`), `NeverCreditedTwice`
  (`CreditedOnce`), `RequestsPaidFor` (`SpentOnRequests`): without condition.
- `UnitsConserved` (`StockBalanced`): if `WishLimited = FALSE`, the condition under
  which the run checks it. Without it the property is false (see above).

*Argument.* Each desk keeps an invariant of its own, given of the other only that its sum
is a number: `ChargeInv` at the one, `LedgerInv` at the other; `DeskInv` is both. At the charge
desk the property needs `RejectingMade` (a rejection under way has read a request that was
made, so its write cannot create one); `CreditedOnce` survives a crossed decision because an
approval checks the status in its own transaction: a rejection may overwrite it, but never makes
it pending again. At the market each operation moves the wallet and the entries by the same
amount (`BothMoved`). For the units, `WishInv` adds that proposals are for the wish item and
that its stock is unlimited; `HeldCounted` says how the number of units that requests hold
changes when one request does, from the library's theorems about finite sets. A rejected
proposal adds a unit that nobody took, but to a stock that is not counted. For the points
(`CostInv`), one request at a time joins or leaves the sum over the requests that are kept, by
the price it was made at.

`LeavePoolProofs` proves of `LeavePool`, for any members, days, policies, timers and
requests:

- `PoolTyped` (`TypeOK`), `PeriodsKeepRate` (`RateKept`): of `Spec`, releases of different
  periods at once included.
- `PoolKept` (`PoolBalanced`), `ReleasedInTurn` (`TakenInTurn`): of `SteadySpec`. Without
  its condition `PoolBalanced` is false (see above).

*Argument.* A release takes days in rounds (`Taken`, a recursive function), and induction is out
of the prover's reach. A least counterexample does instead: of the numbers of rounds for
which no such function exists (`RoundsExist`), or after which the days taken are not in turn, too many
or more than somebody has (`TakenFacts`), take the least (`LeastNatural`); it is not 0, and
the round before it is no counterexample. `PoolInv` adds to the types what each job holds at its
phase (`Jobs`), and that a release about to commit takes at most what a policy of its period allows
(`JobRight`); a period is released once, so its rate is not exceeded. For the balance,
`SteadyInv` adds that releases at work are of one period (`SamePeriod`), that there is no supply
before the collection (`Uncollected`), and that a release which can still commit has read
the supply as it is (`ReadSupply`): only a commit of the same period could have changed it, and
that has taken the period.

`OutboxRelayProofs` proves of `OutboxRelay`, for any messages, users, batch size,
attempts, accidents and reconciliations:

- `RelayTyped`, `LastAttemptMade` (`DeadOnlyAfterRetries`), `DaysArrive`
  (`SentDaysArrived`);
- `NoticePromiseKept`: `Spec => KeepsNoticePromise`, that is, the relay implements
  `LeaveNotice`.

*Argument.* `RelayInv` adds to the types that the message in work is open, that it was
given when the relay is about to mark it (`WorkInv`), and that an open message has
attempts left (`AttemptsLeft`). For the refinement, each action is a step of
`LeaveNotice` or leaves the notices and their deliveries alone: `Award` is `Enqueue`, a
write that is done `Give`, `MarkSent` `Close`, the last `MarkFailed` `GiveUp`. For the
days, as long as no answer was lost and nobody reconciled, the number that the personnel
system keeps is the count of the notices sent, and one more while the relay is about to
mark one.

`PersonnelProofs` proves of `Personnel`, for any emails, seed, law, lots, logins, editors, moves,
uses and synchronisations:

- `PersonnelTyped` (`TypeOK`);
- `CompanyKept` (`CompanyFollowsRole`), `AdministratorsKept` (`DemotedOnlyByOthers`);
- `NeverOverdrawn` (`NothingOverdrawn`), `OrderKept` (`UsedInOrder`), `ReconciliationAgrees`
  (`ReconciledAgrees`).

*Argument.* Each half has an invariant of its own, and a step of the whole is a step of either half
or leaves it alone (`RosterStep`, `BookStep`); for an error at a row the second needs the first's
invariant, that the member read is one. `PersonnelInv` is what both know.

For the members, the property alone is not inductive: a login or a synchronisation writes a
role it computed before. `Prepared` says that what each has prepared is of its address's side (by the
domain, or by the directory), and `OneSide` that rows and requests under way are too, so that
writes that overtake each other agree on the company even where they differ in the role. An edit
of somebody of the company's domain may leave that side; then the row is among `adopted`, of
which nothing is claimed from then on.
`Remembered` says that a login or a synchronisation that read an administrator writes one.

For their leave, `TakenFacts` bounds what one round takes, `PlanFacts` what the three rounds take
together: nothing negative, no more of AUCTION and EVENT than is left, in order, and all that
was asked for when the balances suffice. The last needs care: REGULAR may be negative
after a synchronisation, so a sufficient total does not say that each kind is. With the
types, `NothingOverdrawn` is inductive, and `UsedInOrder` follows from `PlanFacts` at each
use and from unchanged `used` elsewhere. For the reconciliation, `Reckoned` says that the
number it is about to write is what was read less the days granted by law (`Atmc`).

`BrowserProofs` proves of `Browser`, for any pages, any number of handlers, moves of the user and
requests on their way at once:

- `TypeOKHolds` (`TypeOK`): the router's guards among the types, so a session that ends while
  answers are on their way leaves no page of the administrators on the screen.
- `RestShowsOwnHolds` (`RestShowsOwn`).

*Argument.* The steps are proved once, about any page; what they need of a page is that its table
is `WellMade`: a handler covers each view it changes (`Covers`: asks for it again, or is one of
`Forgotten`, or the view is in a dialog that cannot be under the handler's), the form of a dialog
holds its dialog open, and dialogs open over dialogs in one way. `ScreensMade` checks this
page by page, with the bar and the tabs on top. A page that forgets a view it changes fails there,
by name.

`IInv` is the inductive invariant: TLC finds it true of every state of the `browser` run. `Typed`
is enough for the guards. `RestShowsOwn` speaks only of a tab at rest; `Steady` says what holds
on the way there. `Awaited` is what a view will have once all its requests are answered (the last
request, or what it shows), and `Fresh` says that whatever that lacks is owed to the
view (`Owed`) by a handler that has still to ask for it; `ByFilter` that it is of the
filter picked; `Traced` that a view lacks only what changes it. The last request and not each one,
because an older answer may come in after it; then the view is excused (`Excused`), as in the property.
That the handler of a dialog asks for all it changed when its answer comes depends on which dialogs are
open by then: `Stacked` and `Begun` say that a form whose call is on its way is still on top. Its
flag keeps it there, so the flag must stay up. It does if it falls at one moment only and no
preview lends it (`Tight`): a handler that still holds such a flag (`Holding`) has it up (`Held`),
and no two hold the same one (`Apart`), so nobody else lowers it. Of the handlers without such a
flag (the decision, and those the previews share theirs with) less is claimed: what they change is
in the page, which every handler knows of, in the dialog that their own answer closes, or in
`Forgotten`. Nothing is owed at rest, which is the property.

The assumptions are those named in the modules (`ConstantsAssumption`,
`DividendAssumption`, `DesksAssumption` and `PersonnelAssumption`, which put together those of
their halves, `PoolAssumption`, `RelayAssumption`, `BoundsAssumption`); TLC evaluates them in every run. The sums need the sets they run over to be finite, which these assumptions
say of the users, members, requests, policies and messages.

*Sums.* `SumFunctionOnSet` is a recursive fold, and induction over finite sets is out of
the prover's reach. `Sums` gets by without: of the subsets for which a statement
about a sum fails, take a minimal one; it is not empty, and without the element
that the fold takes off first it is no counterexample.

*Only model-checked.* The liveness properties of the auction house, the dividend, the relay
and the client (`PolledCatchUp`): fairness is out of TLAPS's reach here.

## 5. What is not modelled, and why

- Redemption: the creation of catalogue items; `redeem-item`, which no controller calls.
- Timers of the year-end purge and dividend: the same cutoff as the collection's, which
  `LeavePool` has.
- Notifications on the server: the observer that turns events into rows. An event whose
  handler fails or that a crash loses is a notice that never appears; nothing else reads
  the rows.
- Login: tokens and their expiry, password hashes, the cache of the personnel system's
  administrator token.
- Exports: files computed from rows that the models have. The seed's data.
- In the client: layout, formatting, the fields of forms, toasts, downloads, the link from
  a notice into a dialog, the form of the login page, and the two catalogue pages
  (`BidInteractions`, `Index`) that call no server. Functions of `queries.ts` that no page
  calls (`checkLeaveSync`, `reconcileUserLeave`, `listMyRedemptionOrders`, `purgeUnsold`,
  `getNextAuctionId`).
- One wallet under auctions and the dividend too (`Desks` has charges, corrections and
  redemptions on one): each module moves it by transactions that check the balance and write
  the entry together, so what their composition would add is a larger product of the same steps.

## 6. Plan

1. *(done)* `AuctionHouse` with `LotEscrow`; `YearEndDividend` with the forecast; `ChargeDesk`
   and `RedemptionDesk`, composed in `Desks`; `OutboxRelay` with `LeaveNotice`; `LeavePool`;
   `LeaveBook` and `Membership`, composed in `Personnel`; `Api`, `Screens`, `Browser`; the proofs
   of all of them.
2. `Notifications`: the observer after the commit, and the rows that a tab marks read.
3. `YearEndTimers`: collection, dividend and purge over New Year.
