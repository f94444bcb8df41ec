# Verification of SpinFox

TLA+ models, TLC runs and TLAPS proofs for SpinFox: a NestJS server
(`src/backend`, TypeORM on MySQL, BullMQ and caches on Redis) and a Next.js
frontend (`src/frontend`). At the centre is what moves money: casino callbacks,
deposits, withdrawals and sports bets; around it the accounts, the scanners of
the chains, the work done beside the requests, and the state a browser keeps.

Paths below are relative to `src/backend/src/` unless they begin with
`frontend/`.

## 1. Inventory

### Components, their state and their operations

| Component | State | Operations | Modelled in |
|---|---|---|---|
| Casino wallet, `casino/seamless-callback.service.ts` | `users.realBalance`, `users.testBalance`; `casino_transactions`, unique on (txnId, txnType); Redis key `casino_balance_type:<code>`, one hour | `handleGameCallback` (transaction, row lock), `handleMoneyCallback` (no lock), `getUserBalance` (read) | `GameCallback`, `CasinoWallet` |
| Casino service, `casino/casino.service.ts` | the same user row and key | `gameLaunch` sets the key; `depositUserBalance`, `setFavorites` read and save the whole row | `GameCallback` (Launch), `CasinoWallet` |
| Chain scanners, `deposit/*-scanner.service.ts` | cursors (`lastProcessedBlock`, `lastProcessed`, `lastProcessedTx`), cache of the watched addresses, endpoints | poll, restart, change of endpoints, `enqueueDeposit` | `EvmScanner`, `SolScanner`, `BtcScanner` |
| Deposit processor, `deposit/deposit.processor.ts` | `transactions` rows, user balances, queue `deposits` | three chain handlers, `creditUser`, `requeueJob` | `Deposits` |
| Withdrawals, `withdraw/*` | user balances, `transactions` rows, queue `withdrawals` | `createWithdrawal`, `process` | `Withdrawals` |
| Sports betting, `sports/sports.service.ts` | user balances, `sports_bets`, one cached market answer | `placeBet`, `claimWinnings`, `updateBetStatus`; `fetchMarketsMapper` | `SportsBets`; `MarketCache` |
| Administration, `admin/admin.service.ts` | any row | `updateTransactionStatus`; `updateUserBalance`; sweeps; edits of single rows | `Withdrawals`; `Accounts`; `Sweeps`; no |
| Accounts, `auth/*`, `user/entities` | users, email codes, reset tokens in Redis | `register`; `verifyEmail`, `resendVerification`, `requestPasswordReset`, `resetPassword` | `Registration`; `Accounts` |
| Leaderboards, `leaderboard/*` | the rows of each period | rebuild: hourly, at start-up, on demand | `Leaderboard` |
| Start-up, `bootstrap.service.ts` | `provider.json` and a game list per provider | `onApplicationBootstrap`, `initialize` | `Bootstrap` |
| RPC manager, `utils/rpc-manager.ts` | cached endpoints, rotating index | `getRPC`, `getRPCList` | `RpcManager` |
| API client, `api/api.service.ts` | price cache | prices; retries | `PriceCache`; `Bootstrap` |
| Gateways and mail | rooms of the sockets | messages | `ClientUser`; steps of `Accounts` and `Registration` |
| Promotions, odds, controllers, constants | none that others read | | no |
| Balances shown, `frontend/.../UserContext.tsx` | user, token, socket | fetches, messages, login, logout, network switch | `ClientUser` |
| Game lists, `frontend/.../GameCacheContext.tsx` | one cache entry per provider | `fetchGames`, the page of slots | `GameCache` |
| Bet slip, `frontend/.../store/betSlip.ts` | tickets | cards, page of a game, `handlePlaceBet` | `BetSlip` |
| Markets, `frontend/.../store/MarketsStore.ts` | one list and hash | `fetchMarkets` | `MarketCache` |

### Interactions

* One **user row** is written by seven operations of the wallet. Three lock it
  (`handleGameCallback`, `creditUser`, `createWithdrawal`); four read it, change
  a copy and save the copy (`handleMoneyCallback`, `depositUserBalance`,
  `setFavorites`, and the sports service). So do verification, resending, resets
  and sweeps. TypeORM's `save` of a loaded entity reads the row again and updates
  every column that differs from the copy, so a stale column is written back.
  `updateUserBalance` writes a sum of what it read before.
* **Queues** connect scanners to `DepositProcessor` and `createWithdrawal` to
  `WithdrawalProcessor`. BullMQ delivers at least once: a job whose worker stops
  renewing its lock is given to another worker while the first may still run.
* The **Redis key** written by a launch chooses the balance a callback moves.
* The **set of addresses** that `register` adds to is what the EVM scanner looks
  for, through a copy that is up to a minute old.
* Withdrawals, deposits, games and bets send **messages** to the room of the
  user; a browser mixes them with the answers to its own fetches.
* `creditUser` converts with a **cached price**.

### What is hard

Interleavings of callbacks and calls under and without row locks; redelivered
jobs and transactions; a process that stops between two writes; a job added
before its row commits; a retry of an attempt that has already recorded its
failure; a unique index that another transaction's uncommitted row makes wait;
polls that overlap on one cursor; endpoints that fail or lag; caches shared by
callers who asked for different things; answers and messages that cross in a
browser. `PROJECT.json` lists each hazard at its line, with the properties that
cover it or the reason why none does.

### What makes each component correct

* Casino wallet: a transaction moves one balance once, as a whole; status 1 means
  it is on record; no balance goes below zero; no callback waits for ever; only
  a copy that was out of date loses a change.
* Scanners: a cursor passes over a transfer only for a named reason; nothing is
  enqueued before it is confirmed; a scanner catches up.
* Deposits: a credit is for a confirmed, successful transfer, once, with its row;
  credits do not overwrite each other; a deposit is credited at last.
* Withdrawals: what leaves a balance is exactly what the existing rows say;
  tokens are sent once and only for a committed row; `completed` means sent; a
  row left pending has a named reason.
* Sports: stakes and payouts balance; a bet is paid once; a browser shows the
  markets the API had.
* Accounts: a password is hashed once and replaced only by a reset; a token
  resets once; a failed registration leaves an account only when it failed late.
* Sweeps: what is set to zero has left.
* Upkeep: boards heal, servers come up, prices are young, endpoints are found,
  lists settle.
* Browser: what is shown is the server's, of the user whose token is stored.

## 2. Modules

| Module | What it is |
|---|---|
| `BalanceLedger` | abstract: what the casino wallet promises a provider |
| `GameCallback` | `handleGameCallback`, `gameLaunch` and the expiry of the key; implements `BalanceLedger` |
| `CasinoWallet` | `GameCallback` composed with the writers that take no lock |
| `DepositLedger` | abstract: what the deposit pipeline promises |
| `Deposits` | queue, workers and `creditUser`; implements `DepositLedger` |
| `EvmScanner`, `SolScanner`, `BtcScanner` | what fills the queue, one module per kind of chain |
| `WithdrawalLedger` | abstract: what `createWithdrawal` promises |
| `Withdrawals` | `createWithdrawal`, queue, workers, administrators; implements `WithdrawalLedger` |
| `SportsBets` | `placeBet`, `claimWinnings`, `updateBetStatus` |
| `MarketCache` | the cached markets of the service and of each browser |
| `BetSlip` | the slip of a browser and the bets it sends |
| `Registration` | `register` |
| `Accounts` | codes, resets and adjustments of one user's row |
| `Sweeps` | `sweepFromUsers` for one user, with deposits and games beside it |
| `Leaderboard`, `Bootstrap`, `RpcManager`, `PriceCache` | the work beside the requests |
| `ClientUser` | the user and the balances a browser shows |
| `GameCache` | the game lists of a browser |
| `CasinoWalletProofs`, `DepositsProofs`, `WithdrawalsProofs`, `ScannersProofs`, `SportsBetsProofs`, `AccountsProofs`, `UpkeepProofs` | the TLAPS proofs, one module for each run or its parts |
| `SumProofs` | what the proofs need to know of sums over finite sets |
| `MC*` | instances for TLC, and the properties that need sums |

Every definition that stands for code has its lines in `PROJECT.json` under
`map`. An operator with the comment "Mutant" is a plausible bug of the
definition that follows it; it is used in no specification, and shows that the
property named with it in `PROJECT.json` can fail. Variables marked as history
are never read by a guard: they remember what a property needs to know of the
past.

### GameCallback

A handler's `pc` names the await it has reached: `lock` (balance type read, row
not yet locked), `check` (row locked and read), `write` (copy changed), `commit`
(both saves made, transaction open). The writes of a transaction are private to
the handler until `Commit`, and a rollback is `Fail`, `Refuse` or
`UniqueViolation`. An insert that meets an uncommitted row with its key waits
(`InsertWaits`), as InnoDB's unique index makes it. `typeKey` is read before the
transaction, so it may change before the balance does.

### CasinoWallet

Each unlocked call is `ReadUser`, `Reload` (the read that `save` makes) and
`Update` (the columns that differ). An `Update` waits for a row lock; the two
reads do not. `stale` names the users whose row moved while a call held a copy.

### Scanners

* `EvmScanner` is the loop of one chain: `RefreshAddressCache`, `Plan` (latest
  block, safe block, batch), one task per token and block, `SaveCursor`. The
  block number comes from an endpoint up to `Lag` behind, the addresses from a
  cache up to a minute old. A failed query is logged and the batch goes on
  (`ProcessFails`); a restart begins at the latest block.
* `SolScanner` lets several polls of one address work at once, as `setInterval`
  starts them; the cursor in memory and the one in Redis are apart. A token
  `transfer` without a mint throws and holds up the address (`Plain`), until
  later signatures push it out of the list the endpoint returns (`Limit`). The
  SOL and the tokens of one signature share a job id, so of a second add nothing
  is claimed: the queue ignores it unless the first job is over by then
  (`Enqueue`).
* `BtcScanner`: the explorer lists unconfirmed transactions first and a poll
  makes the first of the list its cursor, so a transaction that is first seen
  unconfirmed is passed over until a restart. The answer (`PollBtc`) and its cut
  at the cursor of the moment it arrives (`Take`) are two steps: another poll may
  move the cursor in between.

### Deposits

`job`, `jstate` and `owner` are the queue: one job per chain and hash, since the
job id is made of them. `Take`, `Stall` and `EndJob` are BullMQ. A worker whose
job was taken goes on (`Stall` leaves the worker alone) and changes nothing in
the queue when it ends, except that `moveToDelayed`, called without a token,
moves an active job whoever holds it. `Create` inserts with no unique index.
`NotReady` includes the reverted EVM deposit: the handler means to mark it
failed but passes the hash to a lookup by id and throws. `RequeueFails` is the
caught error of `moveToDelayed`, after which the job completes.

### Withdrawals

`cpc` is the request's place in its transaction. `AddJob` comes before `Commit`,
as in the code, so a worker can take the job of a row that does not exist yet,
and `Abort` leaves the job in the queue. `Deduct` sets the USD balance to what is
left of the token balance. `SaveThrows` is the failure of a status update: that
of `completed` lands in the catch. `Stall` is bounded by `MaxStalled`, as in
BullMQ, and attempts by the job option `attempts`, which is 3 in the code: the
run that looks for a violation uses 3, `withdrawals` uses 2, which already has
the retry of a failed attempt, and the proofs hold for any number. An
administrator may set any status at any time. `missed` holds the requests whose
job a worker took before the row was there. `wait` is the await of
`sentTx.wait(1)`, which has no timeout: a transfer that is never mined keeps its
worker there, and the living process renews the lock of the job.

### SportsBets, MarketCache, BetSlip

A call of `SportsBets` is `Begin`, then for each row it saves a reload and an
update, the user's row before the bet's. `Cut` stops it anywhere. `overlapped` is
the users and bets that two calls in flight had in common, or that a cut call
touched. In `MarketCache` a list of markets is the query and the version it
answers, and stands for its own hash. `BetSlip` has the two ways tickets get in,
which replace differently: a card replaces the ticket of its own market, the page
of a game every ticket of that game. `placed` and `lost` remember, ticket by
ticket, what the server has placed since it was last clicked and whether the
answer got lost.

### Registration, Accounts, Sweeps

`Registration` is the chain of awaits of `register`; `AfterSave` is what follows
the insert. In `Accounts` a row has the columns that these calls may change or
put back; a password is who set it and how often it has been hashed, since the
entity hashes on every save that follows a load in which a column differs.
`behind` names calls whose copy is older than the password. `Sweeps` goes through
the assets in the order of the code; `StoredAs` and `DecodedAs` are the forms of
the private keys in `register` and in the sweeps.

### Leaderboard, Bootstrap, RpcManager, PriceCache

A rebuild (`Leaderboard`) counts, deletes and inserts, each a query. `Bootstrap`
is a start with the race between the rebuild and five seconds. In `RpcManager`
the index is moved on before the endpoint is tested. `PriceCache` has a clock;
a price is quoted at some moment between the request and the answer, and stamped
with the moment the call began.

### ClientUser, GameCache

`ClientUser` has one socket, which leaves its room with every change of user or
network. The server's side has the two ways a message is sent. Callbacks,
credits and withdrawals lock the row and emit inside the open transaction
(`Announce`): `promised` is the row as that transaction will leave it, until
`CommitMove` or `RollBack`, after which nobody corrects the message. A
`money_callback`, a bet, a claim or an administrator reads, reloads and updates
without a lock (`ReadRow`, `ReloadRow`, `UpdateRow`) and then tells its copy,
which may be out of date, or tells nothing (`TellCopy`). A fetch reads what is
committed. `unsure` collects the balances for which a named case has broken the
link to the server's row: a message missed, an ignored 0, a copy that was out of
date, a rollback, a fetch that crossed a change; `Owed` are those a call has
saved and not yet told.

`GameCache` keeps apart what was set (`entries`) and what the last render knows
(`view`), since `fetchGames` decides by the latter. A request that fails never
reaches the catch of `fetchGames`: `fetchGameListAsync` returns `undefined`, or
the body of the error, and that is stored as a list, fresh for five minutes
(`ListFails`). A page that gets it to show reads its length, has no error boundary
(`crashed`) and stays so until it is loaded anew (`ReloadPage`).

### Abstractions

* Amounts are small naturals; formatting, prices, odds and fees are constants of
  the request, and a bet's payout is the number its odds give.
* `creditUser` adds to the USD and the token balance by one amount each; they
  move together and are one number in `Deposits`. In `Withdrawals`, `usd` is the
  balance of the request's network, real or test.
* A chain only gets deeper: there is no reorganisation.
* BullMQ, TypeORM, InnoDB, React, sockets, chains and explorers are modelled from
  how the code uses them and marked external in the map.
* Overlapping handlers of one queue need two server processes, or one process
  whose job stalled; both are possible with the code, and `Workers` counts them.
* In `SportsBets` the selections of a bet are left out. See section 6 for the one
  disagreement this hides.

## 3. Runs

Some invariants are conjunctions of named parts, each with its own comment:
`EvmSafe`, `PollsSafe`, `AccountsSafe`, `SlipSafe`, `AnswersFit`, `BoardsExplained` and
`TypesOK`; likewise the action properties `OnlyOlderUndoes` and `SweepSteps`, and
`AllCatchUp` and `AllSettle` of the liveness properties.

Bounds are in the `MC` modules and the `.cfg` files. Nothing is cut off with a
state constraint; counters are bounded by the finite sets of requests and by the
constants marked as bounds. Where an `MC` module joins components that share no
state, a behaviour runs one of them, chosen in `Init` (`part`, `scanner`): their
product would add states and nothing else.

| Run | Instance | Question |
|---|---|---|
| `callbacks` | 2 handlers, 2 users and an unknown code, 6 requests that share keys across types and users, delivered any number of times | the snapshot under the lock, acknowledgement, implements `BalanceLedger` |
| `callbacks_live` | 2 handlers, 3 requests | every callback is answered |
| `wallet` | 1 handler, 4 unlocked calls, 2 requests of one round; a browser with 2 users, 2 fetches at once, 2 changes of balance, of which 1 at a time takes no lock, 2 visits | a balance is what its transactions and calls say, but for a change lost to a stale copy; a transaction reported twice moves a balance once; the balance shown is the server's but for the named cases, though messages precede their commit or tell a copy |
| `deposits` | 2 workers, Solana and Bitcoin deposit of one user | a row is confirmed with its credit, credits and rows follow `DepositLedger`, second rows need a stall |
| `deposits_live` | 1 worker, EVM deposit beside a reverted one | nothing is paid early or for a revert; the good one is paid at last |
| `scanners` | EVM: 2 transfers, 3 blocks, 2 faults; Solana: 4 signatures of which one has no mint, 2 polls, 2 faults; Bitcoin: 3 transactions, 2 polls, 1 fault | what a cursor may pass over, what may be enqueued, catching up |
| `withdrawals` | 1 worker, 2 competing requests and an invalid one, 2 attempts, 1 stall | sends, statuses, what is left pending; implements `WithdrawalLedger`, so deductions too; jobs end if no wait for a transfer lasts for ever |
| `withdrawal_real` | 1 worker, 1 request | violation: the USD balance is overwritten |
| `bets` | a bet settled and claimed twice, one that only its winnings can pay, one on the other balance; a slip with 2 games, 3 clicks, 2 bets; 2 browsers, 2 queries, 3 fetches | stakes and payouts balance; second payouts need overlap; which tickets a slip loses and sends again; what the service returns and a browser shows |
| `accounts` | 3 registrations that share a name or an email; 4 of 9 calls on one account; sweeps of 2 chains with 5 deposits and a play | passwords, codes, tokens, adjustments; what registrations leave behind; what sweeps move and put back |
| `sweep_zero` | the same | violation: balances are zeroed although nothing left |
| `upkeep` | 3 rebuilds of 2 periods; 3 providers, 2 crashes; 2 callers of 3 endpoints; 2 callers of a price; 2 providers and 2 requests of a game list | boards heal, servers come up, endpoints are found, prices are young, pages settle unless a failed request crashes them |

Why these bounds are enough to be interesting: two handlers, workers, polls,
claims or fetches are the least that interleave, and the hazards here are races
of two. Requests are chosen so that keys, users, names and balances collide. One
request is invalid or for an unknown user in each instance that has such a path.
Faults are bounded by 1 or 2, enough for one to hit the recovery from another.
The browser of `wallet` has one unlocked writer: two changes of balance are then
a locked one beside it, one after the other, or two locked ones, and its copy is
made stale by a locked one; two visits are a login and one more fetch, switch or lost connection. In
`scanners` the Bitcoin transactions differ in name only and are broadcast in the
order of their names (`MCNext`); the theorems are about `Spec`, which has no order.
In `upkeep` the clock runs past two lifetimes of a price. The lists of
`RpcManager` differ, so that a caller can hold the one that has expired.

`CHECK_DEADLOCK FALSE` stands where everything may come to rest: every job done,
every bet settled. The casino instances never rest, since requests repeat.

Handlers, workers and rows are symmetric in the safety runs; no liveness run
uses symmetry.

## 4. Fairness

* `GameCallback`: strong fairness of each handler's own step. The event loop and
  MySQL run what can run, and InnoDB grants the waiters of a lock or of a
  duplicate key in turn, so a wait that ends again and again is won at last.
  Requests, launches, expiries and failures are not assumed.
* `Deposits`: chains advance; a waiting job is taken at last (the queue is
  first in, first out); a job nobody holds is found by the stalled-job check; a
  worker that can go on does; and outages end (`OutagesEnd`), since a call that
  fails for ever credits nobody. Jobs may still be taken from living workers
  without end.
* `Withdrawals`: a transaction at its end commits or rolls back, waiting jobs
  are taken, unowned jobs are found, workers go on, except at the await of a
  confirmation, which has no timeout: that it ends is the premise
  `NoWaitForEver` of `EveryJobEnds`, an assumption on the chain (transfers are
  mined or fail, or the process dies) and not on the code. Sends, saves and
  processes may fail every time.
* Scanners: weak fairness of the loop, of each poll (asking, taking the answer and
  working through it) and of the start of a
  stopped process. Faults are bounded, so an outage ends.
* `Leaderboard`: the hour comes and queries are answered. That the hourly rebuild
  does not meet itself takes for granted that it needs less than an hour.
* `Bootstrap`: every request is answered or times out and every timer fires; the
  rebuild need not end.
* `GameCache`: React renders what was set, and requests are answered or fail. How
  often lists change, fail or are chosen is bounded. That the user loads a crashed
  page anew is not assumed: `PageSettles` says that a page settles or is crashed.

## 5. Proofs

Every invariant and every action property that a passing run checks is also proved,
and so are the three refinements, from the named assumptions on the constants
alone. They hold for any numbers of users, workers, browsers, calls, messages
and blocks; the bounds of the runs (`Max...`) are constants like the others.

### Casino (`CasinoWalletProofs`)

Of `GameCallback`, for any users, handlers, requests and starting balance: `TypeOK`,
`NoOverdraft`, `SnapshotIsCurrent`, `NoSameUserCollision`, `AckedIsRecorded`,
`UniqueTxns`, and `ImplementsLedger`, the refinement of `BalanceLedger`. Assumed is
only `MsgAssumption`: requests have the fields and types of `GameCallbackRequest`,
existing users are among the codes, the start balance is a natural, and `None` is
none of the handlers, balance types and requests.

None of the invariants is inductive alone. A commit keeps a balance above zero
because the copy was checked while the lock was held (`SnapshotIsCurrent`) and
what was checked still holds of the row (`Covered`). A second record with a key
is impossible because a handler at its commit is the only one with its key and
finds none on record (`InsertedAlone`), which the wait on the unique index gives
at `Write` and which a commit of another key keeps. `IInv` joins these with the
types. `NextCases` reduces the actions to those that differ for it, one lemma per
action shows it is kept, and `CommitAccepts` shows that a commit is exactly
`Accept` of the abstract ledger, which is also the refinement step.

Beside the calls that take no lock `NoOverdraft`, `SnapshotIsCurrent`,
`AckedIsRecorded` and `UniqueTxns` still hold; the refinement does not, since these
calls move balances too. This composition adds `MovesOnce` and
`LostNeedsStaleCopy`. The steps of the handlers keep `IInv` by the
lemmas above; of a call's steps only `Update` touches the row, and it waits for
the lock, so it never hits a row that a handler has read. What it writes is not
negative because a debit is refused when the copy cannot pay (`CallTypes`), and it
is never a game transaction's (`MayWrite`). The lock thus protects the callbacks
from the other writers, but not these from each other. That nothing else gets lost
is `LostInv`: the copy of a call whose row nobody moved is the row with its change
(`CopiesFit`), so each commit and each save adds to a balance exactly what it adds
to the sum. Assumed is also `CallAssumption`: the calls are well typed.

Of `ClientUser`, for any members, fetches, unlocked writers and balances: `ViewIsCurrent` and
`ShownIsLoggedIn`. `ClientInv` says of each thing that can later set what is shown
why it will be right: the socket is in the room of the user shown or hears nothing
(`RoomFits`), a fetch is about the user whose token is stored (`AsksForStored`),
what it was told still holds or news of it is on the way (`AnswersHold`), and the
last unread message about a balance tells it as it is (`NewsHolds`). "As it is"
means as promised: the row itself when no transaction is open on it, and what that
transaction will leave otherwise, since its message is out before the commit. A
rollback, or a copy that differs from what is promised, makes the balance unsure; a
balance that an unlocked call has saved is owed until the call tells it. Assumed:
`ClientAssumption` (the start is a user's balances; `Nobody` is no member).

### Sums (`SumProofs`)

`SumFunctionOnSet` folds a set in an order that CHOOSE fixes. That adding one
element adds its value (`SumAdd`), that changing one value changes the sum by the
difference (`SumChange`) and that other values do not matter (`SumSame`) needs the
fold to be independent of its order, and so induction over finite sets. The
library's induction theorems take a predicate as an operator and cannot be used here;
`SetsBySmaller` is the same fact about a set in place of the predicate: a
least counterexample exists because strict inclusion on a finite set is well
founded (`WFMin`). From it follow induction over an interval (`NumbersByOne`), that
the fold's equation has a solution (`Solvable`) and only one (`SumsAgree`), and
`TakeAny`: any element may be taken out first.

### Deposits (`DepositsProofs`)

`TypeOK`, `PaidIffConfirmed`, `NeverPaidEarly`, `SecondRowNeedsStall` and
`ImplementsLedger` of `Deposits`, from `DepositAssumption`: transfers are well
typed, those of one hash are on one chain, a Bitcoin transaction does not fail, and
`None` is no worker, transfer, row id or row.

For the payments the queue plays no part: a job may be in several hands. What
keeps a payment and its row together is that `creditUser` locks the row, looks
at its status again, locks the user and only then reads the balance. So `DInv`
says of a worker past the first lock that it holds the lock and the row is not
confirmed (`RowLocked`), and of one past the second that the balance is the one
it read (`UserLocked`); two such workers are then on different rows and
users. With `NeverFailed` (no row is ever saved as failed) the row at a commit
is pending, which makes the commit exactly the `Credit` of the abstract ledger.
`PaidInv` adds that a worker in `creditUser` has found its transfer executed and
confirmed, which a chain never takes back (`Crediting`).

For the second row it is the queue that matters: `OwnInv` says that as long as a
hash was never taken from a worker its one handler owns the active job (`Owns`),
and that this handler is about to create a row only where there is none
(`Creating`).

Two theorems say what this means for a user; they have no run of their own.
`CreditedAtMostOnce`: a hash is credited once unless its job stalled.
`CreditsConserved`: what a user has been credited is the sum over the rows that were
paid, by `SumProofs`; a lost, overwritten or repeated credit would break it.

### Withdrawals (`WithdrawalsProofs`)

`TypeOK`, `NoOverdraft`, `OnlyCommittedIsSent`, `SentOnce`, `CompletedIsPaid`,
`PendingIsQueued` and `ImplementsLedger` of `Withdrawals`, from
`WithdrawalAssumption` (well-typed requests, natural balances, at least one
attempt, `None` no value of another kind). `Created` ties the row, the place of the
transaction and the job together, so a row that a worker can read has been
committed. `Undisturbed` follows a withdrawal that met no stall, administrator or
failed save: its job is in the hands of the one worker that owns it, an attempt
starts only if nothing was sent or the row already says `failed`, and past the
send exactly one transfer was made. `SentOnce` is its first line, but inductive
only with the rest: without the ownership a second worker could be at `send`, and
without `Fresh` a retry could be. For the refinement, the copy of a request that
holds the user's lock is the row, so its commit is exactly `Place`; every other
step reports a status or changes nothing.
`TokensConserved` follows from the refinement alone: a token balance is the start
less the amounts and fees of the withdrawals placed on it.

### Scanners (`ScannersProofs`)

`EvmSafe` and `PollsSafe`, first for each chain and then in the composition, from
`EvmAssumption`, `SolAssumption` and `BtcAssumption`.

EVM, for any transfers, confirmations, batch sizes, lags and numbers of faults:
`BatchIsSafe` keeps a batch above the cursor and below what has its confirmations
at the height it was planned with; `BatchIsShown` says that a transfer of the batch
has been dealt with or the task that shows it is still to come, so that nothing is
left when the cursor is saved; `CacheKnows` says that the cache has every address
that was listed before it was read, and a miss therefore needs a mining since then.

Solana, for any number of polls that overlap: whichever poll moves a cursor, it
moves it to a signature up to which all are settled, by the polls before it
or by itself (`PollsFollow`); settled is never undone. Bitcoin: the cursor is
a transaction that the list had, and all that was confirmed below it is dealt with
or excused (`CursorIsDone`); a poll that is about to set it deals with what it took
above the cursor it saw when its answer came (`PollIsDone`), wherever the others
have moved it before or since.

### Sports (`SportsBetsProofs`)

`TypeOK`, `MoneyFirst`, `PaidAgainNeedsOverlap` and `BooksBalance` of `SportsBets`
for any bets, claims and settlements, from `BetAssumption`. A bet's row comes after
its stake (`StakeFirst`), and a mark of a payout, in the row or in a call's copy of
it, after the payout (`PaidFirst`). `Apart` says that calls which have something in
common have been recorded; of a bet that is not recorded so, `AloneOnce` knows
at every step of the one call that works on it what its copy and the row say, so
that a second claim, which looks for an unmarked row, cannot begin after the first
has paid. `BooksInv` adds that between the read and the save of a call whose user
has no other one the copy is the row with its change (`CopiesFit`), and that a
stake is taken before its bet is paid (`StakesFirst`): each save then moves the
balance and the sum by the same amount.

`AnswersFit` of `MarketCache` for any browsers, queries and requests, from
`MarketAssumption`: a request that nothing crossed carries the hash of the list in
the cache and is answered with what the API had (`AsksAboutCache`), and one that no
other answer crossed still holds the list its browser shows (`HoldsList`).

`SlipSafe` and `ClearedWasPlaced` of `BetSlip`, for slips of any length, from
`SlipAssumption`. What is in the slip or in a bet under way and was placed before
has lost its answer, unless that very bet has just placed it (`PlacedIsAnswered`); and
every ticket of the slip is in the bet under way or came meanwhile
(`CoveredTickets`). Filtering a slip must bring no ticket twice (`OnlyKeeps`); it
rests on `RanksCover`, that the ranks of the members of a finite set of numbers
are the numbers up to its size. `Only` is written by ranks because the provers know
nothing of `SelectSeq`.

### Accounts (`AccountsProofs`)

The properties of `Registration` for any requests: `AllMet` (two requests in
progress are recorded as having met) carries the race of the two look-ups to the
insert, and `Progress` ties the place of a request to what it has left in the
table, in the list and in the mail.

`AccountsSafe` and `OnlyOlderUndoes` of `Accounts` for any calls. `PasswordInv`: a
call holds the password as the row has it or is recorded as older, and only a
reset holds a plain one (`OthersAgree`, `HashesOK`), so no save stores a plain or a
twice hashed one. `TokenInv`: a token that no two calls came with at once is in the
hands of one call, which has not used it before (`TokenOK`). `AloneInv`: as long
as no calls crossed there is one at a time, its copy differs from the row in what
the call is for, and the last mail and the recorded adjustments are those of the
row.

`SweepSteps` and the gas of `Sweeps` (`TokensBeforeGas`): until the turn of a chain
comes, its tokens and its coin are at least what they were when the sweep began,
and the first token takes the gas of one transfer (`ChainOK`); this uses that the
order of the sweeps comes to each chain once and to its coin last
(`SweepAssumption`: the chains are distinct). `TypesOK` includes that no sweep
spends what the wallet does not hold.

### Upkeep (`UpkeepProofs`)

* `PriceIsYoung` for any callers, lifetime and timeout: the kept price was quoted
  no earlier than its stamp says (`StampIsEarlier`), and a request under way has not
  run into its timeout (`InTime`).
* `ListsComplete` for any sequence of providers: a start that fetches has asked for
  each provider before the one it is at (`ListsSoFar`), and one that is over has
  asked for all or stopped early (`ListsAfter`).
* `AloneFindsWorking` for lists of any length and any first index: `Tried` says that
  a caller whose index nobody moved has found dead all that lies behind it, the
  number of places it went being the number it tried, round the end of the list.
* `BoardsExplained` for any periods and runs: while no run cleared a period between
  the two writes of another, one run at most has rows in it or is about to write
  them (`OneAtATime`).
* `OlderNeedsOverlap` for any providers, requests and failures: no list is newer
  than the server's (`NoneAhead`), and a request that met no other one for its
  provider finds the cache no newer than its answer (`OneFinds`). What a failed
  request leaves counts as no edition, so that only lists are compared.

### What is assumed, and what is not proved

The assumptions say that the constants are what their comments say they are: sets
of well-typed records, naturals, sequences (`Providers`, `Chainlist`, `Fallback`,
`Periods`, `Chains`), and that a value which stands for the absence of something
(`None`, `Nobody`, `NoTx`, `NoMarkets`, `NoChange`) is not one of the things.
Beyond types they say that hashes do not collide between chains, that a Bitcoin
transaction that is mined has not failed, that calls have different identifiers and that
the sweep's chains differ. TLC evaluates each of them in a passing run.

The type invariants of these modules and `NoOverdraft`, `NoSameUserCollision`,
`UniqueTxns`, `OnlyCommittedIsSent`, `SuccessIsComplete`, `CreditedOnce`,
`CreditsAddUp` and `TokensAddUp` are proved and need no run.

Only model-checked are the liveness properties (`EveryCallbackAnswered`,
`EventuallyCredited`, `EveryJobEnds`, `AllCatchUp`, `AllSettle`): fairness and
ENABLED are beyond the prover. The two properties that the code violates
(`WithdrawnFromRealBalance`, `ZeroedAfterSuccess`) are refuted by their runs.

## 6. Findings

The two runs that end in a violation are disagreements with a text or comment of
the code, quoted in `PROJECT.json`: `withdrawal_real` and `sweep_zero`. More was
met without a run of its own:

* `withdraw/withdraw.processor.ts:196` leaves the retry to BullMQ, but the catch
  has saved `failed`, which the next attempt skips: no retry ever sends.
  `SentOnce` relies on exactly this.
* `sports/entities/sports-bet.entity.ts:72` keeps the game ids of a parlay in the
  database, but `claimWinnings` saves the copy from which `getBetById` stripped
  them.
* `auth/auth.service.ts` mails that a code will expire in ten minutes; no code
  looks at its age.
* `api/api.service.ts` means not to retry on client errors, but the errors have
  been wrapped by then and the condition never applies.
* The sweeps decode Bitcoin keys as WIF and Solana keys as base64; `register`
  stores them as hex and base58, so these sweeps always fail (`OnlyEvmMoves` of `SweepSteps`).
  `fetchSweepableUsers` sets one parameter four times and ignores USDC.
* `frontend/.../lib/api/index.ts:39-48` swallows the failure of a request for a game
  list and never looks at its status, so that the catch of `fetchGames` in
  `GameCacheContext.tsx`, which would put the old list back, is not reached: the
  slots page crashes on what it gets instead (`crashed` in `GameCache`).
* A slip keeps a second ticket of a game that a card adds, where the page of a
  game means to allow one (`TwoNeedACard` of `SlipSafe`).

What no text promises otherwise, but the properties say exactly when it happens:
overlapping claims pay a bet twice (`PaidAgainNeedsOverlap`); unlocked writers
lose changes of a balance (`LostNeedsStaleCopy`); a withdrawal whose job a worker
takes before the commit stays pending (`PendingIsQueued`); a stalled job can give
a transfer two rows (`SecondRowNeedsStall`); two registrations at once can share
an email (`EmailTwiceNeedsRace`); "no change" can return another query's markets
(`ReturnsWhatApiHad` of `AnswersFit`); a browser ignores a balance of 0 after a bet, hears
nothing after a lost connection, shows a balance whose transaction was rolled back
or that another writer has changed since, and shows a user whose fetch is answered
after the logout (`ViewIsCurrent`, `ShownIsLoggedIn`).

And without a property: a reverted EVM deposit goes round the queue for ever; a
second transfer of one chain transaction, or the tokens of a Solana signature that
also moves SOL, is not credited; a withdrawal whose transfer is never mined keeps its
worker, and the jobs behind it, for ever; a round's credit may
move another balance than its debit when the key has expired in between; an
administrator can set a credited deposit back to pending, which is credited again
if its job comes again.

## 7. Plan

The order of the plan was: what moves money (callbacks, deposits, withdrawals,
bets), then what feeds it (scanners, accounts, sweeps), then upkeep and browsers.
That is done, and the safety properties are proved. What is left:

1. An administrator's changes of deposit rows beside the queue.
2. Refinements for the parts that have no abstract specification yet: what bets and
   unlocked calls that do not overlap promise as a ledger.
3. Safety parts of the liveness arguments: that a job which has not ended has a
   worker or a place in the queue, that a row lock has a holder that can go on.

## 8. Not modelled, and why

* Odds arithmetic: floating point, which TLC has not.
* Promotions: a table of texts that nothing depends on. Two starts at once can
  fill it twice.
* Wiring, constants, ABIs, type declarations and recorded bets: they change no
  state. Two files of recorded bets are 45152 of the 78315 lines of the
  implementation, which is why the share of mapped lines stays low however much
  of the rest is modelled.
* The rest of the frontend: pages and components that render what the server
  answers, forms and the administrators' pages. They keep no state that outlives
  a request. `LiveSupportChat` talks to endpoints the server does not have.
* Administration beyond the operations named above: edits of single rows by
  identifier, dashboards and lists.
* `setCustomRPCs` and `clearCache` of the RPC manager and `clearCache` of the
  game lists: nothing calls them.
