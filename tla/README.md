# AuraLens in TLA+

AuraLens is a fork of the ElizaOS agent framework with one plugin of its own,
`src/packages/plugin-bnb-auralens`: an autonomous trader that asks two language
models for a decision, checks it against a risk engine, opens a leveraged
position on the MYX router of BNB Chain, holds it, closes it, issues an invoice
for the profit, buys $AURA with the fee and stores the trade. This directory
models that plugin and its contracts first, because they carry the program's
own logic and state. The framework appears where the plugin depends on how it
behaves (the start and stop of agents) and where it has a protocol of its own:
the knowledge a start stores, the circuit breaker of the database, the Twitter
client, the queues of the media services, the team rules of the Discord client.

Paths below are relative to `src/packages/plugin-bnb-auralens/` unless they
name another package.

Contents: [inventory](#inventory) · [modules](#modules-and-the-code) ·
[runs](#runs-bounds-and-what-they-show) · [fairness](#fairness) ·
[proofs](#proofs) · [where the code departs from its documents](#where-the-code-departs-from-its-documents) ·
[not modelled](#what-is-not-modelled) · [plan](#plan)

## Inventory

### The trading plugin

| part | state it keeps | operations | talks to |
|---|---|---|---|
| Risk engine, `src/providers/riskEngine.ts` | one module-level record: last trade, open count, P&L and start of the day | `runRiskCheck`, `recordPositionOpened`, `recordPositionClosed`, `recordTradeResult` | called by the trade cycle only, never awaits |
| Trade cycle, `src/actions/tradeCycle.ts` | local variables of each invocation, across a dozen awaits and a timer of five minutes | the handler | every provider below |
| Consensus, `src/providers/dgrid.ts` | none | two model calls in parallel, parsing, weighting | DGrid over HTTP |
| MYX provider, `src/providers/myx.ts` | none | open, close, adjust depth, price | the router contract |
| Buyback, `src/actions/buyback.ts` | none; an allowance on the chain | approve, simulate, swap, wait | USDT, PancakeSwap |
| Pieverse, `src/providers/pieverse.ts` | none | pay fees, issue invoice, register skill | HTTP, with a made-up receipt when it fails |
| Unibase, `src/providers/unibase.ts` | trade records | store, query, quote in the next prompt | HTTP |
| Treasury, `src/providers/treasury.ts` | a cache of thirty seconds | read the balance | token contract, cache |
| Scheduler, `src/actions/scheduler.ts` | the runtime and one timer handle, in one instance for all agents | `initialize`, `runCycle`, `stop` | the trade cycle |
| Wallet contract, `contracts/AuraLensWallet.sol` | agent, cap, timelock, last trade, totals, pause | the agent's and the owner's calls | token, any router |
| Test router, `contracts/MockMYXRouter.sol` | positions | open, close | token |
| Test token, `contracts/MockERC20.sol` | balances, allowances, supply | mint, transfer, approve, transferFrom | |

What is hard about it, and what makes it right:

* **Overlap.** The scheduler's timers, the dashboard and chat messages all call
  the same handler, nothing keeps two of them apart, and the record is read at
  the check and written after a transaction's receipt. Right means: the count
  of open positions stays the number of handlers that hold one, and whatever
  the risk engine promises can be broken only in ways one can name.
* **Partial failure.** Every await can throw, a wait can time out while its
  transaction is mined later, and a reverted transaction has a receipt too.
  Right means: nothing unapproved reaches the chain, a position without a
  handler has a known cause, and nothing is settled that was not closed.
* **Crashes.** The record lives in memory; the chain and Unibase do not.
* **Numbers.** NaN passes every comparison of the engine; an `int256` is read
  as an unsigned word; amounts cross between three scales.
* **Two accounts of one truth.** The wallet contract has its own cap and
  timelock, and it and the router must agree on who moves the collateral.
* **Sharing.** One service instance serves every agent of the process, one
  account pays for every cycle, one allowance serves every buyback.

### The framework around it

| part | state | what is hard |
|---|---|---|
| Runtime (`packages/core/src/runtime.ts`), `agent/src/index.ts`, `packages/client-direct` | agents, services, clients | a start initializes services twice; a failed or stopped agent leaves its services behind; a requested start that fails is caught by nobody and ends the process |
| Knowledge and memory (`packages/core/src/knowledge.ts`, `memory.ts`) over the Postgres or SQLite adapter | rows that outlive the process, with ids made of the text | a start that ends half way; two starts that check and then insert; agents that want the same rows |
| Circuit breaker (`packages/core/src/database/CircuitBreaker.ts`) under the Postgres adapter | state, two counters, a time | calls that begin in one state of the breaker and end in another; retries inside it; a breaker call within a breaker call |
| Twitter client (`packages/client-twitter/src`) | request queue, the mark of the last tweet checked, a row per tweet seen | polls that overlap, rows written before the answer, a mark that goes back, turns that post several times |
| Media services (`packages/plugin-node/src/services`) | job queues, a cache of videos | a drain loop nobody awaits, whose failure ends the process; callers that look for a url, not for their entry; one cache entry for all urls without an id of YouTube |
| Discord client (`packages/client-discord/src/messages.ts`) | interest in each channel | handlers of several messages give and take one interest across their awaits |
| Cache manager, generation | entries | single reads and writes; retries of model calls |
| Other clients, adapters and some forty plugins | various | not loaded by the trading agent |

`PROJECT.json` lists every component with its status and every hazard at its line.

## Modules and the code

| module | code | role |
|---|---|---|
| `RiskEngine` | `riskEngine.ts` | operators on the engine's record |
| `TradeCycle` | `tradeCycle.ts` and the providers it awaits | handlers, chain, crashes; extends `RiskEngine` |
| `Trader` | | what a trade cycle promises, abstractly; `TradeCycle` implements it |
| `TradingSystem` | `treasury.ts`; composes `Scheduler` with `Trader` | timers and requests that start cycles, and the treasury's cache between them |
| `Consensus` | `dgrid.ts`, first checks of `riskEngine.ts` | from two answers to an allowed direction; extends `RiskEngine` |
| `MockERC20` | `MockERC20.sol` | operators on the token's storage |
| `PacedSpender` | | what the wallet promises its owner, abstractly |
| `Contracts` | the three contracts and `myx.ts` | transactions on one chain; extends `MockERC20`, implements `PacedSpender` |
| `Buyback` | `buyback.ts` | buybacks of one account side by side; extends `MockERC20` |
| `Scheduler` | `scheduler.ts`, runtime, REST routes | timers of a shared service |
| `Knowledge` | `agent/src/index.ts`, runtime, `knowledge.ts`, `memory.ts`, the adapters' insert | starts side by side on one table |
| `CircuitBreaker` | `CircuitBreaker.ts`, `withRetry` of the Postgres adapter | overlapping and nested calls |
| `Twitter` | `base.ts`, `interactions.ts`, `post.ts`, `utils.ts` of client-twitter | polls and the timeline loop over one table, one mark, one queue of requests |
| `Media` | `video.ts`, `image.ts`, `transcription.ts` of plugin-node | callers, drain loops and one transcription |
| `Team` | `messages.ts` of client-discord | one agent of a team in a channel |
| `MC…` | | instances for TLC |
| `TradeCycleProofs`, `TradingSystemProofs`, `ContractsProofs`, `KnowledgeProofs`, `TwitterProofs`, `TeamProofs` | | inductive invariants and theorems of the module named |
| `PluginProofs` | | the same for `Consensus`, `Buyback` and `Scheduler` |
| `FrameworkProofs` | | the same for `CircuitBreaker` and `Media` |

The definitions that modules extended together would both have carry the module's
name (`BuybackInit`, `SchedulerNext`, `MediaTypeOK`, …): `PluginProofs` extends three
components with disjoint variables, and none of its theorems relates two of them.

A definition named "Wrong form" is what its neighbour would be with a plausible
mistake in it; the properties are known to tell the two apart.

**RiskEngine, TradeCycle.** `risk` is the engine's record; every function of
`riskEngine.ts` is an operator from the record before to the record after, and
`runRiskCheck`, which never awaits, is one step (`CheckRisk`). `pc[c]` names the
await that invocation `c` of the handler is suspended in, and `local[c]` holds
the variables that live across it: `ReadTreasury`, `BuildContext`, `Consult`,
`CheckRisk`, `PersistDenial`; then `Open…` and `Close…` for
`openMYXPosition` and `closeMYXPosition` up to the transaction sent (`…Send`),
its receipt (`…Receipt`), the wait given up (`…WaitFails`) and everything that
throws before it is sent (`…Fails`); then `PayInfraFees`, `IssueInvoice`,
`ExecuteBuyback`, `PersistResult`. Whether fees were paid or a mock receipt was made up
makes no difference to anything later, and is not kept. `chain[c]` is what the transactions of `c`
have come to, which the chain decides on its own (`MineOpen`, `MineClose`), also
after the handler gave up. `Crash` ends the handlers in flight and creates the
record anew; chain and `memory` stay. `recorded` is history: when this process
recorded the check, the opening and the result of `c`. The P&L is read as the
code reads it: the first log of the receipt as one unsigned word, which is the
P&L modulo 2^256 or the amount paid out.

**Trader, TradingSystem.** `Trader` has no counter, no chain and no failures: a
cycle decides, is approved while a slot is free and the timelock is over, holds,
settles and is over, from wherever it is. That approval and opening are two steps
is part of the promise: several cycles may be approved side by side. `StageOf` and
`Engine` in `TradeCycle` are the refinement: the stage of a call, and for `opened`
the history of recorded openings. `TradingSystem` then uses `Trader` in place of
`TradeCycle`, and instantiates `Scheduler` with its own variables: a timer that fires
(`RunCycle`) or a request (`TradeRequest`) starts a cycle or one that is not followed
(`Started`); the cycle goes through `getTreasuryState`, one action per await
(`FindTreasury`, `AskChain`, `ReadBalance`, `KeepTreasury`, `MakeUpTreasury`); only then
may it be approved. A balance is named by the cycle that read it and the time it was
true, so that its age and owner can be told. One clock drives handlers and timers. The
service's own `stop` has no caller and is left out here.

**Consensus.** `answers` are the two calls in flight, with every way
`parseSignalFromLLM` makes a signal of an answer: a missing field, a number out
of range, a word that is no number (NaN), an answer nobody can read. Of the words
that are no side (`Sides`) there are two, so that two different ones can meet.
`Combine` weights them, and `Check` makes the engine's first two checks. Percents and
weights are integers and their products exact, where the code's are binary
fractions; so wherever the code compares two equal values it may have rounded
either way, and both outcomes are kept. NaN is a value of its own here:
`DirectionHasAVote` speaks of it, `DissentIsTheAnalysts` and
`UnreadableNeverDecides`, which are about margins, leave it out (`Numeric`).

**MockERC20, Contracts.** An action is one transaction that does not revert,
with all its calls between contracts; a revert changes nothing. `Can…` are the
requires. `authorizeTrade` sends the collateral to whatever address it is given
and then calls it with whatever bytes (`AuraLensWallet.sol:149`): `Calls` are what
those bytes may ask for (nothing, an opening, a closing, an approval, or tokens to be
moved by `transfer` or `transferFrom`) and the address may be the router, the token, or
any account. An address outside the repository (`External`) may call the token and
close positions before it returns; calls it makes into the wallet are refused, since
only the agent and the owner are heard there, and what else it does is a transaction of
its own. `held` is what the plugin takes for the id of the position it opened.

**PacedSpender** knows time, a treasury and the last spend only: money leaves by
the owner's hand, or by spends that are a bounded share of the treasury and a
minimum time apart. The share is a promise about what `authorizeTrade` itself sends:
a trade that names the token and has it approve a spender or move the wallet's tokens
may take any amount (`Unbind`), and after an approval the spender may at any time
(`Elsewhere`). Both are exceptions of the abstract specification; the pace has none.
`Contracts` maps `lastTradeAt`, the wallet's balance and `Unbound` to it.

**Buyback.** The awaits of `executeBuyback` for several cycles. `mempool` holds
the account's transactions in nonce order; the approval is sent and not waited
for, and the swap is simulated on the chain as it is then. `clean` is history:
the calls that nothing of the same account ran beside. `TradeCycle` has the whole
as one step with both outcomes.

**Scheduler.** `process` is the Node process: in the loop of `startAgents`
(`booting`), answering requests (`serving`), or ended. `phase[a]` is how far the
start of agent `a` has got, `runtime` and `handle` are the fields of the one
service, `timers` all the timers it ever set. `InitializeService` to
`ServiceInitialized` and `InitializePlugin` to `PluginInitialized` are the two
times a start initializes the same service; between the two of each pair the
registration of the skill is awaited, and others may write `runtime`. A start
that fails (`StartFails`) ends the loop at boot, and the process later: the route
awaits `startAgent` outside its `try`. A due timer fires before time goes on.

**Knowledge.** `rows` is the memories table: of each item's document (row 0) and
fragments the owner, or `None`. `starts` are the calls of `startAgent` in progress,
one at a time at boot and side by side on request; each goes through the items
of its character (`LookUp`) and the rows of an item, and for each row reads first
(`ReadRow`) and inserts after the answer (`InsertRow`). The two databases differ in
an insert whose row exists by then: SQLite replaces it, PostgreSQL refuses, and
the start can only fail. `Crash` and `Restart` keep the rows. `interrupted` is
history: the items that some start failed or died on. The fragments of an item
are taken to differ; equal ones share a row and are one fragment here. An agent may be started
twice at once, and a character that was stopped may be started again.

**CircuitBreaker.** `breaker` has the fields of the class and operators for what
`execute` does before (`Admits`, `Admitted`) and after (`Succeeded`, `Failed`) its
operation. `calls[c]` is where a call is: its query in flight, a pause of
`withRetry`, or, for `createMemory`, the same of the search that it runs inside
its own operation. Times stop counting beyond `ResetTimeout` and failures at the
threshold; the code compares them with nothing else. While the database is
healthy every query succeeds, and while it is not, queries may do either.

**Twitter.** A tweet is a number in the order of posting. `at[w]` is where a worker
stands: a poll (`PollStarts`, `SearchServed`), or the loop of post.ts over the timeline
(`LoopStarts`). Both go through their tweets (`Turn`): skipped for the mark or a
row (`Skip`), or taken in hand (`TakeUp`); the loop decides what to do (`Plan`, `PlanQuiet`,
`PlanNothing`); then the tweet is given a row with those it replies to (`StoreThread`),
left alone (`LeaveAlone`) or answered through the queue (`Respond`, `ReplyPosted`,
`ReplyFails`). One turn of a worker may post more than once: a long answer goes out in
pieces (`utils.ts:177`), `processActions` is given a callback that posts again
(`interactions.ts:463`; the bootstrap plugin's CONTINUE, for one, calls it), and the loop
both quotes and replies when both are decided (`post.ts:725`, `:869`). `PostMore` and `due`
are these, `answers` counts the turns that posted and not the posts, and `said` says whether
this one has. A piece that Twitter gave no result for does not end the answer, and is
here a post that did not reach it. An exception ends a poll and costs the loop one attempt
or one tweet (`CallThrows`, `AttemptFails`); a quote without content ends the whole
pass of the loop (`QuoteIsEmpty`, `post.ts:823`). `serving` is `RequestQueue.processing`
with the request that is out, `Pause` the random delay after it (`Enqueue`,
`QueueGoesOn`). The retry of `RequestQueue` never fires, because the request it wraps
catches its own error, and is not an action. `Crash` loses mark and queue; `Start` reads
the saved mark and gives rows to what it finds. `answers`, `rivals`, `fate` are history.

**Media.** `queue` and `on` are the queue and the drain loop of `video.ts` and `image.ts`, `audio`
and `hearing` those of `transcription.ts`. A caller queues a url, starts the loop if
it is idle, polls until no such url is queued, and then works on the url itself,
which the loop does too (`Enqueue`, `Poll`, and for both `Hit` … `Keep`). An idle loop is
on `Free`, which is no url and no worker. The cache is keyed by the id that `video.ts:141`
finds in a url (`KeyOf`), and by the empty string when it finds none, so urls may share an
entry. An exception is the caller's rejection, but the drain loop's ends the process
(`Thrown`, `Dies`).

**Team.** `self` is any agent of the team; people write what people may write and
teammates whatever an agent may write, at any time, so what is shown of `self`
holds for each. `interest` is `interestChannels` of the channel; `at[i]` is the await in
which the handler of message `i` is suspended. `Receive` is everything up to the
first await: the check for an interest, keywords, and, unless an interest makes it
read the agent's last messages first (`Recall`), the team's rules (`Gate`). `Store`,
`Ignore`, `Decide` and `Answer` are the awaits of the `try`. What is compared as text
(similarity, stop words) is a choice of its result.

## Runs, bounds and what they show

Every run that passes exhausts its instance, and for each of its properties a
wrong form of some definition is known to break it.

| run | instance | what it shows |
|---|---|---|
| `cycle_Overlap` | two handlers in flight, one crash, times 1 to 3, a day of three; models that agree, that fall back, and NaN; treasury above and below the floor; gain and loss; word size 16 | the count is the number of holding handlers; only approved, numeric, capped decisions reach the chain; unattended positions have one of four causes; a breach of the timelock needs an overlap; no loss is ever booked; the daily figure is the day's results; invoices and buybacks belong to closed positions; only a denied decision leaves a record that breaks later contexts; every handler ends; `Trader` is implemented |
| `contracts_Treasury` | five accounts, two positions, three authorizations, times 2 to 4, caps 3/10 to 5/10, timelocks 0 to 2 with floor 1, one withdrawal, balances below 8 | the router can always pay every open position out; `PacedSpender` is implemented; k trades take k timelocks; the repository's router serves the wallet only after a trade made the token approve a spender |
| `contracts_V_FullCycle` | the same accounts, no authorization | violated: the id the plugin holds names no position |
| `scheduler_Runs` | two agents, one of them given at boot, two starts that reach the service, interval 3, first delay 1, one call of `stop` | once an agent has come up cycles are started for ever, unless a requested start takes the process down; an agent that is up is served, unless another is started beside it |
| `knowledge_Starts` | two agents that share an item of three rows, one of them with an item of two rows of its own; both given at boot; two starts at a time; any number of failures, crashes and restarts | an item's rows are stored in order; an agent that is up has its knowledge stored, with three exceptions; a boot never fails on a row's id |
| `consensus_Votes` | the plugin's weights and thresholds, 25 confidences for each model around every value where an outcome turns | an allowed dissent is the analyst's; an unreadable answer never decides; a direction nobody voted for comes of a NaN or of a word that is no side |
| `buyback_Swaps` | three buybacks of 1, 2 and 3 tokens, funds 4, collaterals of 2 | a buyback that runs alone and reports success has swapped, and its swap is never reverted; every call ends |
| `breaker_Outages` | two plain calls and one nested, threshold 3, two retries, outages at any time | the fields agree; OPEN lasts the timeout; every call ends; the breaker recovers |
| `twitter_Mentions` | two tweets, the second a reply to the first, two polls and the loop, two of the three at once, two ends of the process | that two turns answer a tweet takes a race of two workers for it; a mention that is dropped has one of five causes; whoever waits is served or queued, once, by a queue that is at work |
| `media_Videos` | four callers: for a video of YouTube, for one without an id of YouTube, for a broken url without one, for a picture; one restart | no job waits beside an idle loop, and who awaits a transcript is heard or queued; every ask ends; a broken url ends the process, unless another video's entry has its key |
| `system_Timers` | one agent, two cycles that are followed, interval, first delay and life of the cache 1, timelock 2, times 1 to 3 | the treasury that caps a trade is made up or was read no longer ago than an entry lives; timelock and limit are broken only by two callers or by a cycle slower than the interval |
| `team_Channel` | a leader or a member, three messages of seven kinds from people and three from teammates, times 2 and 3, decays 0 and 1 | a mention is answered by those it calls; silence to a call needs a race; a teammate's answer is not tracked; an interest without a message has one of three causes |

Why the bounds are enough:

* Two cycles and one crash: every property of `TradeCycle` relates at most two
  cycles, and a third only repeats what the second does to the shared record;
  the theorems below hold for any number. Three points in time with a timelock of two, a
  hold of one and a day of three let the hold elapse, the timelock pass or not,
  and midnight fall before, between and after two results. The clock runs beyond
  `Horizon` only while a hold is waiting, so bounding it stops nothing.
* A word of 16 stands for 2^256: what matters is that -2 becomes large and
  positive and above the point from which `toFixed` writes an exponent.
* Contracts: a trade may name every account and every call; the one P&L that an agent may
  settle is a loss or the whole word. The supply is below `Word`, so overflow, zero and the exact cap are
  all reached; two positions are needed for one to be paid out of the other's
  collateral; three authorizations are two distances, the least for which pace
  is more than one comparison; block time 3 loses and the others do not.
* Consensus: every pair of answers is enumerated, so the only bound is the list
  of confidences, and outcomes change only at those in the list.
* Buyback: two overlap, and a third takes up what they leave behind; the funds
  serve some and not all of them.
* Scheduler: a start at boot and one on request overlap the timers of each
  other, and the second takes the service over; the interval is long enough for
  a first cycle to fire before it. More starts only add timers like these.
  One call of `stop` matters: it clears the last interval set, of the two that every
  start leaves behind (`IntervalTheorem` says `stops <= 1`); a second call, after a
  second start, could clear another, and no caller of `stop` exists.
* Knowledge: two starts are what a race needs, and crashes are not bounded. The
  shared item is long enough for one start to be at its end while the other is
  at its beginning, and the one that is not shared shows what holds of an item
  of one agent.
* Breaker: a threshold above the retries and below the failures of two calls, a
  half-open stage of more than one success, and a nested call, whose one outage
  is counted twice.

* Twitter: two polls and the loop are every pair of workers that can race, and two of
  the three at once (`MaxAtOnce`) are every race of a pair; that a third at work adds
  nothing is left to the theorems, which hold for any number. Two
  tweets are what order, mark and thread are about, and every search may give any
  set of those posted. The second end of the process finds what a start stored.
* Media: caller and loop are two workers on each url, so a loop meets what its caller
  has cached. The broken url has its key in common with a good one, whose entry may come
  before or after it is looked up or never, and another good one has a key of its own; a
  picture adds the second queue and the loading of the model. Two callers of one url
  are left to the theorems.
* TradingSystem: an interval below the timelock and within the cache's life lets
  a second cycle start before the first has opened, and entries be overwritten by
  slower reads. A second agent would add callers, which `LimitsNeedOneCaller` allows
  for, and cycles that share the cache, which `CapIsRecentMoney` already takes to be
  of other wallets; its theorem holds for any number.
* Team: three messages are one that gives an interest, one that takes it, and one
  handled beside them; the clock passes both decays. The limit of ten tracked
  messages is never reached and left out.

The constants `Overlap`, `Horizon`, `MaxCrashes`, `MaxPositions`, `MaxTrades`,
`MaxWithdrawn`, `MaxStarts`, `MaxStops`, `MaxAtOnce`, `Slots`, `Polls`, `Callers`, `N` are bounds and nothing of the code; so are the sets
of inputs (`Amounts`, `Sizes`, `Raw`, …). The theorems hold for all their values.
Symmetry, over cycles or polls, is used in `system_Timers` and `twitter_Mentions` only, which check invariants.
Type invariants are stated in each module; eight are theorems, and the inductive invariants of
`TradingSystem`, `Twitter` and `Consensus` hold what their proofs need of them. No run repeats them.
`CHECK_DEADLOCK FALSE` is set where the system may really stop: all cycles have
ended, all agents are gone, the block limit is reached, both answers are in, the channel
is full. The breaker, the starts of `Knowledge` and the Twitter client, which always go
on, are checked for deadlock.

## Fairness

* `TradeCycle` (`EveryCycleEnds`): weak fairness of each handler and of the
  clock. Every await of the handler ends by itself: fetches and the wait for a
  receipt time out, and the hold is a timer. The chain owes nothing: a
  transaction need never be mined.
* `Scheduler` (`KeepsTrading`, `AloneIsServed`): time passes, due timers fire, and a start that
  has reached the service ends well or badly, since the skill's registration is
  one request whose failure is caught. No fairness for starting, stopping, the
  end of the boot or the dashboard.
* `Media` (`EveryAskEnds`, `BrokenUrlEndsProcess`): the callers' timers fire, and every
  download, program and call of a provider answers or fails. No fairness for new
  asks or a restart.
* `Twitter`, `Team`, `TradingSystem` are checked for safety only: that a poll or a handler
  goes on depends on services that may answer as late as they like.
* `Knowledge` has no liveness property: a database that does not answer may hold
  a start up for ever.
* `Buyback` (`EveryBuybackEnds`): each await settles; the chain mines.
* `CircuitBreaker` (`EveryCallEnds`, `Recovers`): the driver settles, that is it answers or
  fails each query (the pool has timeouts for connections, none for a query), the pauses end, time passes. That callers keep calling is no
  fairness but a premise of `Recovers`, since without calls an OPEN breaker
  stays OPEN.

## Proofs

The theorems hold for every number of cycles, calls and accounts and every value
of the settings, from the assumptions named `…Assumption` in the modules, which
only give the constants their types and ranges, and that the sets of cycles,
accounts and agents are finite. Three theorems of `Consensus` have a hypothesis about the
settings of their own, named below.

| theorem | states | rests on |
|---|---|---|
| `TypeCorrect` | `TradeCycle!TypeOK` | |
| `CountCorrect` | `CountMatchesHandlers` | itself, inductive given the types |
| `LossNeverBooked` | `NoLossIsBooked` | `NoLossInv` |
| `OnlyApproved` | `OnlyApprovedOnChain` | `StageInv` |
| `UnattendedExplained` | `UnattendedHasCause` | `StageInv` |
| `TimelockTheorem` | `TimelockBreachNeedsOverlap` | `TimelockInv` |
| `SettlementTheorem` | `InvoicedIsClosed` | `SettleInv` |
| `HistoryTheorem` | `UnquotableWasDenied` | `HistoryInv` |
| `DailyFigureTheorem` | `DailyFigureIsToday` | `DayInv` |
| `TraderRefined` | `ImplementsTrader` (refinement) | the four above it needs: types, count, `TimelockInv`, `SettleInv` |
| `CapTheorem` | `CapIsRecentMoney` | `CacheInv` |
| `LimitTheorem` | `LimitsNeedOneCaller` | `LimitInv` |
| `WalletIsPaced` | `PacedSpenderSpec` (refinement) | `WalletInv` |
| `ContractsTypeCorrect` | `Contracts!TypeOK` | `WalletInv` |
| `SpendingIsPaced` | `PacedSpending` | `PaceInv` |
| `OpeningTheorem` | `OpeningNeedsApproval` | `PaceInv` |
| `RouterCanPay` | `RouterCoversPositions` | `CoverInv` |
| `SupplyTheorem` | `BalancesFit` | `WalletInv`, `SupplyInv` |
| `AloneTheorem` | `AloneDoneIsSwapped` | `BuybackInv` |
| `AwaitedTheorem` | `AwaitedIsSent`, the safety part of `EveryBuybackEnds` | `AwaitedInv` |
| `BuybackTypeCorrect` | `BuybackTypeOK` | itself |
| `IntervalTheorem` | `IntervalGoesOn`, the safety part of `KeepsTrading` | `SchedulerInv` |
| `RuntimeTheorem` | `TimersServeTheLonely`, the safety part of `AloneIsServed` | `SchedulerInv` |
| `OnlyStopTheorem` | `OnlyStopClears` (action property) | `SchedulerTypeOK` |
| `SchedulerTypeCorrect` | `SchedulerTypeOK` | `SchedulerInv` |
| `DissentTheorem` | `DissentIsTheAnalysts` | `ConsensusInv` |
| `VoteTheorem` | `DirectionHasAVote` | `ConsensusInv` |
| `UnreadableTheorem` | `UnreadableNeverDecides` | `ReaderInv` |
| `TypeTheorem` | `Knowledge!TypeOK` | itself |
| `OrderTheorem` | `RowsFollowInOrder` | `StoreInv` |
| `WholeTheorem` | `KnowledgeIsWhole` | `StoreInv` |
| `BootTheorem` | `BootNeverConflicts` | `BootInv` |
| `BreakerTypeCorrect` | `CircuitBreaker!TypeOK` | `IInv` |
| `FieldsTheorem` | `FieldsAgree` | `IInv` |
| `BlocksTheorem` | `BlocksForTimeout` | `IInv` |
| `NothingLeftTheorem` | `NothingLeftBehind` | `MediaInv` |
| `BrokenTheorem` | `BrokenIsMet`, the safety part of `BrokenUrlEndsProcess` | `MediaInv`, `BrokenInv` |
| `MediaTypeCorrect` | `MediaTypeOK` | `MediaInv` |
| `TwiceTheorem` | `AnsweredTwiceNeedsRace` | `RaceInv` |
| `WaitersTheorem` | `WaitersAreQueued` | `WaitersInv` |
| `DroppedTheorem` | `DroppedHasCause` | `DropInv` |
| `TeamTypeCorrect` | `Team!TypeOK` | itself, with `Placed` |
| `MentionsTheorem` | `OthersLeaveMentions` | `GateInv` |
| `TrackedTheorem` | `OnlyCallsAreTracked` | `GateInv` |
| `SilenceTheorem` | `SilenceNeedsRace` | `GateInv`, `SilenceInv` |
| `EmptyTheorem` | `EmptyInterestHasCause` | `CauseInv` |

Why the stronger invariants are needed:

* `NoLossInv`: the figure stays non-negative because what a handler has read is;
  and a read is non-negative because a mined closing earned one of the
  possible P&Ls, which never eat more than the collateral.
* `StageInv` ties the stage of a handler to the chain: nothing is sent before
  the approval, an approved frame does not change until it is sent, and a cycle
  settles only after a receipt.
* `TimelockInv`: an approval in flight stands a full timelock after every opening
  recorded before its check; recorded openings are never later than
  `lastTradeAt`, and a crash clears both.
* `SettleInv`: a positive result in a settling frame was read off a mined
  closing. The stage matters: an invoice exists only from the buyback on, so no
  later step of the same cycle can touch its chain entry.
* `HistoryInv`: a number that cannot be quoted is only ever in a frame that never
  got past its opening, and such a frame stores a record only when it is denied.
* `DayInv`: the start of the day is a midnight not later than now, only settling
  handlers have a recorded result, and none is later than the midnight that follows.
  So a reset, which may come long after midnight, drops just what was read before
  it, and a booking adds one result to both sums. A crash empties both.
* `TraderRefined`: a step of a handler is a step of one cycle of `Trader`, or of none.
  The approval needs that the engine's count is the number of holders and that
  `lastTradeAt` is no older than any recorded opening, the invoice that a settling
  cycle has none yet.
* `CacheInv`: an entry of the cache, and every treasury in use, is what some cycle
  read while it asked and put there no longer ago than an entry lives. A slow read
  may overwrite a newer entry, but only with what was read during its own call.
* `LimitInv` keeps a schedule: with one caller, the one timer is due a whole interval
  after the last cycle was started, a cycle that is quick has opened before the next
  one starts, so the check of the later one saw the opening of the earlier one:
  either it waited for the timelock or it found a slot free.
* `RaceInv`: a tweet that never was in two hands is in one at most, and once it is
  answered it has its row and is in no hand but that of the turn that answered it, so
  further posts are of the same turn. `WaitersInv` adds the types to what it proves:
  the queue holds no worker twice, so that serving the head leaves the others as
  they were, and is empty whenever nothing is being processed.
* `DropInv`: a poll goes through what it found from the oldest on, so what the
  mark passes was taken up, skipped for a cause, or is older than something taken up;
  and a row is given only to a tweet in hand, or to one of its thread. That threads
  go back in time, at any depth, is a lemma of its own (`ThreadIsOlder`).
* `WalletInv`: until a trade's call asks for it the wallet approves no spender, and the
  owner's limits stay within the constructor's. The first is what makes the treasury
  shrink by `authorizeTrade` and `emergencyWithdraw` alone, as long as it is not unbound. `PaceInv` adds that the newest
  authorization is no younger than the wallet's stamp. `CoverInv` needs the first for
  the router: only its own transfers take tokens from it, and a closing takes no more
  than the collateral that it releases, or mints the rest.
* `SupplyInv`: the balances of all accounts add up to the supply, which mint keeps
  within the word. The sum is needed because `Transfer` credits without a check:
  that no balance exceeds the supply is not inductive by itself. It is taken over
  the accounts in some order, with the lemmas about the collateral of positions.
* `BuybackInv` follows an undisturbed call through its awaits: as long as nothing
  else of the account is under way, the mempool holds its approval and then its swap
  in the order of the nonces, or the swap alone with the allowance already there, so
  the swap finds what it was simulated with (`Undisturbed`). `Quiet` says that nobody
  is at work beside such a call, and `Uncalled` that a call to come has left nothing
  in the mempool. A failed call may leave both transactions there, so a call counts
  as at work (`Busy`) until they are mined, even after it has returned.
* `AwaitedInv`: a call that waits for its receipt has sent its swap, and one that has
  not come so far has not. Without the second part a swap could be sent twice, and
  the first receipt be overwritten.
* `SchedulerInv`: a start has left one interval after its first `initialize` and two
  after its second (`IntervalsSet`), and a call of `stop` clears one at most
  (`ClearedOne`), so that one goes on. `KeepsRuntime` says that whoever reached the
  service wrote `runtime`, and that no timer is set before. `StartsCounted` is for the
  bound on starts only.
* `ConsensusInv`: the decision is the one computed from the answers as they are,
  and an allowed verdict means both checks may pass. `DissentTheorem` assumes
  that the sentiment model's weight is below the minimal agreement (40 < 50 in
  the plugin): otherwise that model alone could win. `VoteTheorem` assumes
  a minimal confidence above zero, since two votes of zero tie. `ReaderInv` adds that
  an unreadable answer is the neutral signal; `UnreadableTheorem` assumes
  `NeutralIsWeak`, four comparisons of that signal's confidence with the weights and
  the thresholds, which TLC evaluates for the plugin's settings.
* `StoreInv`: a start at row n of an item has found or stored the rows before it
  and the documents of the items before it; a document without all its fragments
  has a start at it or an interrupted one. Rows are never removed, so a race
  costs an owner and not a row. `BootInv`: at boot at
  most one start runs, so nobody stores the row between its look and its insert.
* `IInv` adds to the fields' agreement that the last failure of an OPEN breaker is
  no older than its opening, and that no pause is taken after the last attempt.
* `MediaInv`: a loop has a url exactly while it is not idle, and the audio of no worker
  is queued twice or queued while heard (`AudioOnce`): a worker whose transcript has
  come would otherwise leave a second audio behind, and nobody awaiting it.
  `BrokenInv`: whoever waits for a broken url has it in the queue or the loop on it,
  unless there is an entry under its key; every entry is of a video that can be fetched,
  and no worker on a broken url is past the fetch. So the loop cannot leave it but by
  the exception that ends the process, or with another video's entry.
* `GateInv`: whatever `Gate` let through either calls the agent or mentions nobody and is
  no teammate's, a message that is looked up does not call it, and what is tracked
  was let through. `SilenceInv`: of two handlers at work each is in `races`, and an
  interest missing between the gate and the decision of a call was taken by another handler.
  `CauseInv` drops one of the causes, that any message is being looked up: of those
  only the ones with the member's keywords leave an interest that is empty.

Three of the invariants are about sums. The induction theorems of the library take
an operator as a parameter, which the provers cannot instantiate; the lemmas here
argue by the least counterexample instead (`WFMin` and the order of the numbers):
`SumsAgree`, that a sum over a finite set does not depend on the order in which it is
taken, with what it gains by one more element (`SumAdds`), and in
`ContractsProofs` what the collateral of all positions gains by an opening and
loses by a closing (`OpeningLocks`, `ClosingUnlocks`), used again for the balances.

TLC found all of these invariants true of the instances above before they were
proved.

Checked by TLC and not proved: liveness (`EveryCycleEnds`, `KeepsTrading`,
`AloneIsServed`, `EveryBuybackEnds`, `EveryCallEnds`, `Recovers`, `EveryAskEnds`,
`BrokenUrlEndsProcess`), since fairness and ENABLED are beyond the prover. For four of
them the state they rest on is a theorem: there is an interval that goes on, it serves
the right agent, the receipt that is waited for can come, and the loop stands before
the broken url; what TLC adds is that the steps left are taken. Every other
property of a passing run is a theorem. The one run that expects a violation has a
counterexample in place of a proof.

## Where the code departs from its documents

With a run (the line and the quotation are in `PROJECT.json`):

1. Overlapping cycles open within the "30-second timelock" :
   `TimelockBreachNeedsOverlap` names the overlap, which cannot be dropped, and
   `TimelockTheorem` shows that it is the only way.
2. The daily-loss stop never stops anything: no loss is ever booked
   (`NoLossIsBooked`, proved). For the same reason a loss gets a Profit-Sharing
   Invoice and a buyback.
3. A decision with a NaN confidence that is denied (for the timelock, say) is stored,
   and then breaks `buildLearningContext` for the following cycles (`UnquotableWasDenied`);
   one that is approved is stopped by `parseUnits` and stores nothing.
4. The wallet contract cannot open a position on the repository's router, unless an
   earlier trade had the token approve a spender, which none of its functions is for
   (`OpeningNeedsApproval`, proved); and the plugin does not use it. The cap of the
   wallet bounds what `authorizeTrade` sends, not what its call does next
   (`AuraLensWallet.sol:149`): the exceptions of `PacedSpender`.
5. On the repository's router the plugin can never close what it opens: the id
   it keeps is the payer's address (`contracts_V_FullCycle`).
6. With several agents, only the one initialized last is traded for: the exception
   of `AloneIsServed`.
7. A requested start that fails ends the process with all its agents
   (`client-direct/src/api.ts:90`): `KeepsTrading` holds only with that exception.
8. An item of knowledge shared by two agents is stored once, and one of the two,
   or each, comes up without some of it; and an item whose start was interrupted
   after its document is never completed (`core/src/runtime.ts:455`). These are the exceptions
   of `KnowledgeIsWhole`.
9. Stopping an agent does not stop its timers, and neither does one call of the
   service's `stop` (`KeepsTrading` holds through both).
10. The treasury that caps a trade is a made-up one when the chain cannot be read,
    and may be another agent's wallet (`CapIsRecentMoney`).
11. A mention with a row counts as answered (`packages/client-twitter/src/interactions.ts:242`),
    but the row comes before the answer: mentions are dropped for five causes (`DroppedHasCause`).
12. A video that cannot be fetched ends the process, although its caller handles the
    error (`BrokenUrlEndsProcess`); except when another video without an id of YouTube is in
    the cache, whose description is then given for it (`video.ts:145`): the exception in it.
13. A second message between the two decays ends the process when the interest has
    tracked none (`packages/client-discord/src/messages.ts:809`, `EmptyInterestHasCause`).
14. Two answers with NaN confidence that agree on long yield short (`dgrid.ts:204`): the
    last branch is taken when a comparison fails. Two words that are no side yield long.
    Both are exceptions of `DirectionHasAVote`.
15. The leader never notices that a member has answered, nor an agent that it has
    been talking a lot (`messages.ts:1127`, `:1175`, `OnlyCallsAreTracked`).

Read off the source while modelling, without a run of their own:

* A failed close gives the slot back while the position stays open
  (`tradeCycle.ts:258`), and a restart forgets the record (`riskEngine.ts:22`), so
  more positions can be open than the limit; `UnattendedHasCause` lists how.
* A reverted close counts as closed, with a P&L of zero (`myx.ts:263`), and a
  reverted swap as a buyback (`buyback.ts:146`); `AloneDoneIsSwapped` gives the
  condition under which the latter does not happen.
* Fees are paid after a successful close only (`tradeCycle.ts:277`), while
  `pieverse.ts:53` says after every cycle.
* The collateral is formatted with six decimals for a token of eighteen
  (`myx.ts:200`, `treasury.ts:98`): what amounts come to between dollars, six and eighteen
  decimals is a hazard that no property covers.
* Infra fees that could not be paid have a receipt all the same (`pieverse.ts:84`), and the
  invoice follows.
* A neutral vote for long with a confidence of 0.3 can lift a sentiment vote for long of about
  0.93 over the minimum (`dgrid.ts:84`): `UnreadableNeverDecides` is about the direction only.
* The words that tell an agent to stop talking (`client-discord/src/messages.ts:977`) count
  only where it has no interest: an interest decides before they are looked at.
* A request of the Twitter client that fails is not retried (`client-twitter/src/base.ts:66`):
  the exception is caught inside the queued request.
* A transcription that fails is cached as the text of its video
  (`plugin-node/src/services/video.ts:357`).
* The breaker does not keep the retries of calls it let through earlier from
  querying while it is OPEN, and an inner refusal counts as a failure and
  prolongs OPEN (`packages/adapter-postgres/src/index.ts:95`, `:483`).

## What is not modelled

* Prompts, logs, HTTP bodies, price feeds and signal text: data that no property
  tells apart. `adjustLiquidityDepth` and `getCurrentPrice` change nothing another
  part reads and belong to the steps that await them.
* The pool and price of PancakeSwap; gas; reorganizations of the chain.
* In `Contracts`, reverted transactions, the events but for the one that is read
  as an id, `issueInvoice` and `logDecisionProof`, which store nothing.
* The statements of the database; the insert of `createMemory` that is retried after an
  error although it may have been committed (`adapter-postgres/src/index.ts:495`), a hazard
  that no property covers: with an id the retry fails on the key, without one the row
  is stored twice; pool reconnection.
* The timelock over a restart: `Crash` clears `recorded` with the engine's record, so
  `TimelockBreachNeedsOverlap` and `ImplementsTrader` speak of one process. That a restart forgets
  the timelock is read off `riskEngine.ts:22`.
* The texts, chunks, vectors and searches of knowledge and memory, and removals
  of rows, which no start makes. The check of the connection that the constructor of the Postgres
  adapter starts and does not await, and that can end the process too.
* Of the Twitter client: its own posts, the search client, likes, pictures. Of the media services: the cloud's pictures (no queue)
  and llama, speech, browser and documents. Of the Discord client: muted and followed
  rooms, the modes that answer mentions only or no bots, messages without a text,
  voice, attachments. Telegram's manager is a near copy of Discord's without the
  failing read, and bots do not hear each other there.
* What an exception of a property allows is not shown to be harmless: the overlap in
  `TimelockBreachNeedsOverlap` and `AloneDoneIsSwapped`, the made-up money in `CapIsRecentMoney`,
  the races in `AnsweredTwiceNeedsRace` and `SilenceNeedsRace`, the causes in `EmptyInterestHasCause`,
  which are looked for among all messages and not tied to the one that gave the interest.
* The other clients and adapters, generation, and some forty plugins for other chains,
  which the trading agent does not load: most of the repository's lines.
  `PROJECT.json` gives the reason for each.

## Plan

Done: `RiskEngine`, `TradeCycle` and `Trader`, the contracts and `PacedSpender`,
`Scheduler`, `TradingSystem`, `Consensus`, `Buyback`, `CircuitBreaker`, `Knowledge`, `Twitter`,
`Media`, `Team`, with the theorems above: every safety and action property of the
passing runs, and the refinements between the modules.

Next, in this order:

1. Memory rows under the breaker, for the insert that is retried.
2. The Twitter client's own posts beside its answers, for the rate they share; Farcaster's and
   Lens' polls, which have the form of Twitter's.
3. The decimals of amounts between `myx.ts` and the token, as scaled integers.
