# A TLA+ model of MAGI

MAGI is a Python system for crypto research and paper trading: MAGI1 observes markets, MAGI2 runs strategies on virtual money and
talks to the operator over Telegram, MAGI3 executes (in shadow mode: virtual fills against public order books). No real order is
placed by any code the runners start. This directory holds TLA+ modules of its stateful parts, TLC configurations that check them, and
proofs for TLAPS. `PROJECT.json` maps every definition to the lines it stands for and lists the hazards the properties are about.

## 1. The system

| Component | Code | State | What makes it hard | Module |
|---|---|---|---|---|
| Shadow worker | `magi3/shadow_runtime.py`, `runner.py`, `runtime_store.py` | SQLite: signals, fills, positions, cash | network waits inside a decision, repeated feeds, partial fills, death between two transactions, restart under another mode | `ShadowEngine` |
| Shadow bridge, scan publication | `magi2/shadow_bridge.py`, `scanner/github_publish.py` | SQLite outbox, published state files | the same snapshot is offered every minute for 12 h; files may be fetched in part | `IntentOutbox`, `ShadowSystem` |
| Dispatcher | `magi2/server_runner.py`, `vpd_schedule.py`, `point_in_time_scan.py` | request file, schedule database, snapshot file; jobs in memory | workers end at any moment; restarts lose jobs but not claims | `PaperDispatch` |
| Telegram console | `magi2/server_runner.py`, `telegram_ui.py` | offset, buttons, two view jobs | updates repeat, buttons age, the process dies between two updates | `TelegramConsole` |
| VPD portfolio | `magi2/paper_engine.py`, `refill_engine.py`, `full_rebalance.py`, `hold_policy.py`, `entry_policy.py` | `paper_state.json`, `paper_events.jsonl`, `paper_rebuild_pending.json` | four operations with different rules over the same slots; files written one by one; the child is killed after 300 s | `PaperPortfolio`, `RebuildJournal` |
| Hourly indicator account | `magi2/hourly_indicator.py`, `indicator_*.py` | one SQLite ledger, two worker threads | orders read outside the lock by two threads and executed later | `HourlyLedger`, `HourlyWorkers` |
| FAST budget | `magi3/fast_execution.py` | reservations and orders | answers that get lost, stale snapshots of the capital | `FastBudget` |
| FAST observer | `magi1/fast_observe.py` | windows, captures, outcomes; a persistent stop | breaks in the data; two databases for one stop | `FastObserve` |
| FAST flow accounts | `magi1/fast_paper.py`, `fast_dayhold.py` | SQLite accounts | late and reordered data, gaps after restarts | `FlowAccount`, `FlowPaper` |
| Candle accounts and references | `magi1/bollinger_paper.py`, `magi2/fast_models/bear.py`, `magi1/fast_repair.py`, `fast_bootstrap.py`, `fast_candle_store.py` | bars, holes, packed days | REST history with holes beside live bars | `CandleWatch`, `CandleRepair` |
| Universe, books, context | `magi1/fast_universe_watch.py`, `collectors/public_ws.py`, `fast_venue.py`, `market_context.py` | streams, adapters, a context file | coins that join, messages lost or repeated, a day that ends during an observation | `UniverseWatch`, `BookFeed`, `MarketContext` |
| Archive and storage | `magi1/archive.py`, `compact.py`, `storage.py` | SQLite, gzip files, remote copies | crashes between remote and local steps | `Archive` |
| Research records | `magi1/research.py`, `quality.py`, `vpd_join.py` | baselines and outcomes by checkpoint | killed with an open transaction | `Research` |
| FAST ledgers of MAGI2 | `magi2/fast_rank_paper.py` and its bases, `fast_tick_*.py`, `fast_paper*.py`, `fast_models/derivatives.py` | SQLite accounts | threads over one account; promised cash; public tape in pages; funding known late | `RankLedger`, `TickCycle`, `DeadlineLedger`, `PairAccount` |
| Alerts, audit, early warning | `magi2/fast_capture_alerts.py`, `capture_audit.py`, `scanner/early_warning_watch.py` | delivery claims, evidence, saved levels | at-most-once delivery over lost answers | `CaptureAlerts`, `CaptureAudit`, `EarlyWarning` |
| Figures | `magi2/paper_performance.py`, `magi3/accounts.py`, `market_data.py` | daily marks, caches of quotes | read while others write; ages of what is combined | `PerformanceView`, `AccountsReport` |

Interaction: GitHub Actions runs a scanner and publishes state files; the bridge (a thread of MAGI2) turns the newest into intents;
MAGI3 pulls them over HTTP. Separately the console starts point-in-time scans on one worker and PAPER child processes on another; the
child processes own the portfolio files. MAGI1 observes the public feeds; MAGI2 reads its databases for alerts, audit and context.
Telegram is the only input of the operator.

Correctness, in a sentence each: the worker executes an intent at most once, in time, within its limits, and always gets out again;
the bridge never changes or repeats an intent; a replacement of the portfolio is atomic; a request starts one job, the one asked for,
and its record tells what became of it; money is conserved and the ledger reconciles with the portfolio whatever died when; what is
promised to an entry can be paid; what is counted was observed and is counted once; a message is sent at most once.

## 2. Modules

Core, each with a run of its own:

* `IntentLife` - what MAGI3 promises about an intent: recorded once, executed at most once before it expires, or refused.
* `ShadowEngine` - the worker. `at` is the place of the runner's `cycle()`, `work` the ingest in progress, one action per transaction or
  network wait: `IngestRecord` is the first transaction, `CheckStored` the re-validation of the stored payload, `BuyWithoutBook`,
  `BuyTooLate` and `Buy` the three ways lines 64-95 end. `ExitSell` is the sale of line 118 with its proportional cost. `Crash` loses
  memory, `CycleError` is the `except` of line 77, `Start` reads the environment again. `MCShadowEngine` gives small values.
* `AtomicRebuild` - a full replacement as one step. `RebuildJournal` - the three files as `load_state`, `save_state`, `log_event`,
  `commit_rebuild` and `recover_rebuild` write them. A file replaced through a temporary changes in one step, `save_state` in two
  (`SaveTruncates`, `SaveFills`). `pc` is the next file operation of the process that runs.
* `Archive` - the archiver of MAGI1 beside its collector. `job` holds the locals of one `cycle()`, `job.pc` where it is: sending the
  snapshot, `compact_backups`, the checkpoint (`Adopt`), `prune_research`, one `Digest` and one `Put` per upload, the verified removal
  (`Clear`) and the expiry on Drive. The content of a raw hour is the set of its lines, in time (1) and late (2). `MCStores` runs
  `RebuildJournal` or `Archive`, chosen at the start; both are extended, and the archive's specification is `ASpec`.
* `PaperDispatch` - the loop of `server_runner.main()`. `pc` walks through `finish_engine_job`, `finish_scan_job`,
  `consume_scheduled_rebalance`, the monitor and `poll_updates`; jobs end between any two steps (`EngineEnds`, `ScanEnds`).
  `StartCollects` and `StartSubmits` are the two looks of `start_engine` at the engine job. `MCPaperDispatch` instantiates it.
* `PaperPortfolio` - what the child processes do to the portfolio. A lot is named by a serial number where the code uses market and
  `entry_at`; a price is the net return it gives; a signal is `strong`, `rising` or `weak`, which is all `assess_hold` tells apart.
  Every sale appends its line, then saves (`SellInMemory`, `SaveAfterSale`); a purchase appends its line and is saved at the end.
  A replacement is one step, as `RebuildJournal` shows it may be. `MCPaperPortfolio` instantiates it, and the next one.
* `PairAccount` - spot against a short perpetual, or shorts alone. `Round` is one turn of `run()`: what `poll()` found of books and funding,
  then the whole `tick()` (`Ticked`): per position `Funded`, the intent to close and `Unwound`, per signal `Entered`, at last `Scanned`. Every
  possible outcome of a tick is a member of a set of states, of which one is committed. `published` is what the exchange told of
  settlements, `behind` (history) whether a further settlement fell due before an awaited one was known.
* `HourlyLedger` - the hourly ledger as operators from a ledger to a ledger: `Observed`, `HardStopped`, `Executed`, `Cleared`, `Resumed`,
  `Requested`, `Advanced` are `observe`, `check_hard_stops`, `execute`, `clear`, `resume`, `request` and `advance`, each the whole method
  under the lock with everything it calls. `HourlyWorkers` - the threads around it: what `worker` and `risk_cycle` copied before they
  wait for the exchange (`worker.orders`, `risk.expected`, `hand`), and the console.

In `MCFast` (`run fast`), one module at a time, chosen at the start (`which`); all its modules are extended:

* `FlowAccount` (each call of the account as an operator) and `FlowPaper` (everything the observer may call, in any order).
* `FastObserve` - closed windows, captures and outcomes, the stop and the named restart. `CandleWatch` - the candles of the two accounts
  that trade on closed bars. `CandleRepair` - the five-minute history of one market. `UniverseWatch` - coins that join the feed.

In `MCLedgers` (`run ledgers`), likewise; `TickCycle` is an instance over a pool of variables, the others are extended:

* `FastBudget` - the reservation book and the client that sends one order per signal. `RankLedger` - the TOP5 rotation account, a ledger
  inherited through five classes. `TickCycle` - one session of the limit-cycle account and its two threads. `DeadlineLedger` - the
  accounts that reserve on offer and sell after a fixed time.
* `PerformanceView` - the results as a view reads them from files that are being written. `AccountsReport` - MAGI3's report of the real
  accounts with its caches: `at` is the time the code stamps on a price, `oldest` (history) that of the oldest answer behind it, by the
  requests each path makes one after the other (Kraken up to three for a quote, two for the balances). `Research` - baselines and outcomes of a snapshot.

In `MCServices` (`run services`), likewise; all its modules are extended:

* `CaptureAlerts` - poll, claim, send, mark. `CaptureAudit` - evidence by cursor, the daily report. `EarlyWarning` - a process that runs to
  its end each time. `BookFeed` - a book rebuilt from messages, any of which may be lost or repeated: numbered changes, changes with a
  checksum, and whole views with and without a look at their number. `MarketContext` - two venues, confirmed. `TelegramConsole` - long polling.
* `IntentOutbox` - the bridge's database and the published files. `ShadowSystem` extends `ShadowEngine` and composes it with an instance
  of `IntentOutbox` (one clock; the feed is exactly what `Report` answers at that moment; `OneVocabulary` says that the worker's
  identifiers and intents are those of the outbox).

Proofs: `SumFacts` (sums over finite sets, the least and the greatest of a set of numbers), and `ShadowEngineProofs` (also on
`ShadowSystem`), `StoresProofs` (`RebuildJournal`, `Archive`, `CandleRepair` and `CandleWatch`), `PaperDispatchProofs` (also on `PairAccount`),
`HourlyWorkersProofs`, `PaperPortfolioProofs` (also on `FlowPaper`), each on the module it is named for, `LedgersProofs` (`FastBudget`,
`Research`, `RankLedger`, `DeadlineLedger`, `AccountsReport` and `PerformanceView`) and `ServicesProofs` (`CaptureAlerts`, `TelegramConsole`,
`FastObserve`, `UniverseWatch`, `CaptureAudit`, `EarlyWarning`, `BookFeed` and `MarketContext`).

Next to some definitions stands a variant commented "seeded fault". It is the definition with a plausible bug (a dropped guard, a
replaced `INSERT OR IGNORE`, a missing reset) and is not used by the specification: `PROJECT.json` ("mutants") pairs each property with
one or more, and TLC finds that property violated when the variant takes the definition's place.

## 3. Runs

| Run | Bounds | Properties |
|---|---|---|
| `shadow_engine` | 2 ids with 2 payloads each (one refreshing its expiry and raising its size, one living too long), books that fill half or all, at a gain or a loss, 3 configurations, 6 instants, a day boundary inside them, 1 fault | `IntentsAreHonoured`, `MoneyIsSafe`, `HaltedProcessOnlyReduces`, `IntentRefinement`, `NothingIsLeftOpen` |
| `stores` | 3 snapshots, 2 events each, 4 portfolios, 3 deaths; 2 busy hours, days of 2 hours, one upload per cycle, 1 hour kept, both opt-in switches on, 6 hours, one late line, failed cycle or restart | `JournalIsSound`, `RebuildIsAtomic`, `ArchiveKeeps`, `StoresAreCleared` |
| `paper_dispatch` | one one-shot request, one date, one button, one report, one restart, 3 instants | `RequestsAreKept`, `WorkOnlyAdvances`, `ScanIsSettled` |
| `paper_dispatch_outcome` | the same with another button | `OutcomeIsOwn` is violated (finding 1) |
| `paper_portfolio` | 2 coins, 2 slots, 3 purchases, 1 death; a pair and two shorts over 5 rounds, a pair alone over 7; see below | `PortfolioIsSound`, `DecayIsConfirmed`, `PairsAreSound` |
| `paper_portfolio_today` | the portfolio alone, no death | `TodayIsToday` is violated (finding 2) |
| `hourly_workers` | 2 markets, 2 slots, hours of 4 bars, days of 3 hours, a clock from bar 3 to bar 11, three generations, 1 request, 1 fault | `EntriesAreAccounted`, `DecisionsAreFollowed` |
| `fast` | as commented at each instance of `MCFast` | see the table below |
| `fast_observe_stop` | as `fast` | `ObserverStopWins` is violated (finding 3) |
| `ledgers` | as commented at each instance of `MCLedgers`; 2 snapshots, 2 starts, 2 horizons, 4 instants of research; reports of two holdings at 4 instants, up to the first complete one; 2 callers, 2 signals, a limit of two orders, snapshots up to 1 old, 1 death | see below |
| `services` | as commented at each instance of `MCServices`; 4 kinds of order book, 2 venues of the context, 2 captures, 6 instants, 2 deaths | see below |
| `early_warning_cleared` | 2 coins, 3 runs | `OnlyLeaversAreCleared` is violated (finding 4) |

What a combined property says, and where its parts are defined:

| Property | Parts |
|---|---|
| `IntentsAreHonoured` | `OnePositionPerIntent`, `NeverBoughtLate` |
| `MoneyIsSafe` | `ExposureCapped`, `LedgerBalances`, `DailyLossStopsBuying` |
| `ArchiveKeeps` | `NothingLost`, `AnalysisKept`, `ProofsResolve`, `ExpiredWasAnalysed` |
| `StoresAreCleared` | `JournalIsCompleted` of `RebuildJournal`, `FilesLeave` of `Archive` |
| `RequestsAreKept` | `StartedAtMostOnce`, `TradesOnlyWhatWasAsked`, `OneRequestAtATime` |
| `WorkOnlyAdvances` | `NoJobIsOverrun`, `StatusOrder` |
| `PortfolioIsSound` | `PTypeOK`, `SlotsBounded`, `MoneyConserved`, `ResultsReconcile`, `NoSameDayReentry` |
| `EntriesAreAccounted`, `DecisionsAreFollowed` | `EntriesCovered`, `EntriesFollowResume`, `TargetsAccounted`; `FillsFollowDecisions`, `ResumesFlat` |
| `FlowAccountIsSound`, `FlowEntriesAreAllowed` | `AccountAgrees`, `FillsAreCausal`; `EntriesAreAllowed`, `ProtectionOnlyTightens`, of every step (`FlowPaper`) |
| `ObserverIsSound`, `ObserverStopWins` | `ObservationsAreHonest` (`SignalsAreConfirmed`, `CapturesAreBounded`, `OutcomesAreSettled`) and `ObserverStopHolds`; as it stands (`FastObserve`) |
| `SignalsAreWhole`, `HistoryIsReal` | `SignalsRestOnWholeBars`, `HolesAreAsked` (`CandleWatch`); `ZeroIsProved`, `ReferencesAreKept` (`CandleRepair`) |
| `EachCoinOnce` | as it stands (`UniverseWatch`) |
| `RankIsFundedAndStops`, `EntriesAreRanked` | `ClaimsAreFunded`, `StopHolds`; `EntryIsRanked` of every step (`RankLedger`) |
| `PromisesAreFunded`, `SalesComeFirst` | as it stands; `SaleComesFirst` of every step (`DeadlineLedger`) |
| `NothingCountsTwice` | `TapeIsUsedOnce` and, of every step, `LimitsAreKept` (`TickCycle`) |
| `PairsAreSound` | `FundingIsExact`, `WalletsCoverReserves` (`PairAccount`) |
| `FiguresAreCurrent`, `TotalIsRecent` | `WinRateIsCurrent` and `ReturnsAreDaily`, of every step (`PerformanceView`); as it stands (`AccountsReport`) |
| `ResearchIsHonest` | `BaselineOnce` and, of every step, `OutcomesWereSeen` (`OutcomesRestOnQuotes`), both of `Research` |
| `AuditIsHonest`, `WarningsAreNews` | `ReportedOnce`, `VerdictsAreHonest` (`CaptureAudit`); `MessagesAreNews`, of every step (`EarlyWarning`) |
| `BooksAreTheVenues`, `ContextIsConfirmed` | as they stand (`BookFeed`, `MarketContext`) |
| `ButtonsDoAsShown` | `ExecutedAsShown`, of every step of `TelegramConsole` |
| `PipelineIsConsistent` | `StoresAgree`, `OneAttemptPerPick`, `TradesRestOnFreshSource` (`ShadowSystem`) |

### Bounds

The bounds are chosen so that the interesting cases occur in the smallest form: a second payload for an id, a partial exit followed by
a second one, an expiry while the book is fetched, a restart in another mode, a day boundary between two sales, a job that ends between
two looks, a snapshot that supersedes one and one that does not, a crash after the ledger line and before the save, a retry of the same
snapshot, two hours that confirm an entry and a third that breaks its stop, a clear while an order is in a hand, a page of the tape that
overlaps the last one and one that leaves a gap. Each property has mutants in which exactly such a case goes wrong and TLC sees it.

In `MCPaperPortfolio` the portfolio is run as one of two scenarios, chosen at the start, because both at once are beyond TLC: `Slots`, two slots, for the
rules over slots and days, where the clock stops at `SlotsUntil` = 2, and `Days`, which replaces only the number of slots (one) and the
returns (two more of them), has at most `DaysLots` = 2 purchases and runs to `Horizon` = 3, which a grace of two (`Grace` = 2) needs. The pair account is run as one of two others. `pairs`: one asset as a pair or a short and one as a
short, with two positions, wallets that two signals compete for, losses beyond the margin and a settlement at round 4, up to round
`PairsUntil` = 5. `single`: a pair alone, whose two books are seen in the same rounds, up to round 7, with a midnight at round 4,
settlements at 4 and 6 and feeds that are valid for two rounds: so a trade is closed and its asset entered again, is charged two
settlements or three parts of an hour, waits for a late rate and closes after it, and falls behind. Neither bound is in the theorem. The
theorems of section 4 are about `Spec` and `PSpec`, without the scenarios.

In `MCLedgers` a report of the accounts is the last one as soon as it is complete; before it, only Kraken's part may be missing
(`AccountsBound`), and venues hold at most two of five positions: a coin abroad (Binance, Kraken), tether at home (Upbit, Bithumb) and
dollars (Kraken). The ages that `TotalIsRecent` allows are all reached: with any of them one smaller TLC finds it violated. So it does
`BooksAreTheVenues` without its exception for lost numbered changes.

Some modules come with `Scopes` (of the rotation account `Ledgers`, of the observer `Lives`, of the candles `Reaches`): how far an instance runs, for each of several choices of what else may happen in it (a long life with
one death; many starts in a short time). `Symmetry` permutes symbols that no definition tells apart, in runs without liveness.
Bounds that appear in guards are constants named `Horizon`, `Until`, `MaxTime`, and `Max...`; `Scopes`; and the sets `ScanTimes`,
`Tokens`, `Asofs`, `Messages`.

TLC's deadlock check is on in `shadow_engine`, `stores`, the `paper_*` runs and `hourly_workers`: those systems can always go on, also when
the bounds are used up. The other runs stop where their clock does (`CHECK_DEADLOCK FALSE`).

### Fairness

* Worker: the loop (`CycleStep`) and the restart of a dead process are weakly fair: `execution()` loops for ever and the platform restarts
  the service. `SellSome` is strongly fair: a book asked for every ten seconds is at some time delivered with a bid in it. Nothing is
  assumed of the feed or of asks.
* Journal: a child is started again and again by the monitor, and a child that lives goes on; deaths are bounded by `MaxCrashes`.
* Console: the loop goes round, a scan ends (it has a deadline of 480 s), and an engine job ends while the loop polls again and again
  (it is killed after 300 s, and nearly all of a round is spent in `poll_updates`).
* Archiver: a cycle that began goes on and another begins (`WF_avars(Cycle)`; `run()` loops with a delay of minutes, against grace periods of
  hours), and time passes. `FilesLeave` leaves out late lines: a line appended to a file that Drive already holds makes the two differ,
  the file is in `files` and not uploaded again, and so it stays on the disk. If Drive then expires the object (opt-in), the check of
  line 219 fails in every later cycle.
* The other modules are checked for safety only.

### Findings

1. `OutcomeIsOwn` fails. `start_engine` asks `ENGINE_JOB.done()` twice (`server_runner.py` 301 and 316). A rebalancing that ends between
   the two is overwritten by the monitor without `finish_engine_job()`; `ENGINE_REQUEST_ID` stays, and the monitor's result is recorded for
   the request. A failed rebalancing can be recorded "completed" and its failure message is lost. The documentation says the records
   track completed or failed outcomes of the request.
2. `TodayIsToday` fails. The realized result shown as today's is reset by the first rebalancing or replacement of the day only, so it
   loses what the monitor realized before that, and shows yesterday's result until then.
3. `ObserverStopWins` fails. `stop_fast` commits its flag in one database and pauses the account in another. A death in between leaves
   the account unpaused, and the next start under the same request name clears the stop, where the comment says "a later stop must win
   even across a partial startup". A stop that was carried out does hold (`ObserverStopHolds`).
4. `OnlyLeaversAreCleared` fails. A coin in alert is cleared in silence also when it is still on the watchlist and only its candles could
   not be read in this run; the next observation then announces the same alert again.

## 4. Proofs

Every theorem holds for every value of the constants that the named assumptions of the modules allow (finite or infinite sets of
identifiers, any books, any horizon, any number of deaths). Each follows the same argument: an inductive invariant, one lemma per
action, `PTL` at the end. TLC checked each invariant before it was proved, on the run's instance or,
for the archive, with one fault more. The assumptions say of the constants what the configuration of the code says: amounts and periods are natural numbers, a day has a length, no return is below -100 % and no
value of a lot negative (prices are positive), and the value for "none" is none of the others.

* `SumFacts`. What `SumFunctionOnSet` adds up in an unspecified order does not depend on it: the sum with one element more (`SumInsert`),
  without one (`SumRemove`), with one value raised (`SumRaised`), over a smaller set, under a renaming (`SumRenamed`), over disjoint parts. It stands on induction over
  a SET of numbers, which needs no operator for a parameter. All statements about money rest on it.
* `ShadowEngineProofs`. `IInv` adds to the type invariant, `OnePositionPerIntent` and `NeverBoughtLate` two facts they cannot do without:
  `RowsSound` (a row holds a well-formed intent under its own id) and `WorkOwnsRow` (the ingest in progress still owns a PENDING row,
  which is why line 75 never answers DUPLICATE in a single process). From it: type correctness, at most once, no late purchase, payloads
  never change, and every step of the worker is a step of `IntentLife` or changes nothing of it. `MoneySafe` adds an invariant of the
  money: cash plus open cost is the seed plus what was realized, row by row and fill by fill, through partial sales whose cost is rounded
  down; every purchase was made under the limits as they were. `HaltedReduces`: a process under the kill switch only sells.
* `ShadowEngineProofs`, the pipeline. What the feed offers is a set of entries of the outbox, so every step of `ShadowSystem` that moves
  the worker is one of its steps and `IInv` holds of it. `SysInv` adds `OutboxInv` (an entry, once made, never changes; it was made of a
  snapshot no older than `MaxSourceAge`; what was fetched is what the outbox holds) and that a position is opened after its entry was
  made. From it `PipelineIsConsistent`. Its hypotheses beyond the named assumptions of the worker are `PipelineAssumption`, which says the same of the
  bridge's constants, and `OneVocabulary`; TLC checks both on the instance.
* `StoresProofs`, the journal. `JInv` relates the journal to the files (`JournalSound`) and the files to what the process has read
  (`ProcessSound`). From it: no conflict, exactly once, recorded means applied, the ledger only grows, and the refinement of `AtomicRebuild`.
* `StoresProofs`, the archive. Two facts carry `KInv`. The hours found in some snapshot never become fewer: a snapshot is deleted only
  behind one that holds its rows and is itself there. And a state left behind by a cycle that failed after deleting the snapshot it names
  is one of an earlier day (`Overdue`), so the next cycle sends a new one before it uploads, prunes or expires anything. `JobInv` says for
  each place of `job.pc` what the cycle may rely on there: that its snapshot is stored (`Sent`), that what it is about to claim is in some
  snapshot (`AdoptInv`), that the snapshot being compared has no row of its own (`CompactInv`), that what may expire was analysed
  (`ExpireInv`). From it `ArchiveKeeps`: the four invariants of the archive, for any batch, retention and number of failed requests.
* `StoresProofs`, the history of a market. A page covers no bar before its first candle, so a bar that it covers and has no candle for is
  one without trades, and the market was listed before (`PageFacts`). What a repair owes the window before its cutoff is said for all bars
  but those it still misses (`WholeAt`), of the tables, the step of the observer and the missing bars; the live sum of the bar just closed
  never fills a bar of the window that had a candle (`AdvancedKeepsWhole`), and compaction and expiry drop nothing that may be referred to
  (`PackedFacts`). From it `HistoryIsReal`, for any window, page, batch and listing, and any quiet bars.
* `StoresProofs`, the candle signals. What is being built and what is armed began after the last break (`WholeSinceBreak`). A request is
  needed as long as it is under way (`HistoryIsAsked`), and an answer is newer than every closed bar. A poll that misses no unit of time closes
  a bar one unit after its end or passes over none that was observed whole (`PollsAreTimely`), so no hole is skipped because it came late.
  From it `SignalsAreWhole`.
* `PaperDispatchProofs`. `DInv` says that an owner nobody claimed has started nothing and that the id being claimed, the scan and the
  engine job belong to owners in the right state. From it: at most once, only what was asked, one at a time; and no step sets a job or a
  record back (`OnlyAdvances`).
* `HourlyWorkersProofs`. `Good(L, t)` is an invariant of the ledger at a time: a pending exit has its lot and follows its entry; a
  pending entry has none, follows the last exit and rests on hours after the last resumption; a stopped account has an exit pending
  for all it holds; a rebalancing has reserved exactly the targets neither bought nor canceled. Each operation keeps it whatever order,
  lot, generation or stop it is handed, so of the threads nothing is needed but that stamps lie in the past: that is the argument why
  stale copies do no harm. `Covers` adds the money: lots and reserved entries fit into the slots and the reserved budgets into the cash.
* `PaperPortfolioProofs`, the FAST flow account. `FlowInv` holds of an account whatever is called: a signal is pending exactly beside its
  order, an order is of a market that is not held and worth at least a part of a coin, what is reserved lies within the cash, and cash and open cost
  are the capital and the result; no order is older than the last interruption of its data. The calls fall into three: those that fill
  nothing and leave the account no worse (`Milder`: orders canceled, stops raised, exits decided), a sale under an exit decided before
  or by this book (`Exited`), and a purchase (`Purchased`); `BookCases` says that a book leads to one of them. From it `FlowAccountIsSound` and, for every
  step, `FlowEntriesAreAllowed`, for any markets, prices, policy and number of faults. It needs that the least budget buys a part of a coin
  at the price of a signal.
* `LedgersProofs`, the budget. A snapshot may miss what orders in flight spend, but never what a released order spent. So `IInv` counts an order in
  the book at its full cost and a released one at what it spent (`Settled`); a snapshot shows at least that, whatever its age, and what a
  caller adds to it stays below the limit and within the cash. From it `CapitalKept`, with one request per signal, over lost answers.
* `LedgersProofs`, the research records. A snapshot that is known is committed with the baselines made of it, so a process that starts
  again takes none twice, also when it died before `vpd_seen` was saved; an outcome that was recorded is marked as done while its baseline
  waits, and nothing waits across a death (`CandidateInv`, `PendingInv`). `HeardInv` says what may be forgotten of the quotes: a quote is
  kept while it may lie next to a pending baseline, to a sample since then or to the present. It needs `GAP` to be at least one unit
  of time, by which a queue may delay a trade. From it `OutcomesRestOnQuotes`, for any freshness, hole and horizons, and with the
  former `ResearchIsHonest`.
* `LedgersProofs`, the rotation account. `RankInv` sums the positions of the account one by one: each trade that is held ties up what its
  lots cost, each that waits claims its budget, a part that was sold gave its proceeds, and what is claimed is at most the cash. The
  pages of offers are a fold in the code and the model; what the fold has done is stated of the function of its values at each place, so
  that an offer is handled under the cash the earlier ones left. A stop is of a later generation than what the timer took up, so a stale
  timer opens nothing. From it `RankIsFundedAndStops`, whatever is offered and however the two threads interleave. `EpisodesInv` adds where
  a trade comes from: it keeps the start and the episode of its offer, and a coin that stays in the ranking stays in its episode, so the
  same offer is not made again; what waits is of the present start (`StartsInv`). From it `EntriesAreRanked`, of every step.
* `LedgersProofs`, the deadline ledger. `SlotInv` says that the cash covers a slot for every signal that waits, and that no money appears or
  vanishes: the cash is the seed and what the rows of the table, summed one by one, took and gave. What a pass has still to handle are
  different rows of the table, its sales before its purchases (`PassInv`), and the price that is asked for is that of the first of them.
  From it `PromisesAreFunded` and, for every step, `SalesComeFirst`.
* `ServicesProofs`, the observer. `OInv` says that between two polls no window and no tracked capture is overdue, that a confirmation lies
  in consecutive windows, and that the places of a market never exceed its bound: from it `ObservationsAreHonest`. A stop that was carried
  out is in both databases, and only the named restart takes it back from both: from that `ObserverStopHolds`, and with both `ObserverIsSound`.
  (Where a death falls between the two databases it is finding 3.)
* `ServicesProofs`, the universe. The streams share no coin, and together with the coins that are joining they are the known symbols;
  whatever fails or ends in between. From it `EachCoinOnce`.
* `ServicesProofs`, the audit. What was reported lies behind the cursor of the evidence of its day, and a verdict is read from evidence that
  is complete up to the cursor. From it `AuditIsHonest`, under `~Outgrows` (section 5), which the run has as well.
* `ServicesProofs`, the early warnings. `WarnInv` compares the level saved with the level the reader last heard: outside the doubt that
  a death between message and save leaves, they are the same or neither is an alert; what a run has told of is as heard, what it has not
  reached is as it was read. From it `WarningsAreNews`, whatever is observed and wherever runs die.
* `ServicesProofs`, the order books. Messages are lost and repeated on every venue. Where changes are only numbered, every message on the
  wire follows the one before it or brings the whole book, or a loss lies between them (`Linked`), the last one shows what the
  exchange has now (`Latest`), and the adapter has what the message it was last brought to shows (`ChainInv`), unless a change was lost
  since the last snapshot: nothing asks for the number that was skipped (`public_ws.py:124`), so the wrong level stays until the next
  snapshot or connection. `missed` is set from the loss to that point, and the invariant says that it is then reset with a whole book
  (`TailMissed`). A repeated message changes nothing, and what is cut at the depth is what the exchange would not show either. The other
  venues send whole books, or books whose best levels are checked. From it `BooksAreTheVenues`, which states the exception.
* `ServicesProofs`, the market context. A row that names its day names that of the observation it belongs to, also when midnight passes
  while it is asked for (`OfItsDay`); a row with a count of two repeats the state of the publication before it, which was told between
  `NEAR` and `LIFETIME` minutes earlier (`ToldTwice`). From it `ContextIsConfirmed`.
* `LedgersProofs`, the account report. A price is stamped when its last request has answered, and cash when its rate was looked up, on any
  venue. `CacheInv` bounds by how much the oldest answer behind a cached quote may precede its stamp, `RowOf` the same for every price in
  a row: the requests of its path and the age of a rate that was used again. The last check of the report (line 70) looks at the stamps. From it `TotalIsRecent`.
* `PaperDispatchProofs`, the pair account. `FundingIsExact` speaks of the trade closed last; its invariant says of each position, by venue,
  that what was owed from its entry to its cursor was charged once and nothing else, that the settlement it waits for lies at or before
  the first after its cursor, and that it is behind only when two settlements fell due since the feed it was opened on. The wallets: what is reserved on
  a wallet is at most its cash, which an entry keeps because it may spend only what the other reservations leave (`Free`), and an exit
  because a loss beyond the margin becomes a debt. Each operation of a tick is a set of outcomes, and the invariant is shown of every
  member: a position at a time, then a fold over them (`FoldSet` as a function of finite subsets). From it `PairsSound`.
* `LedgersProofs`, the figures. While the state file is unchanged between the two looks at it, what was read is what is stored, and a mark
  lies within its day (`FigureInv`). The results counted add up to the realized result of the state, so what the ledger shows beyond the
  closed positions cancels. From it `FiguresAreCurrent`, of every view.
* `ServicesProofs`, the alerts. What was sent stays claimed until it is too old for a poll to find it again: a claim is stamped with the poll, a
  poll finds nothing newer than itself, and a claim is kept (`Keep`) longer than a capture is recent. Claims left unmarked are counted
  against deaths.
* `ServicesProofs`, the console. What lies before the offset, or before what Telegram still has, was handled or discarded (`Past`); what
  lies behind both was handled only by processes whose successor could not discard it, so its handlings are at most the blind starts. A
  button that works was shown, is unused, and is the last its user was shown (`ButtonsInv`). From it `UpdatesAreHandledOnce` and, for
  every step, `ButtonsDoAsShown`.
* `PaperPortfolioProofs`. The state on disk and the copy in memory satisfy one invariant of a state (`Good`: shape, one lot per purchase,
  an older lot of a coin closed before the next was bought, balances, re-entry rules). What ties them is that the copy never loses a lot,
  has more lots than the disk only once no sale can follow (`run.step = "buy"`), and keeps every closed lot of the disk: so a death, which
  leaves the copy's lines in the ledger, leaves none for a lot the disk lacks. From it slots, conservation, reconciliation and no
  re-entry (`Sound`). `Confirmed` needs `LooksInv`: the first look is among the looks, so a sale after the grace has two different ones.

Not proved, and why:

* Everything under fairness (`NothingIsLeftOpen`, `ScanIsSettled`, `StoresAreCleared`) and `ENABLED`: outside this prover.
* `NothingCountsTwice`: `TickCycle` processes a page of trades as a fold over a sequence, and what a fold leaves of a sequence of any
  length takes an induction whose hypothesis is an operator.

## 5. Abstractions

* Worker: a book is one price and one size (the sweep of several levels has the same effect on quantity and cost); money is in whole
  units, rounded down, where the code has floats; the format clauses of `validate` and the 100-row limits are left out; `report()` reads only.
* Publication: a bundle is published in one step or not at all; the retries on contention are not modelled. What is published is strictly
  newer than what was; the code compares only with what it fetched.
* Journal: a ledger line is appended in one step (a torn line is not modelled); `migrate_state` is left out.
* Dispatcher: `record_request` does not fail; the record "executing" and the submission of the job are one step; the minute of a scan and
  the clock are one unit; the monitor's timer is a choice. One button stands for those that may be on the screen.
* Console: whether other work is in the way is a choice; `Messages` holds one message for each branch of the handlers.
* Portfolio: refusals for want of a snapshot, candidates or data are one action each (`MorningWaits`, `RefillRests`, `RebuildWaits`), free to
  happen; candidates come in any order; what nothing reads of a closed lot is forgotten; warnings and messages are left out.
* Hourly account: time counts bars, a stamp lies inside its bar; what indicators say of an hour is `qualifies` and `breaks`, what a quote
  says is `hit`; a fill's price is the return it makes; an interrupted cycle skips to the next one; `mark()` and the stored prices, which
  no decision reads back, are left out, and so is the one-time reset before the workers start.
* Archive: a request is one step, with its answer or without; `flush` writes its files in one step; reading size and removing the file
  (lines 220-221) is one step; rows and the coverage record that follows them are committed together (rows first in the code, and the
  archiver reads coverage first); what the owner moves to the trash, OAuth and the scratch files are left out.
* FAST accounts and ledgers: fees, slippage, rounding to lots and, in the rotation account, all prices but the three that the rules tell
  apart are left out; whether a window or an indicator qualifies is a choice; one market or venue stands for each, unless they compete.
* Candles: REST serves a bar as soon as it is closed; a market trades in every bar that is not quiet.
* Pair account: the rules that make a signal and the prices are choices, a slot is split evenly between the legs, and a kind of short stands
  for the three. `FundingIsExact` has one exception, which the code has too: `funding` waits for the settlement that is due
  (`derivatives.py:88`; `test_fast_models.py:93` tests that one) and not for a further one, so when the feeds were away until a second
  was due, and the first is then published before it, the second is passed over.
* Account report: won need no price and are left out, and a request takes up to `LAG`. Kraken's list of names may be asked for in between
  (`kraken_pair`, once in a process) and delays the first quote by one more request; this request is allowed for only where it comes
  between two answers that a quote is made of.
* Order books: one book of one connection; of the levels one side.
* Audit: a ledger is replaced only once its rows were copied (`Replace`: the cursor is at the last row); the code would not import rows that
  were replaced before. A replaced ledger is not assumed to reach the old cursor before it is seen (`Outgrows` = FALSE).
* Budget: `release` has no caller in the repository; the contract of the book (fills are applied before a reservation is released) is taken as given.

## 6. Not modelled

The arithmetic of features, scanners, replay and laboratory (batch computations whose result enters the models as any ranking or
signal), dashboards and views (read-only), the stream parsing of the collectors, the one-time reset of the hourly account, the legacy
FAST accounts and the earlier shadow runtime, which nothing starts any more.

## 7. Plan

1. Proofs about `TickCycle`, with the fold of a page of trades stated of the values at each place.
2. The refinement of a single-step delivery by `CaptureAlerts` and by the report of `CaptureAudit`.
