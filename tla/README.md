# A verification project for the reversal server

This directory holds TLA+ models of the Node server under `src/server`, the TLC
configurations that check them and TLAPS proofs about them. Every definition is
translated from the source; `PROJECT.json` gives, for each definition, the lines
it stands for.

## 1. The system

One Node/Express process serves a trading and research application. It is single
threaded: a handler runs without interruption up to its next `await` of real I/O.
Interleaving therefore happens at four places only: at those awaits, in timers, in
events of child processes and sockets, and at restarts. State lives in SQLite
tables (better-sqlite3, synchronous), in JSON files that are written in place and
synchronously, and in maps of in-memory engines that a restart empties. There are
no handlers of uncaught exceptions or rejections.

| Component | State it keeps | Operations | Talks to | What is hard | Correct when |
|---|---|---|---|---|---|
| Order management (`oms/`) | `oms_orders`, `oms_events` in SQLite | create, submit, acknowledge, fill, cancel with cascade, reject, expire, error, reconcile | gateway client, paper engine | the live reconciliation awaits the broker per order and writes over what the rows have become | the journal tells the row, rows are coherent, terminal states are left by a correction only |
| Order execution (`execution/`) | `execution_orders`, `execution_fills`, kill switch in memory | placeOrder, cancelOrder, kill switch | risk checker (awaits a price), paper engine, gateway client | everything may change between the lookup, the price and the gateway's answer | one fill per clientOrderId, fills keep their orders, final orders stay |
| Paper trading (`paperTrading/`) | positions, orders, guard's kill switch in memory | place, close, reset, kill switch | execution, OMS poll | shared by two callers | no position is above the limit, none short unless an order neither a buy nor a sale made it so |
| Gateway client (`ibkr/`) | belief of a session | connect, place, status, cancel | IB gateway over HTTP | lost and late answers | modelled inside the two modules that call it |
| Inference process manager (`api/pythonInference.js`) | child process, promises, pending map, timers, counters | infer, shutdown, health | Python worker over pipes | events of old processes mix with those of new ones | every call settles once; counters add up |
| Alerts (`alerts/`) | two JSON files, previous values in memory | create, update, delete, evaluate, trigger | feeds (awaits prices and candles) | cycles overlap, objects go stale, crash between two files | marked triggers are remembered and keep to the cooldown; one report per crossing while cycles do not overlap |
| Feed manager (`feeds/`, `persistence/`) | active list, flags, keys, two JSON files, caches of ticks and candles, failures, status records | select, start, save and delete keys; look up a tick, a candle, a series along the list | provider clients | sequences of selections and keys; restart in another environment; a lookup awaits each provider while the list and the caches change; retries inside a grace time | list never empty, in order, survives restarts, demo never mixed in; a series is fresh and from the first provider that gave one; each lookup ends |
| Market stream (`marketStream/`) | subscriptions, adapters, failover reasons, buffer | subscribe, unsubscribe, failover, ingest, flush | feed manager, provider adapters | stale providers, adapters that silently take nothing | a routed symbol is served; staleness is acted on; buffered ticks arrive |
| Historical datasets (`historical/`) | JSON registry, two files per dataset | download, delete | providers | a delete awaits each file while a download writes them; a write that fails half way; other purposes share the id | a registered dataset has its files |
| Training, model registry (`ai/`) | JSON registry, artifacts | train, promote | datasets, Python processes | the dataset changes while a process reads it; timeouts | a model tells the data it was trained on; one champion; every request ends |
| Strategy lab (`strategyLab/`) | MongoDB or memory, by connection state | save, attach results, delete, clear, compare | MongoDB | read-await-write; the store changes under the caller; ids of two shapes | no attachment takes away what another kind added; status and last validation agree |
| Portfolio (`portfolio/`, `paperTrading/`) | the paper account's positions, profit, fills | trade, reset, summary, risk | paper engine, feeds (a price per position) | a summary awaits prices while orders fill; averages are rounded | a summary no fill has crossed adds up |
| Macro correlation (`api/macroRoutes.js`) | none of its own | correlation, beta, volatility | datasets, one read after the other | datasets change between reads; candles out of order, under another label, missing | returns are those between neighbouring days that have a candle |
| Rule engine, templates, session context (`ruleEngine/`, `strategyTemplates/`, `sessionContext/`) | rule sets in memory, a cache of contexts | save, apply, convert, validate, evaluate | signals, backtests, analysis history (awaited) | sources and rule sets change around the await; missing values | a condition passes on data its source held |
| Backtests, strategies, validation (`backtest/`, `strategies/`, `validation/`) | candidates and verdicts in memory, results in memory and SQLite | generate, run, walk forward, validate, clear | datasets or demo candles | where decision, entry, holding limit and the end of the data meet | later candles change no decided trade; the drawdown is the worst fall |
| Charts (`charting/`) | live delta, key of the last push | ticks, chart requests, pushes | feeds, WebSocket | session and week-end boundaries, edges of price grids | volume is neither lost nor told twice |
| Python prediction service (`ai/inference/prediction_service.py`) | process, slots, counters | predict, stop, start | worker over pipes | caller, reader and watchdog threads interleave between locks | the end of a reader fails the calls before it; a call is counted once |
| Python trainings and registry (`ai/training`, `ai/registry`) | one directory of artifacts, SQLite tables | train, register, promote, record a dataset | workers that boot from the directory | processes write the same files, and die between them | one champion; manifests and rows name what is there; every row in one part |
| AI services (`ai/*.js`, `api/aiRoutes.js`) | feature records, labels (MongoDB or memory), jobs, models | save, label, train, promote, infer | Python scripts | jobs overlap; records are labelled again | models learn from outcomes that have happened; jobs depose no champion |
| Institutional toolkit (`institutional/`) | an audit log and scenarios in SQLite | size, run a scenario or stress pack, export a report | clients | two statements without a transaction; reports over rows of earlier calls; amounts rounded apart | every scenario has its row, reports stand, sizes keep to their cap |
| Multi-asset analytics (`multiAsset/`) | none of its own | correlation, beta, volatility, relative performance, combined heatmap | feed manager, one fetch per symbol | histories of unequal length, failing fetches, a day that ends between fetches | what is matched by position is of the same days |
| The rest: signal detectors, replay, analysis history, observability, bootstrap, other REST clients | logs, counters, flags, lists overwritten whole | single synchronous calls or reads | | little | |

`PROJECT.json` lists each of them under `components` with its status, and under
`hazards` what in this code a test would hardly reach, at its line.

## 2. The modules

| Module | Models | EXTENDS / INSTANCE |
|---|---|---|
| `OrderStatus` | the statuses and the transition table of the OMS | |
| `OrderLifecycle` | what the OMS promises: the abstract specification | `OrderStatus` |
| `Oms` | the OMS, its broker, the paper engine as it sees it, restarts | `OrderStatus`; instantiates `OrderLifecycle` |
| `PaperTrading` | the paper engine and its guard | |
| `Execution` | placement, risk check, routing, cancel, kill switch, gateway | `PaperTrading` |
| `InferenceWorker` | the manager of the Python process and several processes | |
| `AlertRules` | when each type of alert holds | |
| `Alerts` | stores, evaluation cycles, triggers | `AlertRules` |
| `Feeds` | providers in use and their keys | |
| `Lookups` | lookups along the list, the Yahoo client with its cache, retries and health, status records | `Feeds` |
| `MarketStream` | subscriptions, failover, adapters, tick buffer | `Feeds` |
| `Datasets` | downloads and deletes of datasets, their files and rows | |
| `Training` | requests to train, their processes, the model registry | `Datasets` |
| `StrategyLab` | saved strategies and the results attached to them | |
| `Portfolio` | the money of the paper account, summaries with their awaits | |
| `Macro` | which datasets a request reads, alignment by day, returns | |
| `RuleEngine` | rule sets, conditions, an evaluation and its await, the context cache | |
| `Strategies` | candidates of either side and their entries | |
| `Backtest` | simulated trades, equity, walk-forward, stores, verdicts | `Strategies` |
| `OrderFlow` | cumulative delta, footprint, volume profile | |
| `PredictionService` | the Python wrapper of a worker, thread by thread | |
| `SignalRegistry` | Python trainings writing files and rows, workers booting, dataset versions | |
| `SignalData` | labels of bars, the saved dataset, the temporal split | |
| `AiServices` | records, labels, jobs, registry and inference of one symbol | |
| `Institutional` | sizing, scenarios, reports, the audit log | |
| `MultiAsset` | fetches of closes and what is computed from them | |
| `MCDesk` | order execution, alerts, portfolio, correlation and rules in one run | `Execution`, `Alerts`, `Portfolio`, `Macro`, `RuleEngine` |
| `MCAnalysis` | the analysis side in one run | `Backtest`, `OrderFlow`, `PredictionService`, `SignalRegistry`, `SignalData`, `AiServices`, `Institutional`, `MultiAsset` |
| `MCResearch` | datasets, training, the lab and inference in one run | `Training`, `StrategyLab`, `InferenceWorker` |
| other `MC*` | constants for TLC | the module they name |
| `Filter` | the elements of a list that are in a set, for `Feeds`, `SignalData`, `Macro` and `MultiAsset` | |
| `ListProofs` | lemmas about lists, filtered lists and sums | `Filter`, the library's theorem modules |
| `OmsProofs`, `ExecutionProofs` | theorems | the module they name and `TLAPS` |
| `MarketStreamProofs` | theorems about the feeds, routes, ticks that wait, and lookups | `MarketStream`, `Lookups`, `ListProofs` |
| `ResearchProofs` | theorems about datasets, trainings, the lab and inference, and the four side by side | `MCResearch` |
| `AnalysisProofs` | theorems about the Python registry, prediction service and data, the AI services, backtests and the institutional toolkit | `SignalRegistry`, `PredictionService`, `AiServices`, `SignalData`, `Backtest`, `Institutional`, `ListProofs` |
| `ChartProofs` | theorems about charts, multi-asset analytics and the analysis as a whole | `MCAnalysis`, `AnalysisProofs` |
| `DeskProofs` | theorems about alerts, rules, the paper book, the macro routes and the desk as a whole | `MCDesk`, `ExecutionProofs`, `ListProofs` |

`MCDesk`, `MCAnalysis` and `MCResearch` combine components that share no state besides
what `EXTENDS` already makes common (orders and positions, datasets and trainings). A variable
`focus`, chosen initially, names the one that moves in a behaviour: every interleaving inside a
component is explored, and interleavings of strangers, which could show nothing, are not.

### State and actions against the code

- **Oms.** `orders` are the rows of `oms_orders`, `journal` those of `oms_events`
  per order. `Submit` ... `MarkError` are the exported transitions, all through
  `ApplyTransition` (`applyTransition`: guard, row, event). `Fill` includes the
  acknowledgement it makes first. `Cancel` includes the cascade. `StartReconcileLive`
  takes the snapshot of open orders, `BrokerReplies` fixes the broker's answer when it
  is given and `ReconcileNext` applies it when it arrives, so that the row may have
  changed twice in between. The snapshot is a set: the loop's order is left free.
  Orders and fills come in `Quantities` and `Amounts` of either sign, zero or no number (`NaN`), as the
  routes let them in. `hung` are the runs whose response was cut (`BrokerCuts`).
- **Execution.** `stage` is the await a placement is in: `pricing` (risk check),
  `connecting` and `sending` (gateway). Each `Resume` action is the code from one await
  to the next. `SaveOrder` has the conflict rules of `INSERT OR REPLACE` with the unique
  `clientOrderId` and the foreign key of fills, which is what `Savable` is about.
  Refusals for an invalid input or by the mode gate save the same row as a refusal by a
  check and are one action with it (`RejectByRisk`). Prices are one when known. No route checks a
  side: `Sides` has "short" for the words that are neither "buy" nor "sell", which the engine books as
  a sale and only some checks take for one; `otherFills` remembers where one was filled.
- **InferenceWorker.** Variables carry the names of the module-level variables
  (`_worker`, `_readyPromise`, `_workerAlive`, ...). The pipe of each process is a set
  of lines that are still to be read, also after its exit. A promise's continuations run
  in the step that settles it, as microtasks do.
- **Alerts.** `objects` keeps every object there has been and `table` maps ids to the
  current one: an edit makes a new object, a trigger mutates the stored one, a cycle
  holds on to what it found. `Trigger` awaits the channels only after it has recorded and marked.
- **Feeds, MarketStream.** One action for each exported operation. `streams` are the
  symbols in the subscriptions of each adapter, which a failover does not clear.
  `Takes` says when an adapter's `subscribe` returns without doing anything.
- **Lookups.** `lookup` is a caller's way along the list it has read, `fetch` its `fetchYahooChart`: answered from the
  cache (`served`), about to be sent or sent, or in a backoff. `chart` is the entry of the cache, a chart or an error,
  with its time; a datum is its source and the time it was fetched. `Silent` includes what a failure records and the
  retry within the grace time, `Delivers` what `ingestTick` and `ingestCandle` write. `Stubs` are the providers
  without `getCandles` (Polygon, Alpha Vantage, the gateway, the demo), which a replay passes over. The Yahoo polling
  adapter also fetches through this client; here it appears as streamed ticks only.
- **Datasets.** `rows` is the registry file reduced to the directory of each dataset's files,
  `files` the archive and the CSV in every directory. A fetch and the writes that follow it are
  one step, as in the code. `removal` names the directory that the delete has read: the row may
  have moved since. `torn` collects the datasets that a crash or a failing write has cut short;
  it changes nothing else.
- **Training.** `training` is the request and the await it is in (`probing`, `running`), `child`
  the Python process, which reads the file in a step of its own and outlives a restart of the
  server. The extent of a dataset (count, first and last day) is what its hash tells apart.
- **StrategyLab.** An attachment is `finding` (read sent), `updating` (write sent), `written`
  (applied, the answer on its way) or `lost` (failed from here, and perhaps applied later). The
  write changes the fields of its kind only, with the list it has read. `kept` and `raced` are
  history for `ResultsKept`.

- **Portfolio.** Money in `book` is in the unit to which the engine rounds, and averages are rounded as there. Orders
  are of any side, quantity and price (`BookOrders`). A summary reads a position when the price it awaited has come
  (`Priced`), and the realized profit at the end (`Summed`); `crossed` counts what happened meanwhile and changes
  nothing else.
- **Macro.** `ReadListed`, `ReadPrimary` and `ReadFound` are the awaits of the two cases of
  `resolveAndLoadCandles`; `DatasetChanges` is a download or a delete in between. Closes are
  powers of two, so that returns are exact integers.
- **RuleEngine.** `evaluation` holds the rule set as it was found and the sources as they were read,
  those before the await and those after it. `held` is history: the values each source has
  had since the request.
- **Backtest.** Prices carry percents in millionths, so that stops, targets and slippage are exact.
  The walk-forward runs over the demo series, as the code does.
- **OrderFlow.** A day is `before`, `session` or `after`; a unit of volume is 2, so that the half
  that counts inside the spread is whole. `Levels` and `Shown` round as the code does, each level and
  bin by itself; `LevelSize` is what `clampClusterSize` makes of a wide candle.
- **PredictionService.** `at` is the place of each thread in `predict`, `start` and `stop`; a
  step ends where another thread may run (only slots and counters are under locks). Spawning a process,
  `_running` and the first statement of its reader (`ReaderOpens`) are three steps: the reader
  takes the process there is by then, its own or a later one. `ReaderEnds` is its end, or its crash
  while the process lives. `missed` is history: the readers that had ended when a call was registered.
- **SignalRegistry.** `process` is the next file or row a training writes, `disk` which training
  wrote each file of the directory last; `loader` is a worker between its read of the manifest
  and its read of the model.
- **SignalData.** One action prepares a training and one a dataset from a file of bars, with
  warm-up rows, missing prices, labels over a horizon and the split by any `Ratios`, negative
  ones and ones beyond the whole included, which cut from the end as slices do.
- **AiServices.** Time is counted in candles. A job reads records, then labels, in `JobBuilds`, and
  registers and perhaps promotes in `JobTrained`.

- **Institutional.** `audit` and `scenarios` are the two tables. A call is one step, except that a
  scenario is two statements: `saving` is the scenario between them, `Cut` the end of the process or a
  failing statement there. Fractions are in units of what `_r4` keeps; volatility sizing is a
  root, computed exactly and then rounded; 252 trading days and 10^4 units are constants.
- **MultiAsset.** A close is its logarithm in whole steps, so that log returns are differences;
  covariances are multiplied by the square of the number of returns, and a correlation is the
  triple it is computed from. `data` holds what each fetch brought, `answer` the result with
  it. Candles keep their day for the properties, which compute the same figures by day. A window is
  its whole part and whether there is a fraction, with which the loops leave the last return out (`LeftOut`).

## 3. What is checked

Run with `tlc -workers 2 -config <cfg> <module>`; each takes about five minutes at most.

| Run | Question | Result |
|---|---|---|
| `oms_live` | Do rows and journal stay together while two reconciliations of one live order overlap with callers, a broker that answers late and restarts? Does each reconciliation end, but for a response that is cut? | holds |
| `oms_paper` | A parent and a leg on paper: are creations unique and fills complete (`ClientsServed`), are cascades complete, does the OMS implement `OrderLifecycle`? | holds |
| `oms_terminal` | "filled (terminal)": is a terminal status final? | violated: a stale reply reopens it |
| `oms_fills` | "handles partial and full fills automatically": is a fill of a working order accepted? | violated: not a second partial one |
| `execution_dedup` | "returned without re-routing (dedup)" | violated: both overlapping live calls are sent |
| `execution_kill` | "All execution blocked." | violated: a placement that waits for its price goes on |
| `desk` | Overlapping placements: limits, fills, final orders. Overlapping alert cycles: cooldowns and memory of marked triggers; without overlap, crossings. Summaries of purchases and sales that add up. Returns that follow the days. Rules that pass on data only. | holds |
| `research` | Files behind rows, models that tell their data, trainings that end; attachments that take nothing away (`LabHonest`); calls to the inference process that settle once and are counted (`InferenceHonest`) | holds |
| `inference_spawn` | "instead of spawning twice" | violated: a late exit clears its successor's promise |
| `analysis` | Backtests that know nothing of the future, volume that is conserved but for what charts round, Python calls that the end of a reader answers and that are counted once, one champion, manifests that name what is there, rows in one part each, jobs that depose nobody. Scenarios that have their audit row wherever the process ends, reports that stand (`ToolkitKept`), sizes within their cap and in order, hedged books that come out at nothing (`AmountsHonest`). Over histories without gaps, of any length, with failing fetches and fractions of a window: which days correlations, betas, volatilities, ranks and rebased series pair (`AssetsHonest`) | holds |
| `market_stream` | Keys, selections, restarts, stale providers and the buffer together | holds |
| `lookups` | Two lookups with streamed ticks, selections and restarts: are series fresh, and from the first provider of the list that gave one? Does each lookup end, whatever Yahoo answers? | holds |

Five runs violate a property that quotes a comment or an answer of the code; they are listed
under `findings` with the line. Some properties join two to four named conjuncts that concern
one promise (`InferenceHonest` is `Accounted`, `NoneStranded` and `HealthHonest`; `OrdersTold` is
`OrderCoherent`, `JournalAgrees` and `JournalChained`); each conjunct is a definition with its own
comment, and each of those joined in `OrdersTold`, `AlertsHonest`, `RegistryAgrees`, `ToolkitKept`,
`AmountsHonest`, `AssetsHonest`, `StreamMovesOn` and `LookupHonest` has a mutant of the code that breaks it.

### Bounds, and why they are enough

- `oms_live`: one order, because reconciliation compares an order with itself; two
  reconciliations, the fewest that can overlap; two clientOrderIds and `ReuseOrderIds`,
  so that a row can be replaced; orders of 2 and -1, fills of -1 to 2, so that partial, full, excess,
  empty and negative fills occur; callers stop at three events of an order, reconciliations go on.
- `oms_paper`: a parent and one leg (the cascade is one level deep), five events, which
  reaches every status through its longest path but one; the two clientOrderIds are symmetric.
- `desk` and `execution_*`, execution: two placements, the fewest that overlap, with one shared clientOrderId or a
  generated one; each limit lies between the reachable quantities so that each check both passes and refuses.
  `SomeRequests` has each side on paper and live, and a quantity of zero; the proofs are about any request.
  `execution_dedup` has live orders only, both of which can reach the gateway. Placements are symmetric; no liveness
  is checked there.
- `research`, inference: two calls and two processes, so that a call can spawn and another join
  it or find the successor; three processes in `inference_spawn`, which the violation needs.
- `desk`, alerts: two cycles, one symbol, two objects, a clock of two instants against a cooldown
  of one, one move of the market. A crossing with a cooldown and a level once, with an expiry.
  Data of a symbol is fetched whole; the price alone may be missing. Cycles are symmetric.
- `market_stream`: a keyed socket, the gateway, a poller and the demo, which covers every
  class of adapter; one symbol, since symbols share nothing but the adapters' maps; four
  selections and two environments; keys are saved for the socket.
- `research`, datasets: two downloads and two deletes, the fewest that overlap, over
  two directories, three fetches. Training: one download, one delete and one training over one
  directory with two extents, so that the data can change under the training; two fetches, two
  models. Strategy lab: one strategy in each store, two attachments, two results.
  `ResultsKept` needs two results, of which one is answered while the other is under way.

- `desk`, portfolio: two symbols, three fills, two days and two prices that do not divide, so that an average is
  rounded, orders of each side, of nothing and at a negative price (`SomeOrders`); one fill or reset may cross a
  summary (`MaxCrossings`), the fewest with which its parts disagree. Correlation: two datasets, four contents (in
  order, out of order and mixed, too short, under another label), seven requests over all ways of naming datasets.
  Rules: one id; conditions before and after the await, unequal and missing values, an unknown operator and source, an
  id twice; one change of the sources per evaluation (`MaxChanges`), since a second only repeats the case.
- `analysis`, backtests: up to four candles of two shapes, so that the entry, the holding limit and the end of the
  data meet in every way; two candidates. Order flow: charts of up to three candles of four shapes, two levels a
  candle and five bins, among which volumes do not divide, trades at bid and ask, inside and without a quote, three
  ticks, three days of which one has no session; while ticks are logged one chart is enough, and nothing is pushed
  (`FlowBound`). Prediction service: two callers, one operator that stops it, two processes, so that readers can
  cross; with the operator one call at a time. A reader crashes while its process lives, and then no second process
  comes; one call at most is refused a process; the last process ends only by a stop, and its watchdog starts none
  (`ServiceBound`). Trainings: two processes of one symbol and a worker that boots, best models of two of the three
  kinds (`KindBound`), two trainings that reach the point of writing (`SignalBound`). Recordings: two recorders of one
  dataset. Data: files of 3, 13 and 20 bars around the lengths a split needs, horizons 1 to 3; four pairs of ratios,
  two with negative shares and one that leaves no rows to test. AI services: two records, two jobs, three candles
  against a label horizon of one.
- `analysis`, toolkit: three rows, enough for a sizing, a scenario and a report, or a report that outlives two more
  rows; nine Kelly inputs around edge, cap, confidence and no number, four volatility inputs, two books under three
  shocks, one mode, since no step asks for it. With three digits less than `_r4` keeps, rounding shows at once.
  Assets: an asset, another and a benchmark, each with one of four histories (none, as long as a window, as long as
  one limit and longer than another, with a gap), two levels of closes, windows of two and three and of a fraction
  more (`MCQueries`), one day that ends while a request waits (`CloseBound`: one that ends before it gives but another
  history), with one unusable close at most. Requests share nothing, so the answer is forgotten with the next.
- `lookups`: two callers, one symbol, four providers (Yahoo, one with a key, a stub with a key, the demo, which
  is a stub too) and two lists, one of which begins with the stub; only the one with a key streams;
  one retry, a time to live and a grace time of one, a clock of three instants, so that an entry of
  the cache is fresh, at its limit or too old; three calls, streamed ticks or restarts. Calls are
  bounded, so a behaviour may stop.
- Symmetry is used where no liveness is checked, and exchanges the pairs of a run together:
  what is not in focus rests in a state that is the same for both.

### Fairness

- `Oms`: `WF(RunStep(r))`. The HTTP client aborts a request that stays idle for its timeout and reports an
  error of the request, so a broker request settles, and the event loop then resumes the handler, unless
  the response is cut in mid-body (`IBGatewayClient.js:66`): nothing listens for that. `BrokerCuts` may
  happen to any request; a run it hits is `hung`, takes no step again and is excepted by `RunsEnd`.
- `InferenceWorker`: `WF(RequestTimeout(c))` and `WF(StartupTimeout(p))`, both timers of the
  process. Nothing is assumed of Python processes or of pipes.
- `MarketStream`: `WF(RunStaleCheck)`, an interval, and `WF(Flush(s))`, a timeout. Providers
  promise nothing.
- `Training`: `WF(ProbeOk \/ ProbeFails)`, since the probe is spawned with a time limit, and
  `WF(TrainingTimesOut)`, a timer. Nothing is assumed of the training process.
- `Lookups`: `WF(LookupStep(r))`. `fetchWithTimeout` aborts a request without headers, the HTTP client
  one whose body does not come, backoffs are timers, and providers other than Yahoo answer from memory or
  end the same way.

The other modules state no fairness and no liveness.

## 4. What is proved

All theorems hold for any value of the constants under the named assumptions of the
modules (quantities are integers, candles are not upside down, `Null` values are outside their sets, ...).

- **`OmsProofs`**. The inductive invariant is `TypeOK`, `TablesInv` (`OrderCoherent`,
  `JournalAgrees`, `JournalChained`, together `OrdersTold`) and `RowsExist`: every row of a snapshot and every reply
  names an order that exists. The last is what the others need when a reply arrives, since a
  correction writes whatever order it names. `JournalAgrees` is needed by `JournalChained`: an
  event continues the one before because the row it starts from is what that one told. The
  safety invariants follow, then `TerminalLeft` (an action property) and
  `ImplementsLifecycle`: with paper orders only and no reuse, every step is a step of
  `OrderLifecycle`. `ServedOnce` (no reuse, any mode) needs that an order still holds what its
  creation asked (`AskedOnce`) and that a broker reports `Filled` only for the whole quantity
  (`BrokerFillsWhole`). `CancelsCascade` holds with paper orders only, and for legs that have no legs
  (`OneLevel`): the cascade goes one level down, and a nested leg would stay open.
- **`ExecutionProofs`**. The inductive invariant adds to `TypeOK` and `PositionsBounded` that a
  row repeats its request (`RowsAsked`), that a clientOrderId has one row (`OneRowEach`), and
  that a placement under way is neither filled nor acknowledged (`Settled`), for requests of any side and
  quantity; a short position has its other fill (`PositionsBounded`). `FilledOnce`
  follows from the rows: a fill's row cannot be replaced, and a clientOrderId has one.
- **`MarketStreamProofs`**. The invariant is the type of the routes with
  `ServedByItsProvider`. Its heart is that `Resolve` and failover only choose a provider that
  has its key, and a socket that is connected takes what it is given as long as it has
  one; deleting a key does not clear the adapter. `NeverBounces` is an action property.
  Lookups: `ReplaysAreFresh` follows a datum from the cache through the fetch to the answer: what is
  served was fresh when the fetch began, which is not before the lookup did. `ChainsAreHonoured` needs
  that the providers before the one being asked are those that gave nothing, or lack the method.
  The feeds: `FeedsInv` adds to the type that the file on disk repeats the list in use, which is
  why a restart finds what was there; that `filter` keeps order and takes nothing twice comes
  from `ListProofs`. `SelectionIsKept` follows for every call. `StreamTypeCorrect` needs
  that a tick that waits has its flush scheduled (`HoldsInv`).
- **`ListProofs`**. The library's induction theorems take an operator as a parameter, which the
  provers cannot instantiate. The lemmas here do induction with sets: a set of numbers that holds
  0 and the successor of each member holds every number (`AllNumbers`), and a nonempty set of numbers has a
  least one. From these follow that a recursive function satisfies its equation
  (`RunningExists`, `SumsExist`), what a filtered list holds and in which order, and the laws of sums over
  finite sets: one more element, split, exchange, telescoping, shift and scale.
- **`ResearchProofs`**, datasets. `DataTypeOK` with `FilesBehindRows` is inductive: a file that is removed
  belongs to a row only while its delete is under way (`UnlinkedBy`), that delete ends with the
  row, and a row that has moved to another directory names other files. Any number of datasets,
  directories, downloads and deletes.
  Trainings: `ModelTellsItsData` needs that a process read before it wrote what it
  wrote (`WrittenOnce`: its artifact is its own, holds the extent it read and is not registered yet)
  and that a model is registered once; the datasets' invariant is used as it stands, since
  a step of `Training` is a step of `Datasets` or leaves its variables alone.
  The strategy lab: `LabHonest` needs to know what an attachment under way will write. If a result
  is owed, that is answered for and not raced by one of its kind, the strategy lists it
  (`OwedAreListed`), and whoever is about to write that list has read it (`WritersHaveRead`).
  Inference: `InferenceHonest` becomes inductive with two facts about the order of
  events: the promise that a new call would join is not settled unless the worker is ready
  (`StartingWaits`), and a process says that it is ready only after it came up, while one whose
  startup is awaited has not been seen to end (`ToldByProcess`). Counters are cardinalities of sets of
  calls; each step moves at most one call, or all that are pending, from one set to another. Any
  number of calls and processes.
  `ResearchInv` joins the invariants for the composition that the run checks: whichever component
  moves, the others' variables rest, so types (`ResearchTypeCorrect`) and honesty (`ResearchIsHonest`) stay.
- **`AnalysisProofs`**, registry. `RegistryInv` is the type with `ProcessInv`, `FileInv` and
  `RecordInv`. `ProcessInv` adds to `OneChampion` that a training belongs to one process,
  which registers it once: so the row a process promotes is its own, and the promotion demotes the
  champion of that symbol in the same transaction. `FileInv` orders the writes: a training at a step
  has written the files before it, files are never removed, and so a manifest names models that
  are there. `RecordInv` says that there is one recorded dataset and that every answer names it;
  the unique hash makes it so when two recorders look in vain and both insert. Any
  number of processes, symbols, workers and recorders.
  The prediction service: `CallsAccounted` with `WaitersKnown` (who awaits a result has a slot and
  was registered after every reader that has ended) and `ReadersOutlive` (a reader that is done read a process that
  was dead), both about threads between two locks. The AI services: `AllHappened` says of labels, of what jobs hold and of
  what models learnt from that the outcome lies in the past, and `OneChampionLeads` is the registry's order.
  The data: rows of a saved dataset are rows of the file in their order, each with its sale in
  the file (`Prepared`, inside `PrepInv`), and the parts of the split are adjacent cuts of one list, wherever the
  ratios put them, since a split that is accepted has its cuts in order (`SplitCuts`); `RowsOnce`
  follows for files of any length.
  Backtests: `RunsInv` says that a saved run covers a prefix of the series, so that no decision rests on a
  later candle; `WalksInv` that the drawdown is the worst fall of the equity, by induction over the trades.
  `LedgerInv` has the types: ids grow, a result stays within the candles there are.
  The institutional toolkit: `AuditTrailHolds` needs that the scenario being saved is on record and that no
  other is of its row; `ReportsStand` that a report names rows of its own time or none, since the summary
  is a function of the rows it finds. `AmountsAreHonest` rests on `SizesInv`, that a row of the log holds the
  sizes of its inputs; what those sizes satisfy is arithmetic: caps and monotonicity of Kelly and volatility
  sizing through integer division and square roots, and a hedged book that cancels as a sum. Any inputs,
  books, shocks and lengths of the log.
- **`ChartProofs`**, charts. `LiveDeltaIsItsSession` needs that the first tick of a day's session
  began the sum (`LiveKnown`). Footprint and profile: the shares of a candle's volume are differences at
  clamped ends of intervals, which telescope, so nothing is lost for any cluster or number of bins but what is
  rounded: half a unit for each, summed. The
  value area grows from the greatest bin by the greater neighbour and covers, while it grows, less than
  the target, which is one of rounded bins (`AreasCoverTheVolume`).
  Multi-asset: `MultiInv` ties an answer to the closes that came with its request. Where no asset has a gap,
  a position in the list is a day, and what is computed by position is what the days say: of the latest days
  of both, or for the beta of the first days of each. A rank counts the
  assets up to a place, so that less volatility has a lower one.
  `AnalysisInv` joins the invariants of the eight components in `MCAnalysis`.
- **`DeskProofs`**, alerts. `TriggersKept` is inductive over the types: every write of a trigger goes
  to the stored object and takes the clock. `CrossingsMoved` is not, and its strengthening is the most
  delicate of the project: as long as cycles do not overlap, the entries of an alert, one more if the
  cycle under way still has to look at it and would find it crossed (`Due`), and one more if the price
  has crossed since the cycle read it (`Beyond`), are at most the moves of the symbol's price (`MovesCover`).
  A restart forgets the previous values and only lowers that count.
  Rules: what an evaluation has found, or will find after its await, was held by its source at some
  moment since it began (`EvaluationHeld`); conditions in a rule set are known to the engine, whatever is sent.
  The book: `ResultsAddUp` is inductive over fills of any number: realized profit is the cash with what
  the positions cost, but for the rounding of the average price, half a unit a share at each purchase; it is
  carried along while all fills are purchases and sales (`Plain`).
  `Pricing` says that the rows a summary has taken are the positions themselves until a fill or a reset crosses it.
  Macro: `MacroInv` has the types of what is read between two awaits. Sorting candles by date is shown by
  rank, and that a sorted list without repetition holds every day once by a pigeonhole; `ReturnsAreDaily`
  then holds in whatever order the candles were stored. `DeskInv` joins the five invariants in `MCDesk`.

Assumptions on constants are few and are those the code justifies: low is not above high in a chart's
candles (`ChartAssumption`), signals of a series are finite in number with confidence up to 100 (`SignalAssumption`),
holding periods, windows and bins are positive (`ConfigAssumption`, `MacroAssumption`, `ClusterAssumption`), prices and
amounts are numbers of the sign the code demands before it computes (`InputAssumption`, `MultiAssetAssumption`);
where it demands none they are any integers (`BookAssumption`, `TradeAssumption`). TLC evaluates each of them on the runs.

Model-checked only: liveness. `StreamMovesOn`, `RunsEnd`, `TrainingsEnd`, `CallsSettle` and `LookupsEnd` need fairness
and `ENABLED`, which are out of the prover's reach. Every other property of a passing run is stated by a theorem
for all values of the constants; the five properties that the code violates are refuted by their runs.

## 5. Where the code differs from what one might expect

Besides the five findings, the models follow the code in these places. No run shows them; they were
seen when the definitions were written:

- A live parent that the broker has canceled keeps its legs open: a reconciliation writes the broker's
  status over the row (`omsEngine.js:345`) and touches no other order, while the header says that all open
  children are canceled (`omsEngine.js:33`). `CancelCascades` is checked and proved on paper.
- A response of the gateway that is cut in mid-body settles nothing (`IBGatewayClient.js:66`): the
  reconciliation that awaits it never answers, and neither does a placement or a cancel.
- No route checks an order's side, and no number is checked for its sign in the OMS (`omsRoutes.js:14`, `:111`). A
  side such as "short" is booked as a sale (`paperTradingEngine.js:40`), while the stop of short sales asks for "sell"
  (`riskGuard.js:9`, `riskChecker.js:128`, which counts it as a purchase): it gives a negative position, whose
  proceeds are no realized profit and whose average is 0, so that a summary's total is off by them. The equity curve
  takes such a fill for a sale, the value at risk for a purchase (`portfolioEngine.js`). An order whose price is no
  number is filled at 0, and one below 0 at that price (`paperTradingEngine.js:15`).
- Alert cycles that overlap report a crossing again: what a symbol showed is overwritten by the cycle that
  ends last (`AlertEngine.js:125`). A crash between record and mark (`AlertEngine.js:160`, `:168`) triggers the alert
  once more after the restart. An object that was replaced while overlapping cycles held it may trigger in each
  of them: the mark goes to the new one.
- Levels of a footprint and bins of a profile are rounded one by one (`footprintEngine.js:113-115`,
  `volumeProfileEngine.js:140`, `:152`): ten shares over a hundred levels, or bins, show no volume anywhere, and the
  value area's target, 70 percent of what is shown, is then 0. "at most MAX_LEVELS_PER_BAR levels"
  (`footprintEngine.js:51`) is one too few when the low lies off the grid.
- The reader of the prediction service crashes on a line that is JSON but no object while its process lives;
  `predict` only polls the process (`prediction_service.py:173`) and goes on writing to one that nobody reads, each call
  waiting out its timeout. Spawns that overlap may leave two readers on one process and none on the other,
  since a reader takes `self._process` when it comes to run (`:298`). The end of any reader fails the calls of
  every process and leaves their slots in `_pending`. A call that finds the pipe closed raises, keeps its
  slot and is counted as a request, never as an error.
- The temporal split leaves no gap between its parts (`train_pipeline.py:148`), so that the labels of the last
  training rows come from prices of validation; the card it writes says "split strict + gap = horizon" (`:492`).
  `EveryRowOnce` says how many rows may be concerned. The command line takes any ratios (`:608`).
- A cached tick is returned whatever its age, also to a caller with `live=1` (`feedManager.js:427`);
  `feedRoutes.js:85` advises that parameter "to request provider polling". After a tick of Yahoo the next
  rebuild of the status records calls Yahoo connected (`feedManager.js:168`).
- `betaMetrics` cuts its windows at the same positions from the oldest return (`multiAssetEngine.js:217`):
  with histories of unequal length the last beta pairs different days, while the correlation beside it
  pairs the latest; `BetaByDays` says which. Histories with gaps pair by position, whatever the days are,
  and are excepted from the properties by day. When a symbol has no closes,
  `slice(-0)` makes the benchmark's return that of all its history (`multiAssetEngine.js:382`).
- A risk limit called daily is compared with the profit since the last reset, and refuses orders
  that would close a position too.
- A live tick of the delta is told as the last bar of a chart, in whose place it is put; the volume
  profile applies the New York offset twice.
- A backtest trades `neutral` candidates long and, over a dataset, runs the last candidate whatever
  strategy is named (`backtestEngine.js:52-57`); validation judges the first stored result of a symbol;
  a walk-forward always runs over demo candles.
- `modelRegistry.promote` archives the champions of every symbol (`modelRegistry.js:97-103`), and
  the routes fall back to any champion there is.
- A calibrated artifact of an earlier training stays beside the models of a later one; workers load the
  uncalibrated model, though the card says that calibration is used.
- Inference through `aiRoutes.js:150` sends a payload that `ml/infer.py:63-71` refuses, so that it is
  never answered; the drift report compares columns that live records do not have.
- Groups of conditions are accepted and never evaluated; a missing value counts as 0 in a comparison
  of numbers; a session context, once cached, is never read again.
- When all providers of the list fail, `getLatestCandle` makes a demo candle and puts it, and its tick, into the
  caches though the demo is not selected (`feedManager.js:459-464`). Polygon, Alpha Vantage and the gateway have no
  `getCandles`: a replay passes over them without a failure on record (`:472`). A retry within the grace time after an
  empty or invalid answer is served the error that the cache holds. A series served from the cache of charts
  overwrites a newer streamed tick. What `stopFeed` writes into a status is undone by the next read of the status.
- A scenario whose second statement fails leaves an audit row without a scenario. A report drops ids that
  are not in the log without a word and counts one that is given twice twice; a report in mode `live`
  may bundle paper rows; a negative `limit` lists everything (`institutionalStore.js:86`). A
  confidence that is no number gives sizes of null, which are still recorded.
- The combined heatmap fetches each symbol twice (`multiAssetRoutes.js:151-154`), so that its two halves may be of
  different days. A day that ends between the fetches of two symbols shifts their returns against each other. `GET
  /correlation` without a dataset never calls the engine's matrix; only the heatmap does. A window that is no whole
  number (`multiAssetRoutes.js:15`) leaves the last return out of every rolling series.
- Candles of a symbol nobody asked for take the label of the dataset's position
  (`macroRoutes.js:378-381`); datasets that overlap give a day two candles and returns of zero.
- `ml/mlWorkerPool.js` and `ml/inferenceWorker.js` are started by nothing.

## 6. Not modelled

- Prices beyond a few levels, commissions, timestamps. Torn files and disk failures:
  an alert file cut short by a crash reads as no alerts (`AlertStore.js:41`), the dataset registry
  likewise. The summary rows of a reconciliation.
- The crash between a row and its event (`omsEngine.js:156`): a handler's writes are one step.
- Inference: a write to the stdin of a process that has just died (`pythonInference.js:424`) is lost
  here and leaves the call to its timer; in the code it may raise an error event without a handler.
  Crashes of a ready worker are not counted against the limit of restarts
  (`pythonInference.js:345`), as in the code; no property says so.
- Market stream: `shutdown` and `reconnect`, which nothing calls; alphaVantage's first poll; an
  adapter connects at startup only, so that a key saved later gives no ticks until a restart
  (`PolygonAdapter.js:36`), which is why `ServedByItsProvider` speaks of connected adapters.
- Feeds: order books, which only the demo makes, `debugYahoo` and `invalidateYahooCache`, which nothing
  calls; prices are free values to those who ask.
- Institutional: names, notes, formula texts, the details per position, listing. Multi-asset:
  `sectorRotation`, which nothing calls, source labels, roots and annual factors.
- Alerts: ids are counted, the mode is a field of the rule, one symbol in the run; the length of the
  history file follows that of the list (`AlertHistoryStore.js:49`).
- Strategy lab: notes, warnings, the order of lists. Training and Python side: features, fitting,
  calibration, metrics and drift, which are arithmetic over data frames.
- Signal detectors and analysis history: arithmetic in single synchronous
  calls. Replay, REST clients, bootstrap, observability: reads, formatting and wiring. Scripts: test
  drivers. Each is listed with status `not_modelled`.

## 7. Plan

Done in this order: OMS, execution with paper trading, inference, alerts, feeds and market
stream, datasets, training and the strategy lab; then backtests, charts, the Python prediction
service, registry and data, the AI services, portfolio, correlation and rules, lookups, the institutional toolkit and the
multi-asset analytics; proofs of OMS,
execution, feeds, routes, lookups, datasets, inference, trainings, the lab, the Python registry, service and data,
the AI services, backtests, the institutional toolkit, alerts, rules, the paper book, the macro routes, charts, the
multi-asset analytics, and of the composed modules. Next:

1. In `MarketStream`, two symbols.
2. In `Oms`, a crash between the row and the event; the atomicity hazard gets its property.
