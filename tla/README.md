# Verification of the crypto market platform

TLA+ models of the platform in `src/`, checked with TLC on small instances and,
where said, proved with TLAPS for every value of the constants. The code is the
reference: every definition that models code is tied to its lines in the `map`
of `PROJECT.json`.

## 1. The system and its components

```
exchange feed --ws--> WebSocketConsumer/MessageHandler --publish--> Pub/Sub topics
                        | ContinuityTracker  BookSet                   |        |
                        | counters -> MetricsReporter          lake (GCS)   raw.*_stream
                                                                              |
           Dataflow bars_1m_stream <-- trades topic          dbt: stg_trades -> fct_trades
                    \                                          -> fct_bars_1m -> 5m, 1h
                     `--> fct_stream_batch_recon <-------------'   stg_l2_events -> book state
                                                                    -> liquidity
```

| component (source) | state | operations | talks to | what is hard | what makes it correct |
|---|---|---|---|---|---|
| continuity tracker (`sequence.py`, match/heartbeat/disconnect handlers of `ws_client.py`) | last trade id per product; its counters and those of the metrics | `observe`, `reset_all`; `_handle_match`, `_handle_heartbeat`, `on_disconnect` | feed, publisher, metrics | lost, repeated, overtaking messages; reconnects | every lost trade is counted once, none is invented, everything received is published |
| order book (`book.py`, snapshot/l2update handlers) | bids, asks, ready | `apply_snapshot`, `apply_updates`, `quote`, `reset` | feed, publisher, metrics | deltas before a snapshot or across a reconnect, lost deltas | a ready book is the exchange's book; otherwise nothing is served |
| connection loop (`WebSocketConsumer`) | stop event, backoff, the watchdog task | `run`, `_consume`, `_watchdog`, `stop` | handler, asyncio, signals | two tasks and a signal interleaved at awaits; timers | stalls seen, clean reconnects, earned backoff, shutdown |
| publisher (`publisher.py`) | futures in flight, paused ordering keys, two counters | `publish`, `_on_done`, `flush` | Pub/Sub client's thread | failures and their callbacks in another thread | what was handed over is sent in order or counted as an error, unless the process ends; a failure stops no stream |
| metrics reporter (`metrics.py`) | counters, lag samples, last write | `record_*`, `flush` | Cloud Monitoring | writes refused as too close, or unanswered | no count stays unshown for longer than an interval |
| entry point and process (`__main__.py`, the VM's unit) | the stop event, the flusher task | `main`, `request_stop`, `flush_metrics_periodically`, the drain, restarts | all of the above, systemd | the final write after the flusher's last, kills with messages in flight | a signal ends the process; the last totals are shown |
| raw table (`pubsub/main.tf`) | rows with landing day, streaming buffer | delivery, commit | topics, dbt | at-least-once, late, unordered | - |
| tick tape and bars (dbt) | partitions of `fct_trades`, `fct_bars_1m`, 5m, 1h | `dbt build`, `--full-refresh`, tests as gates | raw table, Dagster | lookback windows, late data, skipped models, midnight, overlapping builds | one row per trade, builds lose nothing, marts agree |
| orchestration (`orchestration/`) | Dagster's runs | hourly job, freshness sensor | dbt, BigQuery | overlap, missed runs, run keys | builds eventually run |
| streaming bars (`bars_pipeline.py`) and `fct_stream_batch_recon` | panes | windows, late firings, append | trades topic, batch bars | watermark, redelivery, restarts | streaming never exceeds batch |
| book state and liquidity (`int_book_state_1m`, `fct_liquidity_1m`) | minute book states | rebuilt by dbt | `stg_l2_events` | two clocks, reconnects within a day | the book at a minute is the exchange's |
| backfill script (`backfill_trades.py`) | cursor, collected trades, futures | paging, publish, waiting | REST API, topic, an operator | page edges, partial answers, a script that dies half way | it fills what the exchange returns, and is silent only when all is filled |
| volatility and data-quality marts, schemas, infrastructure, CI | - | - | - | - | no state of their own: not modelled |

The hazards of this code, each at its line, are listed in `PROJECT.json`; the
properties below are aimed at them.

## 2. Modules

| module | models | abstract side |
|---|---|---|
| `Continuity` | the tracker, the two handlers that feed it, disconnect; the exchange's trades, drops, replays, heartbeats | - |
| `OrderBook` | one product's book and its handlers, against the exchange's book | implements `BookReplica` |
| `BookReplica` | the promise of a book consumer: serve books the exchange had, in order, skipping none, or nothing | - |
| `Session` | `run`, `_consume`, `_watchdog`, `stop`, the resets, in ticks of time | - |
| `Tape` | raw table, `stg_trades`, `fct_trades`, bars, roll-ups, builds and their gates | - |
| `Streaming` | the Beam job's windows and panes, run in bursts; the reconciliation with the batch bars | - |
| `Publisher` | `PubSubPublisher` for one topic and key, with the client's batches, failures, pause and callbacks | implements `Outbox` |
| `Outbox` | the promise of an ordered topic: sent in order, counted as an error, or waiting; forgotten only in a crash | - |
| `Reporter` | `MetricsReporter` and what Monitoring takes, in ticks of time | - |
| `Backfill` | one run of `backfill_trades.py` against the exchange's history | - |
| `Delivery` | the consumer's process (`__main__.py`, systemd) with `Publisher` and `Reporter`, and the operator with `Backfill` on the same topic | - |
| `ContinuityProofs`, `OrderBookProofs`, `SessionProofs`, `TapeProofs`, `StreamingProofs`, `DeliveryProofs`, `TopicProofs` | the theorems (section 5) | `OrderBookProofs` and `TopicProofs` prove the two refinements |
| `LeastNumber` | lemmas on least and greatest numbers, induction and recursion up to a number | - |
| `MC*` | instances for TLC | - |

**Continuity.** `last` is `ContinuityTracker._last` (`NoTrade` is `None`),
`tracker` and `metrics` are the two sets of counters, `tape` the ids published.
`Receive` is `MessageHandler.handle`: it runs `HandleMatch` or `HandleHeartbeat`
to their end, as the handler is synchronous. A message is its type and its id;
prices, lags and payloads are left out. `first`, `told`, `got` and `missed` are
history: what the session began with, was told of, received, and what it left
missing. `latest`, `wire`, `sent` and `replays` are the exchange and the socket.
`Overtaking` is the number of messages one message may overtake; 0 is a FIFO feed.

**OrderBook.** A book is two functions from prices to sizes. `Set`,
`ApplySnapshot`, `ApplyUpdates` and `Reset` are the methods of `book.py`;
`HandleUpdate` tests the crossing after the whole batch, as `_handle_l2update`
does by calling `quote()`. `Applying` and `Applied` are the loop of `apply_updates`
over a batch. The exchange keeps its own book with `Amend` (`Amending`, `Amended`),
written independently of `_set`. Changes may be lost at any time. `BookSet` keeps
products apart, so one product is modelled.

**Session.** An action is one task from an `await` to its next. `phase` is where
`run()` waits. `End` is the tail of the loop after `_consume` or a failed
connect: cancelling and awaiting the watchdog (whose exception surfaces there),
the `except` clause, `on_disconnect`, the counter, the sleep. A timer that is due
fires before time moves. A wait is any length in the jitter's range; `failures` is a
history of the attempts that ended since the last subscription. An `error`
message ends the session, because `log.error(..., extra={"message": ...})` raises
`KeyError`. The time the socket takes to close is not modelled.

**Tape.** A row is a trade and a copy number, in the order of `ingest_time`; a
bar is the set of trades it is computed from, so that a mart's partition is a
set of trades. `Visible` is the partition filter, `Staged` the dedupe,
`Materialized` insert_overwrite under `is_incremental()`, `TestsFail` a failed
test with what is below it skipped. The backfill script, replays and redelivery
are all `Land`. `Trade`, `Land`, `Commit` and `Midnight` interleave with the
steps of the builds, and those with each other: nothing in `orchestration/` keeps the
schedule (`sensors.py:39`), the sensor's run request (line 87) and an operator's
`dbt build` from overlapping, and `fct_trades.sql:20-21` says that they do. `step[b]`
is what build `b` does next; a model is one step, its query and the replacement of its
partitions together. That a replacement is atomic is what `fct_trades.sql:18-19` and
`docs/adr/0003` (lines 46-48) say of BigQuery; that nothing comes between the query
and the replacement is an assumption about the adapter, and if it kept the result of
a query in a temporary table first, an overlapping build could put an older
partition over a newer one. `TestBars` is the reconciliation
test, which also fails when another build has rewritten the tape meanwhile; the
contiguity test is part of the step before the bars. One product, since all is
partitioned by it. A hole within the
test's tolerance of 0.01% passes: at three trades a day any hole exceeds it,
and a day with a hole is a day that fails.

**Streaming.** A pane and a bar are the messages they are computed from. `Receive`
is one message through Read, Parse, Window and, if it fires, Build and Write;
`Advance` is the watermark, `Drain` the end of a burst, `StartJob` the next one
with pane indices from 0. The watermark may move whatever has not arrived: that is
what makes data late. Replayed trades are messages of their own. `table` is
`bars_1m_stream` in the order of `written_at`. `BuildBars` is a build of `Tape` that
gets as far as the bars: each trade once, and only of windows that are still in the
lookback, from `edge` on. Builds that fail, or do not run, are builds that do not happen,
and `LookbackMovesOn` may overtake any trade. A full refresh is left to `Tape`. The
reconciliation reads two tables and changes nothing else, so it is the operator
`Reason`, and the properties hold whenever a build runs it.

**Delivery** extends `Publisher`, `Reporter` and `Backfill` and makes one system of them.

*The publisher.* `inflight` and `due` are in the client: messages neither sent nor
failed, and failed messages whose `_on_done` has yet to run. `errors` is
`errors_total`; `live` is the topic. The client is external and modelled from what
the code relies on: a batch is acknowledged (`Send`) or fails (`Fail`, though it may
have reached the topic), and the failed key is paused in a step of its own (`Pause`),
so that callbacks run on either side of it. A publish on a paused key has its
callback run within `publish`, which is why that branch of `Publish` contains
`OnDone`. `resume_publish` raises on a key that is not paused and after `stop()`.
One topic and one key: topics and products share nothing but the counter. A batch
the client sends twice is left to the tape, which dedupes; `live` has it once.

*The reporter.* A write carries every counter and is taken or refused as a whole, so
the counters are one number: `stale`, the age of the oldest count not shown. `age` is
how long ago Monitoring took a write; it belongs to Monitoring and survives the
process. `_last_write_at` stays 0 in the code, so `Flush` never skips a write.

*The process.* `phase` is where `main()` is: in `run()`, in `run()` after the signal,
awaiting the flusher, at its end. `FlusherWakes` is one turn of
`flush_metrics_periodically`. After the signal no message is handled, as `_consume`
leaves its loop before the next one (`Session`). `Drain` is `publisher.flush()` and
the final `reporter.flush()`; `Exit` and `Kill` lose what the client has not sent,
the one because `stop()` does not wait. Before `Exit` the client's threads may do all,
some or none of their work.

*The script.* History does not change while it runs, so all its pages are one step;
`Collected` is the walk with its cursor, page by page. Publishing is a step per
trade, beside the live consumer. `Holes` are the pairs of ids an operator reads off
the table for `--after` and `--before`. `Withheld` is what the exchange's API lacks.

## 3. Runs

Bounds are constants of the modules and named there.

| run | asks | bounds |
|---|---|---|
| `Continuity` | On a FIFO feed: is the loss counter exact (`LossIsExact`), do the two ledgers agree (`TwoLedgersAgree`), is every loss noticed (`LossIsNoticed`)? | 1 product, 4 trades, 3 messages in flight, 1 replay, 2 connections |
| `ContinuityReordered` | On a reordering feed and two products: is a loss ever hidden (`LossNeverUnderstated`), is the baseline the highest id told (`BaselineIsHighestTold`), does it ever go back (`BaselineNeverRewinds`), do stragglers reach the tape (`ReceivedIsPublished`)? | 2 products (symmetric), 2 trades each, 2 in flight, overtaking 1 |
| `ContinuityFalseLoss` | violation of `CountedLossIsReal`, see findings | 1 product, 3 trades |
| `OrderBook` | Is a book that lost nothing the exchange's (`BookIsMarket`, and `ReplicaSpec`: it implements `BookReplica`), is an alarm ever false (`NoFalseAlarm`), is anything served without a snapshot (`UnusableBeforeSnapshot`)? | 2 prices, 2 sizes, batches of 2, one update in flight beside the snapshot, 1 loss per snapshot |
| `OrderBookDrift` | violation of `DriftIsNoticed` | 2 prices, 1 size |
| `Session` | Is a stall seen in time and only when real (`StallSeenInTime`, `StallIsReal`), does anything cross between connections (`CleanSlate`), is every wait as long as the attempts have earned, no longer and no shorter (`WaitIsEarned`), are reconnects counted (`ReconnectsAreCounted`), does shutdown end the loop (`StopIsHonoured`)? | timeout of 4 ticks, backoff 2, 4, 6 |
| `SessionStall` | violation of `StallForcesReconnect` | timeout of 2 ticks |
| `Tape` | With builds that overlap, fail and run over midnight: is a trade on the tape once (`OneRowPerTrade`), does an hourly build ever take one off or prefer a later copy (`TapeOnlyImproves`), is late data picked up (`LateIsNotLost`), is a mart ever ahead of the one above it (`NeverAhead`), and do the marts agree when the build that wrote the tape last has ended, also a build that crossed midnight, and until the tape is written again (`MartsAgree`)? | 3 trades, one of them in 2 copies, 2 raw rows, 3 days, lookback 1, 2 builds (symmetric) |
| `Streaming` | Is the last pane the job's whole answer (`FinalIsWhole`), is lateness blamed only for a missing trade (`LateIsLate`), can a sound pipeline be called BROKEN (`BrokenHasCause`), and does a false alarm end while builds still see its window (`FalseAlarmsHeal`)? | 3 windows, 4 trades, 1 replay, 2 bursts, grace of 1 tick, 2 windows leave the lookback |
| `Delivery` | Does a failure cost more than one further message (`OneRefusalPerPause`), is anything lost uncounted or out of order (`OutboxSpec`: it implements `Outbox`), how old is a count that is not shown (`ReportsKeepUp`, `LastReportLosesLittle`), does the signal end the process (`ShutdownEnds`), does the script do what it says (`CompleteIsComplete`, `BackfillFindsAll`), and are holes filled (`HolesHeal`)? | 4 trades, 1 withheld, pages of 1, 1 failed batch, 2 processes, both intervals 2 ticks |
| `TapeReconcile` | violation of `BarsAccountForEveryTrade` | 3 trades, 3 rows, 3 days, 1 build at a time |
| `TapeRebuild` | violation of `RebuildKeepsTheTape` | 2 trades, 4 days, 1 build at a time |

Why the bounds are enough. A hole needs a trade before, one in it and one after:
three trades, and a fourth lets a heartbeat and a match see it in turn; the two trades
a product has in `ContinuityReordered` show losses between a match and a heartbeat
only, and a gap between two matches is left to `Continuity` and to the theorems. Two
connections show what survives a disconnect. Two prices can cross; two sizes
tell replacing a level from adding to it; batches of two cross on the way and
not at the end. The watchdog's nap of two ticks lets a heartbeat fall between
two looks; three backoffs show doubling and the cap. With a lookback of one day,
three days have a day inside, at the edge and outside of the window. Two builds show
every order of two replacements of one table; what more of them add is in the theorems,
which hold for any number. Two rows are both copies of one trade, or the first and the
last of three trades, with the hole between them that fails a test. The middle window of
`Streaming` has two trades, so that it can have a part of them, and neighbours, so
that it is neither the first nor the last; it and the first may leave the lookback, and
the batch is past both as soon as it has the third. In `Delivery`, four trades make a hole of
two, of which the API withholds one, so that both words of the script occur; pages of
one put every trade at a page's edge. One failed batch meets every order of its
callbacks, the pause, further publishes and `stop()`; a second would meet the same
client, resumed. Two processes show a restart between two writes; intervals of
equal length are the tightest the assumptions allow, and make Monitoring refuse a
final write. Bounded
counters appear only in guards of the environment; `Horizon` and `MaxFailures`
cap ages and failures at values from which nothing more changes: that so many
failures reach the cap of the backoff is part of `SessionAssumption`.

Every property of a passing run has a mutant of the code that breaks it
(`PROJECT.json`): the operators marked "Fault" beside the definition they mutate.

**Fairness.** `Continuity!Fairness`: the reader task keeps reading, and
up-to-date heartbeats keep coming, which is what the heartbeat channel is
subscribed for; they may compete with other messages for the wire, hence strong
fairness. The last connection of the bound stays open. `Session!TimerSpec`:
timers fire and an attempt to connect ends (asyncio and the client's opening
timeout see to that); `FairSpec` adds that an open socket is not silent for ever,
without which the code does not stop: the stop event wakes nobody.
`OrderBook!FairSpec` is used only for the drift run: the reader reads, and
updates keep arriving. `StopIsHonoured` and `LossIsNoticed` say nothing of feeds
that do not meet these assumptions.
`Streaming!FairSpec`: builds are scheduled, and a trade that was published is built if
its window stays in the lookback. One that lands late, or is skipped by failing builds,
for longer than the lookback is not, as `TapeReconcile` shows of the code: the lookback
may move on at any time and `FalseAlarmsHeal` promises nothing of windows it has left.
The job itself is under no fairness: bursts may be short or absent.
`Delivery!ShutdownFairness`: the event loop goes on, and `run()` returns after the
signal, which is `Session`'s `StopIsHonoured` and holds where the feed is not silent.
`BackfillFairness`: the operator goes on running the script while there is a hole it
could fill, as `docs/runbook.md` asks; it may die again and again, but not always before
it has sent anything (strong fairness of `ScriptSends`). The Pub/Sub client is under no
fairness, and no process need be restarted.
`Session` ends on shutdown, and `Streaming` after its last burst when every trade
has landed, so their runs do not check for deadlock; the others do.

## 4. Findings

1. **The watchdog does not force a reconnect** (`SessionStall`). Its exception
   stays in its own task until `_consume` ends, which a silent socket never does;
   `docs/runbook.md:226` says it forces one.
2. **A heartbeat can count a loss that did not happen** (`ContinuityFalseLoss`):
   when it overtakes its match, on the reordering feed the README describes.
   `docs/runbook.md:345`: "Both are real loss."
3. **A drifted book may never cross** (`OrderBookDrift`), against ADR 0007:77.
4. **Bars can fall behind the tape for good** (`TapeReconcile`): a failed
   contiguity test skips a day's bars until the day has left the window. Hourly builds
   do not come back to it and the reconciliation test fails in each of them; only a
   full refresh that still sees the day's rows puts it right.
5. **A full refresh takes trades off the tape** (`TapeRebuild`): staging reads the raw
   table's lookback window, never the lake (`docs/runbook.md:281-292`). In the run a
   build has put the trade on the tape before.

Met while modelling and not shown by a run of their own: logging an `error`
message raises; the watchdog never fires on a connection without a first
heartbeat; a subscribe resets the backoff even if the connection then fails at once.

Of a failed publish `docs/runbook.md:241` says "**One bad message stops that product's
entire stream.**", and lines 249-250 tie recovery to a restart ("recovery is automatic
once the cause is fixed and the process restarts"). The code does otherwise: `_on_done`
resumes the key after each failure (`publisher.py:75`), so that what is lost is the
failed batch, what was queued behind it and at most one publish more
(`OneRefusalPerPause`, which the code satisfies and the runbook's words do not), and
the same process goes on. Only a stream in which every message is bad, as after a
change of the schema, comes to what the runbook says, message by message.

Of publishing and reporting: `publisher.flush()` is the client's `stop()`, which does
not block (`publisher.py:78`: "Block until every queued message is sent"), so that even
a graceful exit can lose what is in flight; `Exit` is modelled so, and `OutboxSpec`
holds only because `Outbox` lets a process forget. `metrics.publish_errors_total` is
never incremented, although `docs/runbook.md:230` reads it: errors are counted in the
publisher, which nothing reports. `MetricsReporter._last_write_at` is never set, so the
guard at `metrics.py:102` skips nothing and a close write is refused by Monitoring
instead: `LastReportLosesLittle` bounds the damage. Lag samples are never cleared. The
write blocks the event loop (`metrics.py:137`), and with it the reader and the watchdog.

Of the sensor (`orchestration/sensors.py`): a run key names only the staleness in
minutes, so a value that has occurred starts no run again; and a backfill refreshes
`publish_time`, which hides a consumer that is dead.

`Streaming` shows three ways in which the reconciliation's
verdict is not what its comments say: a replayed trade makes streaming exceed batch
and is called "accumulating panes summed" (`fct_stream_batch_recon.sql:25-31`); a
trade that lands behind the batch's frontier makes a window BROKEN until a later
build, or for good if the lookback has passed it, the false alarm lines 84-87 mean to
avoid; a window that two bursts share is
partial for both, and only the first and last windows of all bursts together are
excused, so it is called `late_data_dropped` (lines 79-83). `Split`, `Doubled` and
`Ahead` in its properties are these cases. They are in the hazards.

## 5. Proofs

All theorems hold for every value of the constants under the modules' named
assumptions: finite sets and natural bounds; positive timeout and backoff; a count of
failures that reaches the backoff's cap (`SessionAssumption`, a bound and no fact of the
code); trades made in order (`StreamingAssumption`); a `NoBook` that is no book. They
are stated over `Spec`, without fairness. Every safety invariant and action property
that a run checks is a theorem, and so are both refinements.

`LeastNumber` derives, from the well-foundedness of the natural numbers, that sets of
them have least and bounded sets greatest elements. An induction is then the absence
of a least counterexample (`Induct`), and a function defined by recursion up to a
number exists (`Recursion`). Both speak of sets and functions and take no operator as a
parameter, which makes facts about batches, pages and panes of any length provable.

`ContinuityProofs`
- `TypeCorrect`: `TypeOK` is inductive by itself.
- `BaselineCorrect`, `BaselineMonotone`, `LedgersAgree`, `ReceivedReachTheTape`:
  from `SessionFacts`, which ties the baseline to the history of the session (the
  baseline is the highest id told, it exists exactly when the session had a first
  match, and past sessions have smaller numbers than the open one).
- `NoHiddenLoss` (any feed): the set of missing trades is a union of tagged
  intervals; a message enlarges it by at most the interval it skips, which is
  what the counter is raised by. `LossCovered` carries along that the set is
  finite, which cardinalities need.
- `LossExact` (`Overtaking = 0`): also needs that the set grows by exactly that
  interval, so that no trade at or below the baseline arrives later. This is what
  `FeedInOrder` says of the wire, and why `InOrderInv` is the conjunction
  of the type, `SessionFacts`, `FeedInOrder` and the count.

`SessionProofs`
- `SessionInv` adds to the properties that `last` is the age of this connection's
  own heartbeat (`BeatIsHeard`) and that a sleeping watchdog wakes before the age
  passes timeout and nap (`WakesInTime`); `StallSeenInTime` is not inductive
  without the remaining nap. From it `SessionTypeCorrect`, `NothingCrosses`,
  `ReconnectCounted`, `WatchdogInTime`, and the action property `WatchdogRight`.
- `WaitsAreEarned`: `BackoffEarned` says exactly what the backoff is in each phase. While
  an attempt is under way it is what one more attempt that ends would earn, and
  `WaitDoubles` is the step from one wait to the next, up to the cap; `Growth` doubles as
  it says by `Recursion`. The bounds are on both sides: a loop that never backs off,
  or never starts afresh, does not satisfy it.

`OrderBookProofs`
- `BookInv`: the type, that a connection has one snapshot (`SnapshotOnce`), that no book
  of the exchange is crossed, and `Chain`. The last is what makes it inductive: as
  long as nothing was lost, each message in flight that will find a book leads from the
  book before it to the exchange's book when it was sent, and the last of these is the
  market's.
- A batch applied by `_set` is a batch of the exchange's changes (`SetSets`,
  `ChangeIsAmendment`, `BatchIsAmendment`, the last by induction over the batch).
- `BookTypeCorrect`, `QuotesAreWithheld`, `AlarmMeansLoss` (a book that lost nothing is
  one the exchange had, and those are not crossed), `BookFollowsMarket` (the chain,
  followed to its end by induction over the messages).
- `BookIsReplica`: `Update` moves the truth; a lost change and a disconnect withdraw the
  promise; a snapshot received loads, an update received follows; the other steps
  leave the replica alone.

`TapeProofs`
- `TapeInv` adds to the properties that a row never lands before its trade was made
  (`DaysInOrder`), that what is on the tape has landed (`TapeHasLanded`), and that the
  build which wrote the tape last has the bars of the tape from its bars to its end
  (`WriterHasBars`). The first is what makes insert_overwrite safe: every row of a
  partition inside the window landed inside it, and is still visible when the
  partition is replaced. The last is what overlapping builds leave of a build's work:
  whichever build writes bars, it writes them from the same tape, until the tape is
  written again and that build is no longer the last writer.
- `TapeTypeCorrect`, `TradeOnTapeOnce`, `LateDataKept`, `MartsNeverAhead`,
  `LastWriterAgrees`, and the action property `HourlyBuildsImprove`, for any number of
  builds at a time.

`StreamingProofs`
- All steps of a running job are of one kind: messages are taken and windows fire.
  `StreamInv` says that panes hold part of what their job took, that a job's panes are
  numbered as they are written, that an open window has no pane, and that the last pane
  of a closed one is whole. Without the order of the numbers nothing relates the pane
  the reconciliation picks to the one written last.
- `StreamingTypeCorrect`, `LastPaneIsFinal`, `LatenessIsReal`, `BrokenIsExplained`: the
  last two are the reconciliation's verdicts, case by case.

`DeliveryProofs`
- `DeliveryInv` is the conjunction of `TypeOK` and one group of facts per part; a step
  is first reduced to what it does to a part (`PublisherMoves`, and the lemmas
  `PublisherStep`, `ReporterStep`, `BackfillStep`), whose facts are then shown to be kept.
- `RefusalsBounded`: a refused publish resumes the key unless the client is stopped.
  The invariant adds that a stopped client belongs to a process that publishes no
  more, and that a key which is paused has refused nothing yet.
- `ReportsInTime`, `LastReportBounded`: neither bound is inductive without the
  flusher's timer. While the process runs the age of the oldest count and what is left
  of the timeout add up to at most an interval, the age of the last write and the
  timeout to at least the minimum interval, and what is not shown is not older than a
  write that would make Monitoring refuse the next.
- `BackfillHonest`: what the script wants is on the topic, pending or known to be
  missing, and the topic only grows.
- `DeliveryTypeCorrect`: with it, that a paused key has nothing queued.

`TopicProofs`
- `PublisherIsOutbox`: every step of `Delivery` is a step of `Outbox` or none. That the
  topic is in order needs `InOrder`: what is queued follows what was sent and what has
  failed, each is in order, and every trade to come follows all three.
- `BackfillComplete`: the walk of `Collected` exists and finds all that the exchange
  returns (`WalkExists`, `WalkFindsAll`, by a least cursor at which it would not), and a
  script at work has what it wants on the topic or ahead of it.

Only model-checked, as fairness and ENABLED are out of the prover's reach: the liveness
properties `LossIsNoticed`, `StopIsHonoured`, `FalseAlarmsHeal`, `ShutdownEnds` and
`HolesHeal`. The violated properties of section 4 are refuted by their runs.

## 6. Plan

In the order of importance; all but 7 are done.

1. `Continuity` with proofs. 2. `OrderBook` implementing `BookReplica`, with proofs.
3. `Session` with proofs. 4. `Tape` with proofs.
5. `Delivery`: publisher, reporter, process and backfill script, implementing
   `Outbox`, with proofs.
6. `Streaming`: windows, watermark, accumulating panes, replays and restarts against
   the batch bars.
7. Book state: the batch reconstruction of `int_book_state_1m` against the
   exchange's book of `OrderBook`, as operators on a sequence of events, and the
   overwrite of a day by `fct_liquidity_1m`.
8. Proofs of every safety property and both refinements: done. With 7, the
   reconstruction of a minute's book as a fold over events, by the lemmas on batches
   of `OrderBookProofs`.

## 7. Not modelled

- Book state and liquidity (`int_book_state_1m`, `fct_liquidity_1m`): SQL over whole
  tables of level 2 events with two clocks. It can be modelled, and section 6 plans it;
  the two hazards without a property there wait for it.
- Payloads, number formats and timestamps of messages; prices, volumes and VWAP of bars;
  the readers of a book (`quote`'s value, `depth_within_bps`).
- Lag samples and their percentiles, which nothing else depends on; the time a blocking
  write takes within one step of the event loop.
- The sensor's query and Dagster's deduplication of run keys: builds in `Tape` may start
  at any time, also while others run, or not at all, which includes whatever the sensor
  does. What the adapter does between a model's query and its replacement (section 2).
- `RecordingPublisher` (a test double) and the dry run of the script.
- The volatility and data-quality marts and the other data tests: formulas over a
  finished tape. Schemas, Terraform beyond what starts and restarts the consumer and the
  trades sink, CI and tests.
