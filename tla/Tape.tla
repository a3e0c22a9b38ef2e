-------------------------------- MODULE Tape --------------------------------
(***************************************************************************)
(* The tick tape and what is built on it: raw.trades_stream,               *)
(* transform/models/staging/stg_trades.sql, fct_trades, fct_bars_1m, the   *)
(* roll-ups to 5m and 1h, and dbt builds of them, hourly or by hand.       *)
(*                                                                         *)
(* Trades are published once or more and land in the raw table at least    *)
(* once, late and in any order.  A build replaces the last partitions of   *)
(* each table with what the table above holds, and after each table runs   *)
(* its tests; tables below a failed test are skipped.  Nothing keeps a     *)
(* build from starting while another runs: the schedule, the sensor and an *)
(* operator each start one.  A table is replaced atomically, as the models *)
(* ask of BigQuery, and the steps of builds interleave between that.       *)
(*                                                                         *)
(* One product, as everything is partitioned by product.  A bar is         *)
(* represented by the trades it is computed from.                          *)
(***************************************************************************)
EXTENDS Integers, Sequences, FiniteSets, FiniteSetsExt

CONSTANTS
    MaxTrade,    \* bound: trades the exchange makes
    MaxCopies,   \* bound: copies of one trade that are published
    Republished, \* bound: the trades published more than once
    MaxRows,     \* bound: rows that land in the raw table
    LastDay,     \* bound: days are 0..LastDay
    Lookback,    \* var('lookback_days')
    Overnight,   \* a build may be running at midnight
    Builds       \* bound: the builds that may run at a time

Trades == 1..MaxTrade
Copies == 1..MaxCopies  \* in the order of their ingest_time
Days == 0..LastDay
Never == -1

ASSUME TapeAssumption ==
    /\ MaxTrade \in Nat /\ MaxCopies \in Nat /\ MaxRows \in Nat
    /\ LastDay \in Nat /\ Lookback \in Nat /\ Overnight \in BOOLEAN

VARIABLES
    today,      \* current_date()
    made,       \* the event_date of each trade, in the order of trade_id
    raw,        \* raw.trades_stream: its rows, with the day each landed
    buffer,     \* the rows still in the streaming buffer
    tape,       \* fct_trades: its partitions
    bars,       \* fct_bars_1m: its partitions
    rolled,     \* fct_bars_5m and fct_bars_1h: their partitions
    step,       \* what each build does next; idle when it does not run
    full,       \* the builds that are a full refresh
    builtOn,    \* history: days on which fct_trades was built
    writer,     \* history: the build that wrote fct_trades last, as a set
    ended,      \* history: the day on which that build ran to its end, or Never
    refreshed   \* history: a full refresh has replaced fct_trades

rawVars == <<raw, buffer>>
martVars == <<tape, bars, rolled>>
buildVars == <<step, full>>
historyVars == <<builtOn, writer, ended, refreshed>>
vars == <<today, made, rawVars, martVars, buildVars, historyVars>>

NoRows == [d \in Days |-> {}]

Init ==
    /\ today = 0
    /\ made = << >>
    /\ raw = {} /\ buffer = {}
    /\ tape = NoRows /\ bars = NoRows /\ rolled = NoRows
    /\ step = [b \in Builds |-> "idle"] /\ full = {}
    /\ builtOn = {} /\ writer = {} /\ ended = Never /\ refreshed = FALSE

-----------------------------------------------------------------------------
(* The feed and the raw table. *)

\* The exchange makes a trade.
Trade ==
    /\ Len(made) < MaxTrade
    /\ made' = Append(made, today)
    /\ UNCHANGED <<today, rawVars, martVars, buildVars, historyVars>>

\* A copy of a trade is delivered to the raw table, perhaps not for the first
\* time: published live, replayed after a reconnect, or backfilled.  A copy that
\* never lands was lost.  The row's partition is the day it lands; until it is
\* committed to it, its _PARTITIONTIME is NULL.
Land(t, c) ==
    /\ t <= Len(made)
    /\ t \in Republished \/ c = 1
    /\ Cardinality(raw) < MaxRows
    /\ LET row == [trade |-> t, copy |-> c, day |-> today]
       IN  /\ row \notin raw
           /\ raw' = raw \union {row}
           /\ buffer' = buffer \union {row}
    /\ UNCHANGED <<today, made, martVars, buildVars, historyVars>>

Commit ==
    /\ buffer # {}
    /\ buffer' = {}
    /\ UNCHANGED <<today, made, raw, martVars, buildVars, historyVars>>

Midnight ==
    /\ today < LastDay
    /\ Overnight \/ \A b \in Builds : step[b] = "idle"
    /\ today' = today + 1
    /\ UNCHANGED <<made, rawVars, martVars, buildVars, historyVars>>

-----------------------------------------------------------------------------
(* stg_trades *)

\* Faults of the partition filter: a day short; the streaming buffer left out.
VisibleADayShort == {r \in raw : r \in buffer \/ r.day > today - Lookback}
VisibleCommitted == {r \in raw \ buffer : r.day >= today - Lookback}

\* raw_partition_filter(): the rows of the last partitions and of the buffer.
Visible == {r \in raw : r \in buffer \/ r.day >= today - Lookback}

CopiesOf(t) == {r.copy : r \in {v \in Visible : v.trade = t}}

\* Faults of the dedupe: every copy is kept; the latest is.
StagedTwice == {[trade |-> r.trade, copy |-> r.copy] : r \in Visible}
StagedLatest == {[trade |-> r.trade, copy |-> Max(CopiesOf(r.trade))] : r \in Visible}

\* One row per trade_id, the earliest by ingest_time.
Staged == {[trade |-> r.trade, copy |-> Min(CopiesOf(r.trade))] : r \in Visible}

\* Fault: event_date is the day the row landed.
StagedByLanding ==
    [d \in Days |-> {[trade |-> r.trade, copy |-> r.copy] : r \in {v \in Visible : v.day = d}}]

\* The partitions by event_date, date(event_time).
StagedByDay == [d \in Days |-> {r \in Staged : made[r.trade] = d}]

-----------------------------------------------------------------------------
(* The marts. *)

TradesOf(rows) == {r.trade : r \in rows}

\* Fault: the run stops short of the first day of the window.
MaterializedADayShort(b, old, new) ==
    [d \in Days |->
        IF b \in full \/ (d > today - Lookback /\ new[d] # {}) THEN new[d] ELSE old[d]]

\* insert_overwrite: a run replaces the partitions of the lookback window that it
\* has rows for; a full refresh replaces the table.
Materialized(b, old, new) ==
    [d \in Days |->
        IF b \in full \/ (d >= today - Lookback /\ new[d] # {}) THEN new[d] ELSE old[d]]

Goto(b, next) == step' = [step EXCEPT ![b] = next]
Ends(b) == Goto(b, "idle") /\ full' = full \ {b}

\* `dbt build`, or `dbt build --full-refresh`.
Start(b) ==
    /\ step[b] = "idle"
    /\ Goto(b, "trades")
    /\ full' \in {full, full \union {b}}
    /\ UNCHANGED <<today, made, rawVars, martVars, historyVars>>

BuildTrades(b) ==
    /\ step[b] = "trades"
    /\ tape' = Materialized(b, tape, StagedByDay)
    /\ Goto(b, "bars")
    /\ builtOn' = builtOn \union {today}
    /\ writer' = {b} /\ ended' = Never
    /\ refreshed' = (refreshed \/ b \in full)
    /\ UNCHANGED <<today, made, rawVars, bars, rolled, full>>

\* assert_trade_ids_contiguous: a day before this one with trades missing
\* between its first and its last.
HasHole(d) ==
    LET ids == TradesOf(tape[d])
    IN  ids # {} /\ Cardinality(ids) < Max(ids) - Min(ids) + 1

ContiguityBroken == \E d \in Days : d < today /\ d >= today - Lookback /\ HasHole(d)

\* Fault: the day that is not over is left out.
TradesByDayNotToday == [d \in Days |-> IF d = today THEN {} ELSE TradesOf(tape[d])]

TradesByDay == [d \in Days |-> TradesOf(tape[d])]

\* A hole within the test's tolerance has passed it.
BuildBars(b) ==
    /\ step[b] = "bars"
    /\ bars' = Materialized(b, bars, TradesByDay)
    /\ Goto(b, "test bars")
    /\ UNCHANGED <<today, made, rawVars, tape, rolled, full, historyVars>>

\* assert_bar_volume_reconciles: every day of fct_trades against its bars.
Reconciled == bars = TradesByDay

TestBars(b) ==
    /\ step[b] = "test bars"
    /\ Reconciled
    /\ Goto(b, "rollups")
    /\ UNCHANGED <<today, made, rawVars, martVars, full, historyVars>>

\* Fault: the coarser bars are computed from the trades.
RollUpsFromTrades(b) ==
    /\ step[b] = "rollups"
    /\ rolled' = Materialized(b, rolled, TradesByDay)
    /\ Ends(b)
    /\ ended' = IF b \in writer THEN today ELSE ended
    /\ UNCHANGED <<today, made, rawVars, tape, bars, builtOn, writer, refreshed>>

\* roll_up_bars, from the bars and never from the trades.
BuildRollups(b) ==
    /\ step[b] = "rollups"
    /\ rolled' = Materialized(b, rolled, bars)
    /\ Ends(b)
    /\ ended' = IF b \in writer THEN today ELSE ended
    /\ UNCHANGED <<today, made, rawVars, tape, bars, builtOn, writer, refreshed>>

\* A test failed: what is below it is skipped.
TestsFail(b) ==
    /\ \/ step[b] = "bars" /\ ContiguityBroken
       \/ step[b] = "test bars" /\ ~Reconciled
    /\ Ends(b)
    /\ UNCHANGED <<today, made, rawVars, martVars, historyVars>>

BuildStep(b) ==
    \/ Start(b)
    \/ BuildTrades(b)
    \/ BuildBars(b)
    \/ TestBars(b)
    \/ BuildRollups(b)
    \/ TestsFail(b)

-----------------------------------------------------------------------------
Next ==
    \/ Trade
    \/ \E t \in Trades, c \in Copies : Land(t, c)
    \/ Commit
    \/ Midnight
    \/ \E b \in Builds : BuildStep(b)

Spec == Init /\ [][Next]_vars

-----------------------------------------------------------------------------
(* Properties. *)

Rows == [trade : Trades, copy : Copies]
Steps == {"idle", "trades", "bars", "test bars", "rollups"}

\* The shape of the tables, each row in the partition of its trade's day.
TypeOK ==
    /\ today \in Days
    /\ made \in Seq(Days) /\ Len(made) <= MaxTrade
    /\ raw \subseteq [trade : Trades, copy : Copies, day : Days]
    /\ buffer \subseteq raw
    /\ tape \in [Days -> SUBSET Rows]
    /\ {bars, rolled} \subseteq [Days -> SUBSET Trades]
    /\ step \in [Builds -> Steps]
    /\ full \subseteq Builds
    /\ refreshed \in BOOLEAN
    /\ builtOn \subseteq Days
    /\ writer \subseteq Builds
    /\ ended \in Days \union {Never}
    /\ \A d \in Days : \A r \in tape[d] : made[r.trade] = d

\* However often a trade was published and delivered, it is on the tape once.
OneRowPerTrade ==
    \A d, e \in Days : \A r \in tape[d], s \in tape[e] : r.trade = s.trade => r = s

\* An hourly build never takes a trade off the tape, and never puts a replayed
\* or backfilled copy in the place of an earlier one, whatever other builds do
\* meanwhile: the partitions it replaces are partitions whose every row it sees.
RefreshSteps == \E b \in full : step'[b] # step[b]
TapeOnlyImproves ==
    [][ ~RefreshSteps => \A d \in Days : \A r \in tape[d] :
            \E s \in tape'[d] : s.trade = r.trade /\ s.copy <= r.copy ]_vars

\* Late data within the window is picked up: a row that landed before a day on
\* which fct_trades was built, and that day was within lookback_days of the
\* trade, is on the tape.
LateIsNotLost ==
    ~refreshed =>
        \A r \in raw :
            (\E b \in builtOn : r.day < b /\ b <= made[r.trade] + Lookback)
                => r.trade \in TradesOf(tape[made[r.trade]])

\* Inside the window no coarse bar has a trade that the one-minute bars lack, and
\* no bar one that the tape lacks, however builds overlap, are cut short or run
\* over midnight: a mart may be behind the one above it and never ahead.
Window == {d \in Days : d >= today - Lookback}
NeverAhead ==
    \A d \in Window : rolled[d] \subseteq bars[d] /\ bars[d] \subseteq TradesOf(tape[d])

\* Once the build that wrote fct_trades last has run to its end, the three tables
\* are of one mind about every day that was then in the window, and stay so until
\* fct_trades is written again: builds that began earlier and run on, were cut
\* short, or saw another day do not undo it.
MartsAgree ==
    ended # Never =>
        \A d \in Days : d >= ended - Lookback =>
            bars[d] = TradesOf(tape[d]) /\ rolled[d] = bars[d]

\* What assert_bar_volume_reconciles says: whenever the bars have been built,
\* they account for every trade, exactly once.
BarsAccountForEveryTrade == \A b \in Builds : step[b] = "test bars" => Reconciled

\* What the runbook says of a rebuild: marts are a function of what was received,
\* so that a full refresh takes nothing off the tape.
RebuildKeepsTheTape ==
    [][ \A b \in full : step[b] = "trades" /\ step'[b] = "bars" =>
            \A d \in Days : TradesOf(tape[d]) \subseteq TradesOf(tape'[d]) ]_vars
=============================================================================
