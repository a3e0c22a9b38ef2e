------------------------------ MODULE Streaming ------------------------------
(***************************************************************************)
(* The streaming bars and their reconciliation with the batch bars:        *)
(* streaming/bars_pipeline.py, run by Beam in bursts, and                  *)
(* transform/models/marts/fct_stream_batch_recon.sql.                      *)
(*                                                                         *)
(* Both sides read the same topic, each through a subscription of its own, *)
(* so a trade arrives at each late, in any order, or not at all; a trade   *)
(* the exchange replays is a message of its own.  The batch side drops     *)
(* duplicates and the stream does not; the stream drops what is too late   *)
(* and the batch side does not.                                            *)
(*                                                                         *)
(* One product.  A bar is represented by the messages it is computed from. *)
(***************************************************************************)
EXTENDS Integers, Sequences, FiniteSets, FiniteSetsExt

CONSTANTS
    Made,         \* the trades of the exchange: the window of each, by trade_id
    Replayed,     \* bound: the trades the exchange replays, once each
    WindowTicks,  \* FixedWindows(60), in ticks of the watermark
    Lateness,     \* allowed_lateness, in ticks
    MaxJobs,      \* bound: bursts the job is run in
    MaxEdge       \* bound: windows that leave the lookback, the earliest first

Trades == DOMAIN Made
Windows == {Made[t] : t \in Trades}
Messages == [trade : Trades, copy : {"live"}] \union [trade : Replayed, copy : {"replay"}]
Jobs == 1..MaxJobs

WindowOf(m) == Made[m.trade]
End(w) == (w + 1) * WindowTicks
Horizon == End(Max(Windows)) + Lateness  \* bound: nothing changes after it

ASSUME StreamingAssumption ==
    /\ Made \in Seq(Nat) /\ Made # << >>
    /\ \A t \in 1..(Len(Made) - 1) : Made[t] <= Made[t + 1]
    /\ WindowTicks \in Nat /\ WindowTicks > 0 /\ Lateness \in Nat
    /\ Replayed \subseteq DOMAIN Made /\ MaxJobs \in Nat /\ MaxEdge \in Nat

VARIABLES
    running,    \* a job is running
    jobs,       \* jobs started
    watermark,  \* the running job's watermark
    accepted,   \* the messages each job took into its windows
    dropped,    \* the messages that came too late
    fired,      \* the panes the running job fired, per window
    table,      \* curated.bars_1m_stream: per window, in the order of written_at
    bars,       \* fct_bars_1m: per window, the trades of its bar
    edge        \* the first window that the lookback of a build still reaches

streamVars == <<running, jobs, watermark, accepted, dropped, fired, table>>
batchVars == <<bars, edge>>
vars == <<streamVars, batchVars>>

Init ==
    /\ running = FALSE /\ jobs = 0 /\ watermark = 0
    /\ accepted = [j \in Jobs |-> {}]
    /\ dropped = {}
    /\ fired = [w \in Windows |-> 0]
    /\ table = [w \in Windows |-> << >>]
    /\ bars = [w \in Windows |-> {}]
    /\ edge = 0

-----------------------------------------------------------------------------
(* The streaming job. *)

Read == dropped \union UNION {accepted[j] : j \in Jobs}

\* What a job has taken into a window; accumulating, a firing discards nothing.
Held(j, w) == {m \in accepted[j] : WindowOf(m) = w}

StartJob ==
    /\ ~running
    /\ jobs < MaxJobs
    /\ running' = TRUE
    /\ jobs' = jobs + 1
    /\ watermark' = 0
    /\ fired' = [w \in Windows |-> 0]
    /\ UNCHANGED <<accepted, dropped, table, batchVars>>

\* What the running job holds of each window after the step.
NowHeld == [w \in Windows |-> {m \in accepted'[jobs] : WindowOf(m) = w}]

\* Each window of ws restates itself in a further pane.
Restate(ws, pane) ==
    /\ table' = [w \in Windows |->
          IF w \in ws
          THEN Append(table[w], [job |-> jobs, index |-> fired[w], of |-> pane[w]])
          ELSE table[w]]
    /\ fired' = [w \in Windows |-> IF w \in ws THEN fired[w] + 1 ELSE fired[w]]

\* Faults of a firing: an empty window has a pane too; a pane holds only what is
\* new since the pane before (discarding mode).
FireEmpty(ws) == Restate(ws, NowHeld)

FireDiscarding(ws) ==
    LET new == [w \in Windows |->
                   IF fired[w] = 0 THEN NowHeld[w] ELSE NowHeld[w] \ Held(jobs, w)]
    IN  Restate({w \in ws : NowHeld[w] # {}}, new)

\* The windows of ws that hold anything fire.
Fire(ws) == Restate({w \in ws : NowHeld[w] # {}}, NowHeld)

Accept(m) ==
    /\ accepted' = [accepted EXCEPT ![jobs] = @ \union {m}]
    /\ UNCHANGED dropped

\* A message reaches the job: before its window's end it is held; up to the
\* allowed lateness after it the window fires again; later it is dropped.
Receive(m) ==
    /\ running
    /\ m \notin Read
    /\ LET w == WindowOf(m)
       IN  \/ /\ watermark < End(w)
              /\ Accept(m)
              /\ UNCHANGED <<table, fired>>
           \/ /\ End(w) <= watermark /\ watermark < End(w) + Lateness
              /\ Accept(m)
              /\ Fire({w})
           \/ /\ End(w) + Lateness <= watermark
              /\ dropped' = dropped \union {m}
              /\ UNCHANGED <<accepted, table, fired>>
    /\ UNCHANGED <<running, jobs, watermark, batchVars>>

\* The watermark passes the end of a window: its on-time pane.
Advance ==
    /\ running
    /\ watermark < Horizon
    /\ watermark' = watermark + 1
    /\ UNCHANGED <<accepted, dropped>>
    /\ Fire({w \in Windows : End(w) = watermark + 1})
    /\ UNCHANGED <<running, jobs, batchVars>>

\* The burst ends: the job is drained, the windows still open fire.
Drain ==
    /\ running
    /\ running' = FALSE
    /\ UNCHANGED <<accepted, dropped>>
    /\ Fire({w \in Windows : watermark < End(w)})
    /\ UNCHANGED <<jobs, watermark, batchVars>>

-----------------------------------------------------------------------------
(* The batch side, as far as the bars go: Tape has the builds in detail. *)

\* Fault: windows that have a bar are left as they are.
WithLandedOnce(new) ==
    [w \in Windows |-> IF bars[w] # {} THEN bars[w] ELSE {t \in new : Made[t] = w}]

WithLanded(new) == [w \in Windows |-> bars[w] \union {t \in new : Made[t] = w}]

\* A build that gets as far as the bars.  The trades `new` are those it has and the
\* bars do not; it looks no further back than the lookback, so that a trade which is
\* late, or skipped by builds that fail, for longer than that is never among them.
BuildBars(new) ==
    /\ new # {}
    /\ \A t \in new : t \notin bars[Made[t]] /\ Made[t] >= edge
    /\ bars' = WithLanded(new)
    /\ UNCHANGED <<streamVars, edge>>

\* Time goes on, and a window leaves the lookback.
LookbackMovesOn ==
    /\ edge < MaxEdge
    /\ edge' = edge + 1
    /\ UNCHANGED <<streamVars, bars>>

-----------------------------------------------------------------------------
(* fct_stream_batch_recon: it reads two tables and may be built in any state. *)

\* Fault: the first pane is taken.
FinalIsFirst(w) == IF table[w] = << >> THEN {} ELSE table[w][1].of

\* streaming_final: by pane_index, and written_at among equals, the last.
Final(w) ==
    IF table[w] = << >> THEN {}
    ELSE LET last == CHOOSE i \in DOMAIN table[w] : \A k \in DOMAIN table[w] :
                        \/ table[w][k].index < table[w][i].index
                        \/ table[w][k].index = table[w][i].index /\ k <= i
         IN  table[w][last].of

\* Fault: the panes of a window are summed.
StreamCountSummed(w) ==
    Cardinality({p \in (DOMAIN table[w]) \X Messages : p[2] \in table[w][p[1]].of})

StreamCount(w) == Cardinality(Final(w))
BatchCount(w) == Cardinality(bars[w])

Streamed == {w \in Windows : table[w] # << >>}
Built == {w \in Windows : bars[w] # {}}

\* Null, and so never true, when nothing is built.
AtBatchFrontier(w) == Built # {} /\ w >= Max(Built)

\* divergence_reason: the first that applies.
Reason(w) ==
    IF w \notin Streamed /\ w \notin Built THEN "none"
    ELSE IF w \notin Streamed THEN "outside_run_window"
    ELSE IF w \notin Built THEN
        IF AtBatchFrontier(w) THEN "batch_not_yet_built" ELSE "missing_from_batch"
    ELSE IF StreamCount(w) < BatchCount(w) THEN
        IF w = Min(Streamed) THEN "partial_window_at_startup"
        ELSE IF w = Max(Streamed) THEN "partial_window_at_shutdown"
        ELSE "late_data_dropped"
    ELSE IF StreamCount(w) > BatchCount(w) THEN
        IF AtBatchFrontier(w) THEN "batch_not_yet_built" ELSE "over_count"
    ELSE "agree"

-----------------------------------------------------------------------------
Next ==
    \/ StartJob \/ Advance \/ Drain
    \/ \E m \in Messages : Receive(m)
    \/ \E new \in SUBSET Trades : BuildBars(new)
    \/ LookbackMovesOn

Spec == Init /\ [][Next]_vars

\* Builds are scheduled, and a trade that was published, as those the job has read
\* were, is built, alone or with others, or else its window leaves the lookback.
Published == {m.trade : m \in Read}
FairSpec == Spec /\ \A t \in Trades : WF_vars(t \in Published /\ BuildBars({t}))

-----------------------------------------------------------------------------
(* Properties. *)

\* The shape of the state; a pane is of its window and never empty.
TypeOK ==
    /\ running \in BOOLEAN
    /\ jobs \in 0..MaxJobs
    /\ watermark \in 0..Horizon
    /\ accepted \in [Jobs -> SUBSET Messages]
    /\ dropped \subseteq Messages
    /\ fired \in [Windows -> Nat]
    /\ DOMAIN table = Windows
    /\ \A w \in Windows : \A i \in DOMAIN table[w] :
        /\ table[w][i].job \in Jobs /\ table[w][i].index \in Nat
        /\ table[w][i].of # {} /\ table[w][i].of \subseteq Messages
        /\ \A m \in table[w][i].of : WindowOf(m) = w
    /\ bars \in [Windows -> SUBSET Trades]
    /\ edge \in 0..MaxEdge

\* A window two jobs took messages for: neither has seen all of it.
Split(w) == \E i, j \in Jobs : i # j /\ Held(i, w) # {} /\ Held(j, w) # {}
Taken(w) == UNION {Held(j, w) : j \in Jobs}

\* The last pane is the final answer: once a window has closed it holds every
\* message the job took, however often and late the window was restated.
FinalIsWhole ==
    \A w \in Windows :
        (~running \/ End(w) <= watermark) /\ ~Split(w) => Final(w) = Taken(w)

\* What is put down to lateness is: of a window that one job saw, a trade the
\* batch has was dropped, or has not arrived behind the watermark yet.
LateIsLate ==
    \A w \in Windows :
        Reason(w) = "late_data_dropped" /\ ~Split(w) =>
            \E t \in bars[w] : \A m \in Taken(w) : m.trade # t

Broken(w) == Reason(w) \in {"over_count", "missing_from_batch"}
Doubled(w) == \E m, n \in Taken(w) : m # n /\ m.trade = n.trade
Ahead(w) == \E m \in Taken(w) : m.trade \notin bars[w]

\* A verdict of BROKEN has one of two causes, and summed panes are neither: a
\* replayed trade, or a trade that was not yet in the batch.
BrokenHasCause ==
    \A w \in Windows : Broken(w) => Doubled(w) \/ Ahead(w)

\* A verdict of BROKEN that is only the batch's delay does not stay while builds
\* can still see the window: in the end the windows so called are windows with a
\* replayed trade, and windows the lookback has left behind before the batch had
\* all that the job had.  Those are never rebuilt, and the alarm stays.
FalseAlarmsHeal ==
    \A w \in Windows : <>[](Broken(w) => Doubled(w) \/ (w < edge /\ Ahead(w)))
=============================================================================
