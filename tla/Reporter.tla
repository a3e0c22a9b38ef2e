------------------------------ MODULE Reporter ------------------------------
(***************************************************************************)
(* MetricsReporter of ingest/src/consumer/metrics.py.  A write carries all *)
(* counters and Monitoring takes it or refuses it as a whole, so what      *)
(* matters of the counters is the age of the oldest count not yet shown.   *)
(* Time is counted in ticks.                                               *)
(***************************************************************************)
EXTENDS Integers

CONSTANTS
    FlushInterval,     \* METRICS_FLUSH_INTERVAL_S, in ticks
    MinWriteInterval   \* MIN_WRITE_INTERVAL_S: Monitoring refuses points closer

ASSUME ReporterAssumption ==
    /\ FlushInterval \in Nat /\ MinWriteInterval \in Nat
    /\ 0 < MinWriteInterval /\ MinWriteInterval <= FlushInterval

NothingNew == -1  \* every count is shown
Horizon == FlushInterval + 1  \* bound: ages of counts are told up to here

VARIABLES
    stale,   \* the age of the oldest count not shown, or NothingNew
    age,     \* Monitoring: ticks since it took a write, as far as it minds
    failed   \* history: a write of this process had no answer, and none was taken since

reporterVars == <<stale, age, failed>>

ReporterInit == stale = NothingNew /\ age = MinWriteInterval /\ failed = FALSE

\* A new process begins with Counters() and has nothing to show.
NewCounters == stale' = NothingNew /\ failed' = FALSE /\ UNCHANGED age

\* record_message and the other counters.
Count ==
    /\ stale' = IF stale = NothingNew THEN 0 ELSE stale
    /\ UNCHANGED <<age, failed>>

\* flush: Monitoring takes the write, refuses it as too soon, or does not
\* answer.  `_last_write_at` stays 0, so that none is skipped for being too
\* soon; one that fails is logged and forgotten.
Flush ==
    \/ /\ age >= MinWriteInterval
       /\ stale' = NothingNew /\ age' = 0 /\ failed' = FALSE
    \/ /\ age < MinWriteInterval
       /\ UNCHANGED reporterVars
    \/ failed' = TRUE /\ UNCHANGED <<stale, age>>

Older(a, limit) == IF a < limit THEN a + 1 ELSE a

AgeByATick ==
    /\ stale' = IF stale = NothingNew THEN NothingNew ELSE Older(stale, Horizon)
    /\ age' = Older(age, MinWriteInterval)
    /\ UNCHANGED failed
=============================================================================
