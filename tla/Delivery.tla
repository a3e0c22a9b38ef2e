------------------------------ MODULE Delivery ------------------------------
(***************************************************************************)
(* From the consumer's process to the trades topic: the life of a process  *)
(* (ingest/src/consumer/__main__.py) with its publisher and its metrics,   *)
(* killed or shut down and started again by systemd, and the operator who  *)
(* runs the backfill script for the holes this leaves in the topic.        *)
(*                                                                         *)
(* The feed is the FIFO feed of Continuity without replays, and of Session *)
(* what counts here is when run() returns: some time after the signal, and *)
(* without handling another message.                                       *)
(***************************************************************************)
EXTENDS Publisher, Reporter, Backfill

CONSTANT MaxProcesses  \* bound: processes started

ASSUME DeliveryAssumption == MaxProcesses \in Nat \ {0}

VARIABLES
    phase,      \* main(): running, stopping, draining, exiting; or down
    processes,  \* processes started
    flusher,    \* flush_metrics_periodically: waiting or done
    wait        \* what is left of its timeout

processVars == <<phase, processes, flusher, wait>>
vars == <<publisherVars, reporterVars, made, backfillVars, processVars>>

\* The ids on the topic, and the trades it lacks between two that it has.
Topic == Range(live) \union backfilled
Holes == {h \in Topic \X Topic : h[1] + 1 < h[2] /\ Wanted(h[1], h[2]) \intersect Topic = {}}
InHoles == {t \in TradeIds \ Topic : \E a, b \in Topic : a < t /\ t < b}

Init ==
    /\ PublisherInit /\ ReporterInit /\ BackfillInit
    /\ made = 0
    /\ phase = "running" /\ processes = 1
    /\ flusher = "waiting" /\ wait = FlushInterval

-----------------------------------------------------------------------------
(* Trades, and time. *)

\* A trade is made and its match message handled: published and counted.
Trade ==
    /\ made < MaxTrade /\ phase = "running"
    /\ made' = made + 1
    /\ Publish(made')
    /\ Count
    /\ UNCHANGED <<backfillVars, processVars>>

\* A trade is made that no process hears of.
MissedTrade ==
    /\ made < MaxTrade
    /\ made' = made + 1
    /\ UNCHANGED <<publisherVars, reporterVars, backfillVars, processVars>>

\* A message that is counted and puts nothing on the trades topic.
OtherMessage ==
    /\ phase = "running"
    /\ Count
    /\ UNCHANGED <<publisherVars, made, backfillVars, processVars>>

StopSet == phase \in {"stopping", "draining"}
FlusherIsDue == phase # "down" /\ flusher = "waiting" /\ (wait = 0 \/ StopSet)

\* Once run() has returned main() goes to its end without waiting for time.
Tick ==
    /\ ~FlusherIsDue
    /\ phase \in {"running", "stopping", "down"}
    /\ wait' = IF wait > 0 THEN wait - 1 ELSE 0
    /\ AgeByATick
    /\ UNCHANGED <<publisherVars, made, backfillVars, phase, processes, flusher>>

-----------------------------------------------------------------------------
(* The process. *)

\* Faults of the flusher: the first timeout ends it; the stop event does not.
FlusherDiesOfTimeout ==
    /\ FlusherIsDue
    /\ IF StopSet THEN Flush ELSE UNCHANGED reporterVars
    /\ flusher' = "done" /\ wait' = 0
    /\ UNCHANGED <<publisherVars, made, backfillVars, phase, processes>>
FlusherNeverEnds ==
    /\ FlusherIsDue
    /\ Flush
    /\ flusher' = flusher /\ wait' = FlushInterval
    /\ UNCHANGED <<publisherVars, made, backfillVars, phase, processes>>

\* flush_metrics_periodically, woken by its timeout or by the stop event.
FlusherWakes ==
    /\ FlusherIsDue
    /\ Flush
    /\ IF StopSet THEN flusher' = "done" /\ wait' = 0
                  ELSE flusher' = "waiting" /\ wait' = FlushInterval
    /\ UNCHANGED <<publisherVars, made, backfillVars, phase, processes>>

\* request_stop, on SIGTERM or SIGINT.
RequestStop ==
    /\ phase = "running"
    /\ phase' = "stopping"
    /\ UNCHANGED <<publisherVars, reporterVars, made, backfillVars, processes, flusher, wait>>

\* consumer.run() returns; unless an exception broke its loop it has counted a
\* reconnect.
RunReturns ==
    /\ phase = "stopping"
    /\ phase' = "draining"
    /\ Count \/ UNCHANGED reporterVars
    /\ UNCHANGED <<publisherVars, made, backfillVars, processes, flusher, wait>>

\* Fault: the last report is left to the flusher.
DrainWithoutReport ==
    /\ phase = "draining" /\ flusher = "done"
    /\ phase' = "exiting"
    /\ StopClient
    /\ UNCHANGED <<reporterVars, made, backfillVars, processes, flusher, wait>>

\* The end of main(): the flusher is awaited, the publisher and the metrics
\* flushed.
Drain ==
    /\ phase = "draining" /\ flusher = "done"
    /\ phase' = "exiting"
    /\ StopClient
    /\ Flush
    /\ UNCHANGED <<made, backfillVars, processes, flusher, wait>>

\* The process is gone, whatever its client still holds.
Gone ==
    /\ phase' = "down"
    /\ ClientIsGone
    /\ NewCounters
    /\ flusher' = "done" /\ wait' = 0
    /\ UNCHANGED <<made, backfillVars, processes>>

Exit == phase = "exiting" /\ Gone

\* A hard kill.
Kill == phase \notin {"exiting", "down"} /\ Gone

\* systemd: Restart=always.
Restart ==
    /\ phase = "down" /\ processes < MaxProcesses
    /\ processes' = processes + 1
    /\ phase' = "running"
    /\ flusher' = "waiting" /\ wait' = FlushInterval
    /\ UNCHANGED <<publisherVars, reporterVars, made, backfillVars>>

-----------------------------------------------------------------------------
\* The client's threads go on as long as the process does.
Client ==
    /\ phase # "down"
    /\ ClientStep
    /\ UNCHANGED <<reporterVars, made, backfillVars, processVars>>

\* The operator runs the script for a hole of the topic, unless all it lacks is
\* known to be unobtainable.
OperatorBackfills ==
    /\ \E h \in Holes : ~(Wanted(h[1], h[2]) \subseteq Withheld) /\ RunBackfill(h[1], h[2])
    /\ UNCHANGED <<publisherVars, reporterVars, made, processVars>>

ScriptSends == BackfillSends /\ UNCHANGED <<publisherVars, reporterVars, made, processVars>>
ScriptEnds == BackfillEnds /\ UNCHANGED <<publisherVars, reporterVars, made, processVars>>
ScriptRaises == BackfillRaises /\ UNCHANGED <<publisherVars, reporterVars, made, processVars>>

Next ==
    \/ Trade \/ MissedTrade \/ OtherMessage \/ Tick
    \/ FlusherWakes
    \/ RequestStop \/ RunReturns \/ Drain \/ Exit \/ Kill \/ Restart
    \/ Client
    \/ OperatorBackfills \/ ScriptSends \/ ScriptEnds \/ ScriptRaises

Spec == Init /\ [][Next]_vars

\* The event loop and the interpreter go on, and run() returns after the signal,
\* as it does where the feed is not silent (Session!StopIsHonoured).
ShutdownFairness == WF_vars(RunReturns \/ FlusherWakes \/ Drain \/ Exit)

\* The operator goes on running the script, and it does not die for ever before
\* it has sent anything.
BackfillFairness == WF_vars(OperatorBackfills) /\ SF_vars(ScriptSends) /\ WF_vars(ScriptEnds)

FairSpec == Spec /\ ShutdownFairness /\ BackfillFairness

-----------------------------------------------------------------------------
PublisherOK ==
    /\ inflight \in Seq(TradeIds) /\ due \in Seq(TradeIds) /\ live \in Seq(TradeIds)
    /\ failing \in BOOLEAN /\ paused \in BOOLEAN /\ stopped \in BOOLEAN
    /\ errors \in Nat /\ refused \in Nat /\ failures \in 0..MaxFailures
    /\ paused => inflight = << >>

ReporterOK ==
    stale \in NothingNew..Horizon /\ age \in 0..MinWriteInterval /\ failed \in BOOLEAN

BackfillOK ==
    /\ made \in 0..MaxTrade
    /\ script \in [state : {"idle", "publishing", "complete", "warned", "raised"},
                   wanted : SUBSET TradeIds, missing : SUBSET TradeIds,
                   pending : SUBSET TradeIds]
    /\ backfilled \subseteq TradeIds

ProcessOK ==
    /\ phase \in {"running", "stopping", "draining", "exiting", "down"}
    /\ processes \in 1..MaxProcesses
    /\ flusher \in {"waiting", "done"} /\ wait \in 0..FlushInterval

\* The shape of the state of each part; a paused key has nothing queued.
TypeOK == PublisherOK /\ ReporterOK /\ BackfillOK /\ ProcessOK

\* A failed batch costs at most one message beyond those queued behind it,
\* however its callbacks interleave with the pause and with publishing: the
\* refused publish itself resumes the key, and the stream goes on.  docs/runbook.md:241
\* has it otherwise: "One bad message stops that product's entire stream."
OneRefusalPerPause == refused <= 1

\* While Monitoring answers, no count of a running process is older than one
\* interval of the flusher, also after a restart in the middle of one.
ReportsKeepUp == phase = "running" /\ ~failed => stale <= FlushInterval

\* The flusher's last write and the final one may come so close that Monitoring
\* refuses the final one: what is lost is younger than the minimum interval.
LastReportLosesLittle == phase = "exiting" /\ ~failed => stale < MinWriteInterval

\* A script that ends without a warning has filled its range.
CompleteIsComplete == script.state = "complete" => script.wanted \subseteq Topic

\* A script that ends has put on the topic all of its range that the exchange
\* returns: the walk through the pages misses nothing at a page's edge.
BackfillFindsAll ==
    script.state \in {"complete", "warned"} => script.wanted \ Withheld \subseteq Topic

\* Publishing keeps the promise of an outbox: nothing handed over is lost
\* uncounted unless the process ends, and the topic keeps the order.
OutboxImpl == INSTANCE Outbox WITH
    waiting <- Range(due) \union Range(inflight),
    sent <- live

OutboxSpec == OutboxImpl!Spec

\* A signal is followed by the end of the process.
ShutdownEnds == phase = "stopping" ~> phase = "down"

\* What the topic lacks and the exchange can return is filled in the end.  The
\* first and the last trade are in no hole.
HolesHeal == \A t \in (2..(MaxTrade - 1)) \ Withheld : t \in InHoles ~> t \in Topic
=============================================================================
