--------------------------- MODULE DeliveryProofs ---------------------------
(***************************************************************************)
(* Proofs about Delivery, for every number of trades, processes, failures, *)
(* page sizes and intervals: the shape of its state, what a failed publish *)
(* costs, how old an unreported count can get, and that the script which   *)
(* says it is done is done.  A step of the system is first reduced to what *)
(* it does to one part, and the part's invariant is proved from that.      *)
(***************************************************************************)
EXTENDS Delivery, SequenceTheorems, TLAPS

\* A client that is stopped belongs to a process about to exit, and a key that
\* is paused has refused nothing yet.
RefusalFacts ==
    /\ stopped => phase = "exiting"
    /\ paused => refused = 0
    /\ OneRefusalPerPause

\* The flusher's timer leaves room for the counts to age and for Monitoring to
\* take the next write; what is not shown is not older than the last write.
ReportFacts ==
    /\ phase = "running" => flusher = "waiting"
    /\ phase \in {"exiting", "down"} => flusher = "done"
    /\ phase = "running" /\ ~failed => stale + wait <= FlushInterval
    /\ phase = "running" => age + wait >= MinWriteInterval
    /\ age < MinWriteInterval => stale <= age
    /\ phase = "down" => stale = NothingNew
    /\ LastReportLosesLittle

\* What a script wants is on the topic, yet to be sent, or known to be missing.
BackfillFacts ==
    /\ script.state = "publishing" =>
          script.wanted \subseteq Topic \union script.pending \union script.missing
    /\ CompleteIsComplete

DeliveryInv == TypeOK /\ RefusalFacts /\ ReportFacts /\ BackfillFacts

-----------------------------------------------------------------------------
(* What a step does to each part. *)

\* A step publishes the next trade, stops the client, ends the process, is one
\* of the client's, or leaves the publisher alone.
LEMMA PublisherMoves ==
    ASSUME TypeOK, [Next]_vars
    PROVE  \/ made' \in TradeIds /\ Publish(made') /\ phase = "running" /\ phase' = phase
           \/ StopClient /\ phase' = "exiting"
           \/ ClientIsGone
           \/ ClientStep /\ phase' = phase
           \/ UNCHANGED publisherVars /\ (phase = "exiting" => phase' = phase)
<1>1. made \in 0..MaxTrade /\ MaxTrade \in Nat
  BY BackfillAssumption DEF TypeOK, BackfillOK
<1>2. CASE Trade
  BY <1>1, <1>2 DEF Trade, TradeIds, processVars
<1>3. CASE Drain
  BY <1>3 DEF Drain
<1>4. CASE Exit \/ Kill
  BY <1>4 DEF Exit, Kill, Gone
<1>5. CASE Client
  BY <1>5 DEF Client, processVars
<1>6. CASE MissedTrade \/ OtherMessage \/ Tick \/ FlusherWakes \/ UNCHANGED vars
  BY <1>6 DEF MissedTrade, OtherMessage, Tick, FlusherWakes, processVars, vars
<1>7. CASE RequestStop \/ RunReturns \/ Restart
  BY <1>7 DEF RequestStop, RunReturns, Restart
<1>8. CASE OperatorBackfills \/ ScriptSends \/ ScriptEnds \/ ScriptRaises
  BY <1>8 DEF OperatorBackfills, ScriptSends, ScriptEnds, ScriptRaises, processVars
<1> QED BY <1>2, <1>3, <1>4, <1>5, <1>6, <1>7, <1>8 DEF Next

-----------------------------------------------------------------------------
(* The publisher. *)

PublisherInv == PublisherOK /\ RefusalFacts

\* Appending to, cutting and joining sequences of trades gives sequences of trades.
LEMMA Cuts ==
    ASSUME NEW q \in Seq(TradeIds), NEW k \in 1..Len(q)
    PROVE  /\ SubSeq(q, 1, k) \in Seq(TradeIds)
           /\ SubSeq(q, k + 1, Len(q)) \in Seq(TradeIds)
  OBVIOUS

\* A publish adds to the queue of a key that is not paused, or is refused once.
LEMMA PublishKeeps ==
    ASSUME PublisherInv, NEW m \in TradeIds, Publish(m), phase = "running", phase' = phase
    PROVE  PublisherInv'
<1> USE DEF PublisherInv, PublisherOK, RefusalFacts, OneRefusalPerPause
<1>1. /\ failing' = failing /\ stopped' = stopped /\ UNCHANGED <<due, failures, live>>
      /\ paused' \in BOOLEAN /\ ~stopped
  BY DEF Publish, OnDone
<1>2. failing' \in BOOLEAN /\ stopped' \in BOOLEAN /\ ~stopped'
  BY <1>1
<1>3. CASE ~paused
  <2>1. ~paused' /\ inflight' = Append(inflight, m) /\ UNCHANGED <<errors, refused>>
    BY <1>3 DEF Publish
  <2> QED BY <1>1, <1>2, <2>1
<1>4. CASE paused
  <2>1. ~paused' /\ inflight' = inflight /\ errors' = errors + 1 /\ refused' = refused + 1
    BY <1>1, <1>4 DEF Publish, OnDone
  <2>2. refused = 0
    BY <1>4
  <2> QED BY <1>1, <1>2, <2>1, <2>2
<1> QED BY <1>3, <1>4

\* The client's threads move messages on, and pause a key only with a clean slate.
LEMMA ClientKeeps ==
    ASSUME PublisherInv, ClientStep, phase' = phase
    PROVE  PublisherInv'
<1> USE DEF PublisherInv, PublisherOK, RefusalFacts, OneRefusalPerPause
<1>1. ASSUME NEW k \in 1..Len(inflight), Send(k) PROVE PublisherInv'
  <2>1. ~paused
    BY <1>1
  <2> QED BY <1>1, <2>1, Cuts DEF Send
<1>2. ASSUME NEW k \in 1..Len(inflight), Fail(k) PROVE PublisherInv'
  <2>1. ~paused
    BY <1>2
  <2>2. failures' \in 0..MaxFailures
    BY <1>2, PublisherAssumption DEF Fail
  <2>3. ~paused' /\ failing' \in BOOLEAN /\ paused' \in BOOLEAN /\ stopped' \in BOOLEAN
        /\ (stopped' => phase' = "exiting")
    BY <1>2, <2>1 DEF Fail
  <2>4. /\ SubSeq(inflight, 1, k) \in Seq(TradeIds)
        /\ SubSeq(inflight, k + 1, Len(inflight)) \in Seq(TradeIds)
    BY <1>2, Cuts
  <2>5. inflight' \in Seq(TradeIds) /\ due' \in Seq(TradeIds) /\ live' \in Seq(TradeIds)
    <3>1. live' = live \/ live' = live \o SubSeq(inflight, 1, k)
      BY <1>2 DEF Fail
    <3>2. /\ inflight' = SubSeq(inflight, k + 1, Len(inflight))
          /\ due' = due \o SubSeq(inflight, 1, k)
      BY <1>2 DEF Fail
    <3>3. live \o SubSeq(inflight, 1, k) \in Seq(TradeIds)
      BY <2>4
    <3>4. due \o SubSeq(inflight, 1, k) \in Seq(TradeIds)
      BY <2>4
    <3> QED BY <2>4, <3>1, <3>2, <3>3, <3>4
  <2> QED BY <1>2, <2>2, <2>3, <2>5 DEF Fail
<1>3. ASSUME Pause PROVE PublisherInv'
  <2>1. /\ paused' /\ refused' = 0 /\ inflight' = << >>
        /\ failing' \in BOOLEAN /\ paused' \in BOOLEAN
        /\ stopped' \in BOOLEAN /\ (stopped' => phase' = "exiting")
    BY <1>3 DEF Pause
  <2>2. due' = due \o inflight /\ UNCHANGED <<errors, failures, live>>
    BY <1>3 DEF Pause
  <2> QED BY <2>1, <2>2
<1>4. ASSUME RunCallback PROVE PublisherInv'
  BY <1>4 DEF RunCallback, OnDone
<1> QED BY <1>1, <1>2, <1>3, <1>4 DEF ClientStep

LEMMA PublisherStep ==
    ASSUME TypeOK, RefusalFacts, [Next]_vars
    PROVE  PublisherInv'
<1>1. PublisherInv
  BY DEF TypeOK, PublisherInv
<1>2. CASE made' \in TradeIds /\ Publish(made') /\ phase = "running" /\ phase' = phase
  BY <1>1, <1>2, PublishKeeps
<1>3. CASE StopClient /\ phase' = "exiting"
  BY <1>1, <1>3 DEF StopClient, PublisherInv, PublisherOK, RefusalFacts, OneRefusalPerPause
<1>4. CASE ClientIsGone
  <2>1. /\ ~stopped' /\ ~paused'
        /\ failing' \in BOOLEAN /\ paused' \in BOOLEAN /\ stopped' \in BOOLEAN
    BY <1>4 DEF ClientIsGone
  <2>2. /\ inflight' = << >> /\ due' = << >> /\ errors' = 0 /\ refused' = 0
        /\ UNCHANGED <<failures, live>>
    BY <1>4 DEF ClientIsGone
  <2> QED BY <1>1, <2>1, <2>2 DEF PublisherInv, PublisherOK, RefusalFacts, OneRefusalPerPause
<1>5. CASE ClientStep /\ phase' = phase
  BY <1>1, <1>5, ClientKeeps
<1>6. CASE UNCHANGED publisherVars /\ (phase = "exiting" => phase' = phase)
  BY <1>1, <1>6 DEF publisherVars, clientVars, PublisherInv, PublisherOK, RefusalFacts, OneRefusalPerPause
<1> QED BY <1>2, <1>3, <1>4, <1>5, <1>6, PublisherMoves

-----------------------------------------------------------------------------
(* The reporter and the process. *)

ReporterInv == ReporterOK /\ ProcessOK /\ ReportFacts

\* A timer of c ticks or more, and an age: their sum is at least c.
LEMMA TimerIsLong ==
    ASSUME NEW a \in Int, NEW w \in Int, NEW c \in Int, a >= 0, w >= c
    PROVE  a + w >= c /\ w + a >= c
  OBVIOUS

\* A tick takes from the timer what it adds to an age.
LEMMA TickTrades ==
    ASSUME NEW a \in Int, NEW w \in Int, NEW b \in Int, NEW v \in Int, v = w - 1
    PROVE  b = a + 1 => b + v = a + w
  OBVIOUS

LEMMA TickTradesAtMost ==
    ASSUME NEW a \in Int, NEW w \in Int, NEW b \in Int, NEW c \in Int
    PROVE  b <= a + 1 /\ a + w <= c => b + (w - 1) <= c
  OBVIOUS

\* A count is as old as a tick allows, whether it is the oldest or not.
LEMMA CountKeeps ==
    ASSUME ReporterInv, Count, phase' \in {phase, "draining"}, phase \in {"running", "stopping"},
           wait' = wait, flusher' = flusher, processes' = processes
    PROVE  ReporterInv'
  BY ReporterAssumption DEF ReporterInv, ReporterOK, ProcessOK, ReportFacts,
     LastReportLosesLittle, Count, NothingNew, Horizon

LEMMA TickKeeps ==
    ASSUME ReporterInv, Tick
    PROVE  ReporterInv'
<1>1. /\ stale \in NothingNew..Horizon /\ age \in 0..MinWriteInterval
      /\ wait \in 0..FlushInterval /\ FlushInterval \in Nat /\ MinWriteInterval \in Nat
      /\ NothingNew = -1 /\ Horizon = FlushInterval + 1
  BY ReporterAssumption DEF ReporterInv, ReporterOK, ProcessOK, NothingNew, Horizon
<1>2. /\ stale' \in NothingNew..Horizon /\ age' \in 0..MinWriteInterval
      /\ stale' <= stale + 1 /\ (stale = NothingNew => stale' = NothingNew)
      /\ (age < MinWriteInterval => age' = age + 1) /\ age' >= age
  BY <1>1 DEF Tick, AgeByATick, Older
<1>3. /\ phase' = phase /\ phase \in {"running", "stopping", "down"}
      /\ flusher' = flusher /\ processes' = processes
  BY DEF Tick
<1>4. failed' \in BOOLEAN /\ (~failed' => ~failed)
  BY DEF Tick, AgeByATick, ReporterInv, ReporterOK
<1>5. wait' \in 0..FlushInterval
  BY <1>1 DEF Tick
<1>6. phase = "running" => wait > 0 /\ wait' = wait - 1
  BY <1>1 DEF Tick, FlusherIsDue, ReporterInv, ReportFacts
<1>7. phase' = "running" /\ ~failed' => stale' + wait' <= FlushInterval
  <2>1. SUFFICES ASSUME phase = "running", ~failed PROVE stale' + wait' <= FlushInterval
    BY <1>3, <1>4
  <2>2. stale + wait <= FlushInterval
    BY <2>1 DEF ReporterInv, ReportFacts
  <2>3. wait' = wait - 1
    BY <1>6, <2>1
  <2>4. /\ stale' \in Int /\ stale \in Int /\ wait \in Int /\ wait' \in Int
        /\ FlushInterval \in Int /\ stale' <= stale + 1
    BY <1>1, <1>2, <1>5
  <2>5. stale' + (wait - 1) <= FlushInterval
    BY <2>2, <2>4, TickTradesAtMost
  <2> QED BY <2>3, <2>5
<1>8. phase' = "running" => age' + wait' >= MinWriteInterval
  <2>1. SUFFICES ASSUME phase = "running" PROVE age' + wait' >= MinWriteInterval
    BY <1>3
  <2>2. age + wait >= MinWriteInterval
    BY <2>1 DEF ReporterInv, ReportFacts
  <2>3. wait' = wait - 1
    BY <1>6, <2>1
  <2>4. age' \in Int /\ age' >= 0 /\ age \in Int /\ wait \in Int /\ wait' \in Int
    BY <1>1, <1>2, <1>5
  <2>5. CASE age < MinWriteInterval
    <3>1. age' + wait' = age + wait
      BY <1>2, <2>3, <2>4, <2>5, TickTrades
    <3> QED BY <2>2, <3>1
  <2>6. CASE age >= MinWriteInterval
    <3>1. wait' >= 0 /\ age' >= MinWriteInterval /\ MinWriteInterval \in Int
      BY <1>1, <1>2, <1>5, <2>6
    <3> QED BY <2>4, <3>1, TimerIsLong
  <2> QED BY <1>1, <2>5, <2>6
<1>9. age' < MinWriteInterval => stale' <= age'
  <2>1. age < MinWriteInterval => stale <= age
    BY DEF ReporterInv, ReportFacts
  <2> QED BY <1>1, <1>2, <2>1
<1>10. ReporterOK' /\ ProcessOK'
  BY <1>1, <1>2, <1>3, <1>4, <1>5 DEF ReporterInv, ReporterOK, ProcessOK
<1> QED BY <1>2, <1>3, <1>7, <1>8, <1>9, <1>10 DEF ReporterInv, ReportFacts, LastReportLosesLittle

\* A write that is taken leaves nothing to show; one that is refused finds counts
\* no older than the last.
LEMMA FlushKeeps ==
    ASSUME ReporterInv, Flush
    PROVE  /\ ReporterOK'
           /\ age' < MinWriteInterval => stale' <= age'
           /\ ~failed' => stale' < MinWriteInterval
           /\ ~failed' => stale' = NothingNew \/ age < MinWriteInterval
           /\ age' \in {0, age}
<1> USE ReporterAssumption DEF ReporterInv, ReporterOK, ReportFacts, NothingNew, Horizon
<1>1. CASE age >= MinWriteInterval /\ stale' = NothingNew /\ age' = 0 /\ failed' = FALSE
  <2>1. failed' \in BOOLEAN
    BY <1>1
  <2> QED BY <1>1, <2>1
<1>2. CASE age < MinWriteInterval /\ UNCHANGED reporterVars
  <2>1. failed' \in BOOLEAN /\ stale' = stale /\ age' = age
    BY <1>2 DEF reporterVars
  <2> QED BY <1>2, <2>1
<1>3. CASE failed' = TRUE /\ UNCHANGED <<stale, age>>
  <2>1. failed' \in BOOLEAN /\ failed'
    BY <1>3
  <2> QED BY <1>3, <2>1
<1> QED BY <1>1, <1>2, <1>3 DEF Flush

LEMMA ReporterStep ==
    ASSUME ReporterInv, [Next]_vars
    PROVE  ReporterInv'
<1>1. CASE Trade \/ OtherMessage \/ (RunReturns /\ Count)
  BY <1>1, CountKeeps DEF Trade, OtherMessage, RunReturns, processVars
<1>2. CASE Tick
  BY <1>2, TickKeeps
<1>3. CASE FlusherWakes
  <2>1. /\ Flush /\ phase' = phase /\ phase # "down" /\ processes' = processes
        /\ flusher' \in {"waiting", "done"} /\ wait' \in {0, FlushInterval}
    BY <1>3 DEF FlusherWakes, FlusherIsDue
  <2>2. phase = "running" => wait = 0 /\ wait' = FlushInterval /\ flusher' = "waiting"
    BY <1>3 DEF FlusherWakes, FlusherIsDue, StopSet
  <2>3. age' < MinWriteInterval => stale' <= age'
    BY <2>1, FlushKeeps
  <2>4. ReporterOK' /\ ProcessOK'
    BY <2>1, FlushKeeps, ReporterAssumption DEF ReporterInv, ProcessOK
  <2>5. phase' = "running" /\ ~failed' => stale' + wait' <= FlushInterval
    <3>1. SUFFICES ASSUME phase = "running", ~failed' PROVE stale' + wait' <= FlushInterval
      BY <2>1
    <3>2. age >= MinWriteInterval
      BY <2>2, <3>1, ReporterAssumption DEF ReporterInv, ReporterOK, ReportFacts
    <3>3. stale' = NothingNew
      BY <2>1, <3>1, <3>2, FlushKeeps, ReporterAssumption DEF ReporterInv, ReporterOK
    <3> QED BY <2>2, <3>1, <3>3, ReporterAssumption DEF NothingNew
  <2>6. phase' = "running" => age' + wait' >= MinWriteInterval
    <3>1. SUFFICES ASSUME phase = "running" PROVE age' + wait' >= MinWriteInterval
      BY <2>1
    <3>2. wait' = FlushInterval /\ age' \in 0..MinWriteInterval
      BY <2>2, <2>4, <3>1 DEF ReporterOK
    <3>3. age' \in Int /\ age' >= 0 /\ wait' \in Int /\ MinWriteInterval \in Int
          /\ wait' >= MinWriteInterval
      BY <3>2, ReporterAssumption
    <3> QED BY <3>3, TimerIsLong
  <2>7. phase' # "exiting"
    <3>1. flusher = "waiting" /\ phase' = phase
      BY <1>3 DEF FlusherWakes, FlusherIsDue
    <3> QED BY <3>1 DEF ReporterInv, ReportFacts
  <2> QED BY <2>1, <2>2, <2>3, <2>4, <2>5, <2>6, <2>7 DEF ReporterInv, ReportFacts,
          LastReportLosesLittle
<1>4. CASE Drain
  <2>1. /\ Flush /\ phase' = "exiting" /\ processes' = processes
        /\ flusher' = flusher /\ wait' = wait
    BY <1>4 DEF Drain
  <2>2. flusher = "done"
    BY <1>4 DEF Drain
  <2>3. ReporterOK' /\ (age' < MinWriteInterval => stale' <= age')
        /\ (~failed' => stale' < MinWriteInterval)
    BY <2>1, FlushKeeps
  <2> QED BY <2>1, <2>2, <2>3 DEF ReporterInv, ProcessOK, ReportFacts, LastReportLosesLittle
<1>5. CASE Exit \/ Kill
  <2>1. Gone
    BY <1>5 DEF Exit, Kill
  <2>2. /\ phase' = "down" /\ flusher' = "done" /\ wait' = 0 /\ processes' = processes
        /\ stale' = NothingNew /\ age' = age
    BY <2>1 DEF Gone, NewCounters
  <2>3. failed' \in BOOLEAN
    BY <2>1 DEF Gone, NewCounters
  <2> QED BY <2>2, <2>3, ReporterAssumption DEF ReporterInv, ReporterOK, ProcessOK,
          ReportFacts, LastReportLosesLittle, NothingNew, Horizon
<1>6. CASE Restart
  <2>1. /\ phase' = "running" /\ flusher' = "waiting" /\ wait' = FlushInterval
        /\ processes' = processes + 1 /\ processes < MaxProcesses
        /\ stale' = stale /\ age' = age
    BY <1>6 DEF Restart, reporterVars
  <2>2. failed' \in BOOLEAN
    BY <1>6 DEF Restart, reporterVars, ReporterInv, ReporterOK
  <2>3. stale = NothingNew
    BY <1>6 DEF Restart, ReporterInv, ReportFacts
  <2> QED BY <2>1, <2>2, <2>3, ReporterAssumption, DeliveryAssumption DEF ReporterInv,
          ReporterOK, ProcessOK, ReportFacts, LastReportLosesLittle, NothingNew, Horizon
<1>7. CASE UNCHANGED reporterVars /\ UNCHANGED <<processes, flusher, wait>>
           /\ phase' \in {phase, "stopping", "draining"}
  <2>1. stale' = stale /\ age' = age /\ failed' = failed
    BY <1>7 DEF reporterVars
  <2> QED BY <1>7, <2>1 DEF ReporterInv, ReporterOK, ProcessOK, ReportFacts, LastReportLosesLittle
<1>8. CASE MissedTrade
  BY <1>7, <1>8 DEF MissedTrade, processVars
<1>9. CASE Client
  BY <1>7, <1>9 DEF Client, processVars
<1>10. CASE UNCHANGED vars
  BY <1>7, <1>10 DEF vars, processVars
<1>11. CASE OperatorBackfills
  BY <1>7, <1>11 DEF OperatorBackfills, processVars
<1>12. CASE ScriptSends \/ ScriptEnds \/ ScriptRaises
  BY <1>7, <1>12 DEF ScriptSends, ScriptEnds, ScriptRaises, processVars
<1>13. CASE RequestStop \/ (RunReturns /\ UNCHANGED reporterVars)
  BY <1>7, <1>13 DEF RequestStop, RunReturns
<1>14. RunReturns => Count \/ UNCHANGED reporterVars
  BY DEF RunReturns
<1> QED BY <1>1, <1>2, <1>3, <1>4, <1>5, <1>6, <1>8, <1>9, <1>10, <1>11, <1>12, <1>13, <1>14 DEF Next

-----------------------------------------------------------------------------
(* The script. *)

\* The topic only grows, and what is put on it are trades.
LEMMA TopicGrows ==
    ASSUME TypeOK, [Next]_vars
    PROVE  Topic \subseteq Topic'
<1>1. live \in Seq(TradeIds)
  BY DEF TypeOK, PublisherOK
<1>2. ASSUME NEW q \in Seq(TradeIds) PROVE Range(live) \subseteq Range(live \o q)
  BY <1>1, RangeConcatenation DEF Range
<1>3. live' = live \/ \E q \in Seq(TradeIds) : live' = live \o q
  <2>1. CASE ClientStep
    <3>1. ASSUME NEW k \in 1..Len(inflight), Send(k) \/ Fail(k)
          PROVE  live' = live \/ live' = live \o SubSeq(inflight, 1, k)
      BY <3>1 DEF Send, Fail
    <3>2. ASSUME NEW k \in 1..Len(inflight) PROVE SubSeq(inflight, 1, k) \in Seq(TradeIds)
      BY Cuts DEF TypeOK, PublisherOK
    <3>3. Pause \/ RunCallback => live' = live
      BY DEF Pause, RunCallback
    <3> QED BY <2>1, <3>1, <3>2, <3>3 DEF ClientStep
  <2>2. CASE Publish(made') \/ StopClient \/ ClientIsGone \/ UNCHANGED publisherVars
    BY <2>2 DEF Publish, StopClient, ClientIsGone, publisherVars
  <2> QED BY <2>1, <2>2, PublisherMoves
<1>4. Range(live) \subseteq Range(live')
  BY <1>2, <1>3
<1>5. backfilled \subseteq backfilled'
  <2>1. CASE ScriptSends
    BY <2>1 DEF ScriptSends, BackfillSends
  <2>2. CASE ~ScriptSends
    BY <2>2 DEF Next, vars, backfillVars, Trade, MissedTrade, OtherMessage, Tick, FlusherWakes,
       RequestStop, RunReturns, Drain, Exit, Kill, Gone, Restart, Client, OperatorBackfills,
       RunBackfill, ScriptEnds, BackfillEnds, ScriptRaises, BackfillRaises
  <2> QED BY <2>1, <2>2
<1> QED BY <1>4, <1>5 DEF Topic

\* The walk collects nothing that was not asked for.
LEMMA CollectedIsWanted ==
    ASSUME NEW a, NEW b
    PROVE  Collected(a, b) \subseteq Wanted(a, b)
  BY DEF Collected

\* The topic holds trades, so that what lies between two of its ids are trades.
LEMMA WantedAreTrades ==
    ASSUME TypeOK, NEW h \in Holes
    PROVE  Wanted(h[1], h[2]) \subseteq TradeIds
<1>1. Range(live) \subseteq TradeIds
  BY RangeOfSeq DEF TypeOK, PublisherOK
<1>2. Topic \subseteq TradeIds
  BY <1>1 DEF Topic, TypeOK, BackfillOK
<1>3. h[1] \in TradeIds /\ h[2] \in TradeIds
  BY <1>2 DEF Holes
<1> QED BY <1>3, BackfillAssumption DEF Wanted, TradeIds

LEMMA BackfillStep ==
    ASSUME TypeOK, BackfillFacts, [Next]_vars
    PROVE  BackfillOK' /\ BackfillFacts'
<1>1. Topic \subseteq Topic'
  BY TopicGrows
<1>2. BackfillOK /\ MaxTrade \in Nat
  BY BackfillAssumption DEF TypeOK
<1>3. CASE OperatorBackfills
  <2>1. PICK h \in Holes : RunBackfill(h[1], h[2])
    BY <1>3 DEF OperatorBackfills
  <2> DEFINE wanted == Wanted(h[1], h[2])
             got == Collected(h[1], h[2])
  <2>2. wanted \subseteq TradeIds /\ got \subseteq wanted
    BY WantedAreTrades, CollectedIsWanted
  <2>3. /\ script' = [state |-> "publishing", wanted |-> wanted, missing |-> wanted \ got,
                      pending |-> got]
        /\ backfilled' = backfilled /\ made' = made
    BY <1>3, <2>1 DEF RunBackfill, OperatorBackfills
  <2> HIDE DEF wanted, got
  <2> QED BY <1>2, <2>2, <2>3 DEF BackfillOK, BackfillFacts, CompleteIsComplete
<1>4. CASE ScriptSends
  <2>1. /\ script.state = "publishing" /\ made' = made
        /\ \E t \in script.pending : backfilled' = backfilled \union {t}
             /\ script' = [script EXCEPT !.pending = script.pending \ {t}]
    BY <1>4 DEF ScriptSends, BackfillSends
  <2>2. PICK t \in script.pending : backfilled' = backfilled \union {t}
             /\ script' = [script EXCEPT !.pending = script.pending \ {t}]
    BY <2>1
  <2>3. t \in TradeIds /\ t \in Topic'
    BY <1>2, <2>1, <2>2 DEF BackfillOK, Topic
  <2> QED BY <1>1, <1>2, <2>1, <2>2, <2>3 DEF BackfillOK, BackfillFacts, CompleteIsComplete
<1>5. CASE ScriptEnds
  <2>1. /\ script.pending = {} /\ script.state = "publishing"
        /\ made' = made /\ backfilled' = backfilled
        /\ script' = [script EXCEPT !.state = Ended, !.missing = {}]
    BY <1>5 DEF ScriptEnds, BackfillEnds
  <2>2. Ended \in {"complete", "warned"} /\ (Ended = "complete" => script.missing = {})
    BY DEF Ended
  <2>3. script.wanted \subseteq Topic \union script.missing
    BY <2>1 DEF BackfillFacts
  <2> QED BY <1>1, <1>2, <2>1, <2>2, <2>3 DEF BackfillOK, BackfillFacts, CompleteIsComplete
<1>6. CASE ScriptRaises
  BY <1>2, <1>6 DEF ScriptRaises, BackfillRaises, BackfillOK, BackfillFacts, CompleteIsComplete
<1>7. ASSUME script' = script, backfilled' = backfilled, made' \in 0..MaxTrade
      PROVE  BackfillOK' /\ BackfillFacts'
  BY <1>1, <1>2, <1>7 DEF BackfillOK, BackfillFacts, CompleteIsComplete
<1>8. CASE Trade \/ MissedTrade
  <2>1. made' \in 0..MaxTrade
    BY <1>2, <1>8 DEF Trade, MissedTrade, BackfillOK
  <2> QED BY <1>7, <1>8, <2>1 DEF Trade, MissedTrade, backfillVars
<1>9. made \in 0..MaxTrade
  BY <1>2 DEF BackfillOK
<1>10. CASE OtherMessage \/ Tick \/ FlusherWakes \/ Client
  BY <1>7, <1>9, <1>10 DEF OtherMessage, Tick, FlusherWakes, Client, backfillVars
<1>11. CASE RequestStop \/ RunReturns \/ Drain \/ Restart
  BY <1>7, <1>9, <1>11 DEF RequestStop, RunReturns, Drain, Restart, backfillVars
<1>12. CASE Exit \/ Kill \/ UNCHANGED vars
  BY <1>7, <1>9, <1>12 DEF Exit, Kill, Gone, vars, backfillVars
<1> QED BY <1>3, <1>4, <1>5, <1>6, <1>8, <1>10, <1>11, <1>12 DEF Next

-----------------------------------------------------------------------------
(* The theorems. *)

LEMMA InitInv == Init => DeliveryInv
<1> SUFFICES ASSUME Init PROVE DeliveryInv
  OBVIOUS
<1>1. PublisherOK /\ RefusalFacts
  <2>1. ~stopped /\ ~paused /\ failing \in BOOLEAN /\ paused \in BOOLEAN /\ stopped \in BOOLEAN
    BY DEF Init, PublisherInit, NewClient
  <2> QED BY <2>1, PublisherAssumption DEF Init, PublisherInit, NewClient, PublisherOK,
          RefusalFacts, OneRefusalPerPause
<1>2. ReporterOK /\ ProcessOK /\ ReportFacts
  <2>1. failed \in BOOLEAN
    BY DEF Init, ReporterInit
  <2> QED BY <2>1, ReporterAssumption, DeliveryAssumption DEF Init, ReporterInit, ReporterOK,
          ProcessOK, ReportFacts, LastReportLosesLittle, NothingNew, Horizon
<1>3. BackfillOK /\ BackfillFacts
  BY BackfillAssumption DEF Init, BackfillInit, BackfillOK, BackfillFacts, CompleteIsComplete
<1> QED BY <1>1, <1>2, <1>3 DEF DeliveryInv, TypeOK

LEMMA NextInv == DeliveryInv /\ [Next]_vars => DeliveryInv'
<1> SUFFICES ASSUME DeliveryInv, [Next]_vars PROVE DeliveryInv'
  OBVIOUS
<1>1. PublisherOK' /\ RefusalFacts'
  BY PublisherStep DEF DeliveryInv, PublisherInv
<1>2. ReporterOK' /\ ProcessOK' /\ ReportFacts'
  BY ReporterStep DEF DeliveryInv, TypeOK, ReporterInv
<1>3. BackfillOK' /\ BackfillFacts'
  BY BackfillStep DEF DeliveryInv
<1> QED BY <1>1, <1>2, <1>3 DEF DeliveryInv, TypeOK

\* The combined invariant holds in every reachable state.
LEMMA Invariance == Spec => []DeliveryInv
<1> QED BY InitInv, NextInv, PTL DEF Spec

\* The state of the process, its publisher, its reporter and the script keeps
\* its shape, and a paused key has nothing queued.
THEOREM DeliveryTypeCorrect == Spec => []TypeOK
<1>1. DeliveryInv => TypeOK
  BY DEF DeliveryInv
<1> QED BY <1>1, Invariance, PTL

\* A pause of the key refuses at most one publish, for any number of failures.
THEOREM RefusalsBounded == Spec => []OneRefusalPerPause
<1>1. DeliveryInv => OneRefusalPerPause
  BY DEF DeliveryInv, RefusalFacts
<1> QED BY <1>1, Invariance, PTL

\* No count of a running process waits longer than the flusher's interval for
\* a Monitoring that answers, for any two intervals of which it is the longer.
THEOREM ReportsInTime == Spec => []ReportsKeepUp
<1>1. DeliveryInv => ReportsKeepUp
  <2>1. SUFFICES ASSUME DeliveryInv, phase = "running", ~failed PROVE stale <= FlushInterval
    BY DEF ReportsKeepUp
  <2>2. stale + wait <= FlushInterval
    BY <2>1 DEF DeliveryInv, ReportFacts
  <2>3. stale \in Int /\ wait \in Int /\ wait >= 0 /\ FlushInterval \in Int
    BY <2>1, ReporterAssumption DEF DeliveryInv, TypeOK, ReporterOK, ProcessOK, NothingNew, Horizon
  <2> QED BY <2>2, <2>3
<1> QED BY <1>1, Invariance, PTL

\* What the final report fails to show is younger than the minimum interval.
THEOREM LastReportBounded == Spec => []LastReportLosesLittle
<1>1. DeliveryInv => LastReportLosesLittle
  BY DEF DeliveryInv, ReportFacts
<1> QED BY <1>1, Invariance, PTL

\* A script that ends without a warning has filled its range, for any size of
\* page and whatever the exchange withholds.
THEOREM BackfillHonest == Spec => []CompleteIsComplete
<1>1. DeliveryInv => CompleteIsComplete
  BY DEF DeliveryInv, BackfillFacts
<1> QED BY <1>1, Invariance, PTL
=============================================================================
