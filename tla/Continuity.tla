----------------------------- MODULE Continuity -----------------------------
(***************************************************************************)
(* Trade-loss detection: ingest/src/consumer/sequence.py and the match,    *)
(* heartbeat and disconnect handlers of ingest/src/consumer/ws_client.py.  *)
(*                                                                         *)
(* The exchange numbers the trades of a product 1, 2, 3, ... and pushes    *)
(* them as `match` messages; some it drops, some it sends twice, and its   *)
(* heartbeats carry its latest trade id.  The consumer keeps the highest   *)
(* id it knows per product and turns every hole into a count of lost       *)
(* trades.  Everything received is published, duplicates included.         *)
(***************************************************************************)
EXTENDS Integers, Sequences, FiniteSets

CONSTANTS
    Products,     \* the subscribed products
    MaxTrade,     \* bound: trades the exchange makes per product
    MaxWire,      \* bound: messages of one product in flight
    MaxReplays,   \* bound: trades the exchange sends twice
    MaxSessions,  \* bound: connections made; the last one stays open
    Overtaking    \* how many messages one message may overtake; 0 is a FIFO feed

ASSUME ContinuityAssumption ==
    /\ IsFiniteSet(Products)
    /\ MaxTrade \in Nat /\ MaxWire \in Nat /\ MaxReplays \in Nat
    /\ MaxSessions \in Nat /\ Overtaking \in Nat

NoTrade == -1      \* `None`: no trade id is known for the product
TradeIds == 1..MaxTrade

Match(n) == [type |-> "match", id |-> n]
Heartbeat(n) == [type |-> "heartbeat", id |-> n]
Messages == [type : {"match"}, id : TradeIds] \union [type : {"heartbeat"}, id : 0..MaxTrade]

VARIABLES
    latest,     \* exchange: the last trade id of each product
    wire,       \* messages in flight, per product
    sent,       \* trade ids sent to this connection, per product
    replays,    \* trades sent twice so far
    connected,  \* the socket is open
    session,    \* number of the connection
    last,       \* ContinuityTracker._last
    tracker,    \* the counters of ContinuityTracker
    metrics,    \* the counters of MetricsReporter these handlers touch
    tape,       \* trade ids published to the trades topic, per product
    first,      \* history: the id that set this session's baseline
    told,       \* history: the highest id the feed has mentioned since
    got,        \* history: trade ids received in this session
    missed      \* history: <<session, product, id>> missing when a session ended

feedVars == <<latest, wire, sent, replays>>
sessionVars == <<connected, session>>
trackerVars == <<last, tracker, metrics>>
historyVars == <<first, told, got, missed>>
vars == <<feedVars, sessionVars, trackerVars, tape, historyVars>>

Forgotten == [p \in Products |-> NoTrade]
Nothing == [p \in Products |-> {}]
Drained == [p \in Products |-> << >>]

Init ==
    /\ latest = [p \in Products |-> 0]
    /\ wire = Drained
    /\ sent = Nothing
    /\ replays = 0
    /\ connected = FALSE
    /\ session = 0
    /\ last = Forgotten
    /\ tracker = [gaps |-> 0, lost |-> 0, duplicates |-> 0]
    /\ metrics = [gaps |-> 0, heartbeatGaps |-> 0, lost |-> 0, duplicates |-> 0]
    /\ tape = Nothing
    /\ first = Forgotten
    /\ told = Forgotten
    /\ got = Nothing
    /\ missed = {}

-----------------------------------------------------------------------------
(* The exchange and the feed. *)

Push(p, m) ==
    /\ Len(wire[p]) < MaxWire
    /\ wire' = [wire EXCEPT ![p] = Append(@, m)]

\* A trade whose match message is put on the wire.
Trade(p) ==
    /\ connected
    /\ latest[p] < MaxTrade
    /\ latest' = [latest EXCEPT ![p] = @ + 1]
    /\ Push(p, Match(latest[p] + 1))
    /\ sent' = [sent EXCEPT ![p] = @ \union {latest[p] + 1}]
    /\ UNCHANGED <<replays, sessionVars, trackerVars, tape, historyVars>>

\* A trade this connection is never told about: dropped by the feed, or made
\* while there is no connection.
DropTrade(p) ==
    /\ latest[p] < MaxTrade
    /\ latest' = [latest EXCEPT ![p] = @ + 1]
    /\ UNCHANGED <<wire, sent, replays, sessionVars, trackerVars, tape, historyVars>>

\* `last_match`: on subscription the exchange repeats the product's last trade.
LastMatch(p) ==
    /\ connected
    /\ sent[p] = {}
    /\ latest[p] > 0
    /\ Push(p, Match(latest[p]))
    /\ sent' = [sent EXCEPT ![p] = {latest[p]}]
    /\ UNCHANGED <<latest, replays, sessionVars, trackerVars, tape, historyVars>>

\* The exchange repeats a trade it already sent to this connection.
Replay(p) ==
    /\ replays < MaxReplays
    /\ \E n \in sent[p] : Push(p, Match(n))
    /\ replays' = replays + 1
    /\ UNCHANGED <<latest, sent, sessionVars, trackerVars, tape, historyVars>>

\* A heartbeat carries the latest trade id, or lags behind it.
Beat(p, n) ==
    /\ connected
    /\ Push(p, Heartbeat(n))
    /\ UNCHANGED <<latest, sent, replays, sessionVars, trackerVars, tape, historyVars>>

-----------------------------------------------------------------------------
(* The tracker: ContinuityTracker.observe. *)

Verdict(p, n) ==
    CASE last[p] = NoTrade  -> "first"
      [] last[p] # NoTrade /\ n <= last[p]     -> "duplicate"
      [] last[p] # NoTrade /\ n = last[p] + 1  -> "in_order"
      [] last[p] # NoTrade /\ n > last[p] + 1  -> "gap"

Missing(p, n) == IF Verdict(p, n) = "gap" THEN n - last[p] - 1 ELSE 0

If(b) == IF b THEN 1 ELSE 0

\* Fault: a replayed id moves the baseline too.
ObserveAlwaysMoves(p, n) ==
    /\ last' = [last EXCEPT ![p] = n]
    /\ tracker' = [
          gaps |-> tracker.gaps + If(Verdict(p, n) = "gap"),
          lost |-> tracker.lost + Missing(p, n),
          duplicates |-> tracker.duplicates + If(Verdict(p, n) = "duplicate")]

Observe(p, n) ==
    /\ last' = IF Verdict(p, n) = "duplicate" THEN last ELSE [last EXCEPT ![p] = n]
    /\ tracker' = [
          gaps |-> tracker.gaps + If(Verdict(p, n) = "gap"),
          lost |-> tracker.lost + Missing(p, n),
          duplicates |-> tracker.duplicates + If(Verdict(p, n) = "duplicate")]

\* MessageHandler._track_continuity: the verdict, repeated in the metrics.
TrackContinuity(p, n) ==
    /\ Observe(p, n)
    /\ metrics' = [
          gaps |-> metrics.gaps + If(Verdict(p, n) = "gap"),
          heartbeatGaps |-> metrics.heartbeatGaps,
          lost |-> metrics.lost + Missing(p, n),
          duplicates |-> metrics.duplicates + If(Verdict(p, n) = "duplicate")]

-----------------------------------------------------------------------------
(* The handlers. *)

Larger(a, b) == IF a < b THEN b ELSE a

\* Fault: what the tracker calls a duplicate is not published.
HandleMatchDropsDuplicates(p, n) ==
    /\ TrackContinuity(p, n)
    /\ tape' = IF Verdict(p, n) = "duplicate" THEN tape ELSE [tape EXCEPT ![p] = @ \union {n}]
    /\ first' = IF first[p] = NoTrade THEN [first EXCEPT ![p] = n] ELSE first
    /\ told' = [told EXCEPT ![p] = Larger(@, n)]
    /\ got' = [got EXCEPT ![p] = @ \union {n}]

\* MessageHandler._handle_match, for `match` and `last_match`.
HandleMatch(p, n) ==
    /\ TrackContinuity(p, n)
    /\ tape' = [tape EXCEPT ![p] = @ \union {n}]
    /\ first' = IF first[p] = NoTrade THEN [first EXCEPT ![p] = n] ELSE first
    /\ told' = [told EXCEPT ![p] = Larger(@, n)]
    /\ got' = [got EXCEPT ![p] = @ \union {n}]

Tell(p, n) ==
    /\ told' = IF first[p] = NoTrade THEN told ELSE [told EXCEPT ![p] = Larger(@, n)]
    /\ UNCHANGED <<tape, first, got>>

CountHeartbeatGap(n) ==
    metrics' = [
        gaps |-> metrics.gaps,
        heartbeatGaps |-> metrics.heartbeatGaps + 1,
        lost |-> metrics.lost + n,
        duplicates |-> metrics.duplicates]

\* Faults of the heartbeat handler: the gap is counted but the baseline stays;
\* no heartbeat is taken as evidence; `seen is not None` is not checked; the
\* trade the heartbeat names is taken as received.
HeartbeatWithoutObserve(p, n) ==
    /\ IF last[p] # NoTrade /\ n > last[p]
       THEN CountHeartbeatGap(n - last[p]) /\ UNCHANGED <<last, tracker>>
       ELSE UNCHANGED trackerVars
    /\ Tell(p, n)

HeartbeatIgnored(p, n) == UNCHANGED trackerVars /\ Tell(p, n)

HeartbeatWithoutBaseline(p, n) ==
    /\ IF n > last[p]
       THEN CountHeartbeatGap(n - last[p]) /\ Observe(p, n)
       ELSE UNCHANGED trackerVars
    /\ Tell(p, n)

HeartbeatCountsSkipped(p, n) ==
    /\ IF last[p] # NoTrade /\ n > last[p]
       THEN CountHeartbeatGap(n - last[p] - 1) /\ Observe(p, n)
       ELSE UNCHANGED trackerVars
    /\ Tell(p, n)

\* MessageHandler._handle_heartbeat: the baseline is compared with the id the
\* exchange reports, and moved up to it when the exchange is ahead.
HandleHeartbeat(p, n) ==
    /\ IF last[p] # NoTrade /\ n > last[p]
       THEN CountHeartbeatGap(n - last[p]) /\ Observe(p, n)
       ELSE UNCHANGED trackerVars
    /\ Tell(p, n)

Without(s, i) == [j \in 1..(Len(s) - 1) |-> IF j < i THEN s[j] ELSE s[j + 1]]

\* MessageHandler.handle on a message of the wire.
Receive(p, i) ==
    /\ connected
    /\ i \in DOMAIN wire[p] /\ i <= 1 + Overtaking
    /\ wire' = [wire EXCEPT ![p] = Without(@, i)]
    /\ \/ wire[p][i].type = "match" /\ HandleMatch(p, wire[p][i].id)
       \/ wire[p][i].type = "heartbeat" /\ HandleHeartbeat(p, wire[p][i].id)
    /\ UNCHANGED <<latest, sent, replays, sessionVars, missed>>

-----------------------------------------------------------------------------
(* Sessions. *)

Connect ==
    /\ ~connected
    /\ session < MaxSessions
    /\ connected' = TRUE
    /\ session' = session + 1
    /\ UNCHANGED <<feedVars, trackerVars, tape, historyVars>>

\* Ids between the baseline and the highest id mentioned that never arrived.
Hole(p, n) == first[p] # NoTrade /\ first[p] <= n /\ n <= told[p] /\ n \notin got[p]

SessionMissing ==
    {m \in {session} \X Products \X TradeIds : Hole(m[2], m[3])}

AllMissing == missed \union SessionMissing

\* Fault: the baselines survive a disconnect.
OnDisconnectKeepsBaseline == UNCHANGED trackerVars

\* MessageHandler.on_disconnect, after the socket failed or was closed.
OnDisconnect == last' = Forgotten /\ UNCHANGED <<tracker, metrics>>

\* The last connection of the bound stays open.
Disconnect ==
    /\ connected
    /\ session < MaxSessions
    /\ connected' = FALSE
    /\ wire' = Drained
    /\ sent' = Nothing
    /\ OnDisconnect
    /\ first' = Forgotten
    /\ told' = Forgotten
    /\ got' = Nothing
    /\ missed' = AllMissing
    /\ UNCHANGED <<latest, replays, session, tape>>

-----------------------------------------------------------------------------
Feed(p) ==
    \/ Trade(p)
    \/ DropTrade(p)
    \/ LastMatch(p)
    \/ Replay(p)
    \/ \E n \in 0..latest[p] : Beat(p, n)

Next ==
    \/ \E p \in Products : Feed(p)
    \/ \E p \in Products : \E i \in 1..(1 + Overtaking) : Receive(p, i)
    \/ Connect
    \/ Disconnect

Spec == Init /\ [][Next]_vars

\* The reader keeps reading, and heartbeats that are up to date keep coming.
Fairness ==
    \A p \in Products :
        /\ WF_vars(\E i \in 1..(1 + Overtaking) : Receive(p, i))
        /\ SF_vars(Beat(p, latest[p]))

FairSpec == Spec /\ Fairness

-----------------------------------------------------------------------------
(* Properties. *)

\* The shape of the state: the tracker of sequence.py and the feed it reads.
TypeOK ==
    /\ latest \in [Products -> 0..MaxTrade]
    /\ wire \in [Products -> Seq(Messages)]
    /\ sent \in [Products -> SUBSET TradeIds]
    /\ replays \in 0..MaxReplays
    /\ connected \in BOOLEAN
    /\ session \in 0..MaxSessions
    /\ last \in [Products -> TradeIds \union {NoTrade}]
    /\ tracker \in [gaps : Nat, lost : Nat, duplicates : Nat]
    /\ metrics \in [gaps : Nat, heartbeatGaps : Nat, lost : Nat, duplicates : Nat]
    /\ tape \in [Products -> SUBSET TradeIds]
    /\ first \in [Products -> TradeIds \union {NoTrade}]
    /\ told \in [Products -> (0..MaxTrade) \union {NoTrade}]
    /\ got \in [Products -> SUBSET TradeIds]
    /\ missed \subseteq (0..MaxSessions) \X Products \X TradeIds

\* On any feed, reordered ones included, the counter never hides a loss: it is
\* at least the number of trades the feed passed over and has not delivered.
LossNeverUnderstated == metrics.lost >= Cardinality(AllMissing)

\* Every trade counted as lost is a trade that never arrives.
CountedLossIsReal == metrics.lost <= Cardinality(AllMissing)

\* On a feed that keeps order messages_lost_total is exactly the number of lost
\* trades: none missed, none counted twice (a hole seen by a match and by
\* heartbeats), none invented by a reconnect.
LossIsExact == LossNeverUnderstated /\ CountedLossIsReal

\* observe keeps the baseline at the highest id heard of in this session, by
\* match or by heartbeat, and at None before the first match.
BaselineIsHighestTold ==
    \A p \in Products :
        /\ last[p] = told[p]
        /\ got[p] = {} => last[p] = NoTrade
        /\ \A n \in got[p] : n <= last[p]

\* The tracker and the metrics keep two ledgers of one loss: a heartbeat gap of
\* k trades is k in the metrics but k - 1 in the tracker, whose baseline is then
\* the id it was told of; match gaps and duplicates are the same in both.
TwoLedgersAgree ==
    /\ metrics.lost = tracker.lost + metrics.heartbeatGaps
    /\ metrics.duplicates = tracker.duplicates
    /\ metrics.gaps <= tracker.gaps /\ tracker.gaps <= metrics.gaps + metrics.heartbeatGaps

\* A trade that arrives is published whatever the tracker thinks of it: one that
\* was written off and classified as a duplicate still reaches the tape.
ReceivedIsPublished == \A p \in Products : got[p] \subseteq tape[p]

\* A replay or a straggler never moves a baseline back; only a disconnect
\* forgets it.
BaselineNeverRewinds ==
    [][\A p \in Products : last'[p] < last[p] => last'[p] = NoTrade /\ ~connected']_vars

\* Whatever trade the exchange has reached after the session's baseline, the
\* tracker comes to know of it, although its match may have been dropped.
LossIsNoticed ==
    \A p \in Products : \A n \in TradeIds :
        (connected /\ first[p] # NoTrade /\ latest[p] >= n) ~> (~connected \/ last[p] >= n)

-----------------------------------------------------------------------------
(* What the proofs need beside the properties. *)

\* On any feed: how the baseline, the history and the connection hang together.
SessionFacts ==
    /\ \A p \in Products :
        /\ last[p] = told[p]
        /\ first[p] = NoTrade <=> last[p] = NoTrade
        /\ first[p] <= last[p]
        /\ first[p] # NoTrade => first[p] \in got[p]
        /\ \A n \in got[p] : n <= last[p]
        /\ ~connected => last[p] = NoTrade
    /\ \A m \in missed : m[1] <= session /\ (connected => m[1] < session)

\* On a feed that keeps order: whatever a message on the wire knows of has been
\* received, travels ahead of it, or predates the session's first match; so no
\* trade at or below the baseline is still to come.
FeedInOrder(p) ==
    /\ last[p] <= latest[p]
    /\ got[p] \subseteq sent[p]
    /\ \A n \in sent[p] :
        /\ n <= latest[p]
        /\ n \in got[p] \/ \E j \in DOMAIN wire[p] : wire[p][j] = Match(n)
        /\ first[p] # NoTrade /\ first[p] <= n /\ n <= last[p] => n \in got[p]
    /\ \A i \in DOMAIN wire[p] :
        /\ wire[p][i].id <= latest[p]
        /\ wire[p][i].type = "match" => wire[p][i].id \in sent[p]
        /\ \A n \in sent[p] : n <= wire[p][i].id =>
              \/ n \in got[p]
              \/ \E j \in 1..i : wire[p][j] = Match(n)
              \/ got[p] = {} /\ \A j \in 1..i : wire[p][j].type = "heartbeat"
=============================================================================
