-------------------------- MODULE ContinuityProofs --------------------------
(***************************************************************************)
(* Proofs about Continuity for every set of products and every bound.      *)
(***************************************************************************)
EXTENDS Continuity, FiniteSetTheorems, SequenceTheorems, TLAPS

USE DEF NoTrade

-----------------------------------------------------------------------------
(* The wire. *)

\* Taking one message out of a wire leaves a wire.
LEMMA WithoutType ==
    ASSUME NEW S, NEW s \in Seq(S), NEW i \in DOMAIN s
    PROVE  /\ Without(s, i) \in Seq(S)
           /\ Len(Without(s, i)) = Len(s) - 1
<1>1. Len(s) - 1 \in Nat
  OBVIOUS
<1>2. \A j \in 1..(Len(s) - 1) : (IF j < i THEN s[j] ELSE s[j + 1]) \in S
  OBVIOUS
<1> QED
  BY <1>1, <1>2 DEF Without

\* Putting a message on a wire leaves a wire.
LEMMA PushType ==
    ASSUME NEW p \in Products, NEW m \in Messages,
           wire \in [Products -> Seq(Messages)], Push(p, m)
    PROVE  wire' \in [Products -> Seq(Messages)]
BY DEF Push

\* The verdict is one of four, by cases on the baseline.
LEMMA VerdictCases ==
    ASSUME NEW p \in Products, NEW n \in 0..MaxTrade, TypeOK
    PROVE  \/ last[p] = NoTrade /\ Verdict(p, n) = "first"
           \/ last[p] # NoTrade /\ n <= last[p] /\ Verdict(p, n) = "duplicate"
           \/ last[p] # NoTrade /\ n = last[p] + 1 /\ Verdict(p, n) = "in_order"
           \/ last[p] # NoTrade /\ n > last[p] + 1 /\ Verdict(p, n) = "gap"
<1>1. last[p] \in Int /\ n \in Int
  BY ContinuityAssumption DEF TypeOK, TradeIds
<1>2. CASE last[p] = NoTrade
  BY <1>2 DEF Verdict
<1>3. CASE last[p] # NoTrade
  <2>1. n <= last[p] \/ n = last[p] + 1 \/ n > last[p] + 1
    BY <1>1
  <2> QED
    BY <1>1, <1>3, <2>1 DEF Verdict
<1> QED
  BY <1>2, <1>3

\* What observe does to the baseline and to the counters of the tracker.
LEMMA ObserveEffect ==
    ASSUME NEW p \in Products, NEW n \in TradeIds, TypeOK, Observe(p, n)
    PROVE  /\ last' \in [Products -> TradeIds \union {NoTrade}]
           /\ \A q \in Products : last'[q] = IF q = p THEN Larger(last[p], n) ELSE last[q]
           /\ tracker' \in [gaps : Nat, lost : Nat, duplicates : Nat]
           /\ tracker'.gaps = tracker.gaps + If(Verdict(p, n) = "gap")
           /\ tracker'.lost = tracker.lost + Missing(p, n)
           /\ tracker'.duplicates = tracker.duplicates + If(Verdict(p, n) = "duplicate")
           /\ Missing(p, n) \in Nat
           /\ Missing(p, n) = IF last[p] = NoTrade \/ n <= last[p] THEN 0 ELSE n - last[p] - 1
<1> n \in 0..MaxTrade
  BY ContinuityAssumption DEF TradeIds
<1>0. last[p] \in Int /\ n \in Int /\ n >= 1
  BY ContinuityAssumption DEF TypeOK, TradeIds
<1>1. /\ last \in [Products -> TradeIds \union {NoTrade}]
      /\ tracker \in [gaps : Nat, lost : Nat, duplicates : Nat]
  BY DEF TypeOK
<1>2. /\ Missing(p, n) \in Nat
      /\ Missing(p, n) = IF last[p] = NoTrade \/ n <= last[p] THEN 0 ELSE n - last[p] - 1
  BY <1>0, VerdictCases DEF Missing
<1>3. If(Verdict(p, n) = "gap") \in Nat /\ If(Verdict(p, n) = "duplicate") \in Nat
  BY DEF If
<1>4. /\ tracker' \in [gaps : Nat, lost : Nat, duplicates : Nat]
      /\ tracker'.gaps = tracker.gaps + If(Verdict(p, n) = "gap")
      /\ tracker'.lost = tracker.lost + Missing(p, n)
      /\ tracker'.duplicates = tracker.duplicates + If(Verdict(p, n) = "duplicate")
  <2> DEFINE g == If(Verdict(p, n) = "gap")
             l == Missing(p, n)
             d == If(Verdict(p, n) = "duplicate")
  <2>1. tracker' = [gaps |-> tracker.gaps + g, lost |-> tracker.lost + l,
                    duplicates |-> tracker.duplicates + d]
    BY DEF Observe
  <2>2. g \in Nat /\ l \in Nat /\ d \in Nat
    BY <1>2, <1>3
  <2> HIDE DEF g, l, d
  <2>3. /\ tracker' \in [gaps : Nat, lost : Nat, duplicates : Nat]
        /\ tracker'.gaps = tracker.gaps + g
        /\ tracker'.lost = tracker.lost + l
        /\ tracker'.duplicates = tracker.duplicates + d
    BY <1>1, <2>1, <2>2
  <2> QED
    BY <2>3 DEF g, l, d
<1>5. last' = IF last[p] # NoTrade /\ n <= last[p] THEN last ELSE [last EXCEPT ![p] = n]
  BY <1>0, VerdictCases DEF Observe
<1>6. /\ last' \in [Products -> TradeIds \union {NoTrade}]
      /\ \A q \in Products : last'[q] = IF q = p THEN Larger(last[p], n) ELSE last[q]
  BY <1>0, <1>1, <1>5 DEF Larger
<1> QED
  BY <1>2, <1>4, <1>6

\* A match counts in the metrics what the tracker counts.
LEMMA MatchEffect ==
    ASSUME NEW p \in Products, NEW n \in TradeIds, TypeOK, TrackContinuity(p, n)
    PROVE  /\ metrics' \in [gaps : Nat, heartbeatGaps : Nat, lost : Nat, duplicates : Nat]
           /\ metrics'.gaps = metrics.gaps + If(Verdict(p, n) = "gap")
           /\ metrics'.heartbeatGaps = metrics.heartbeatGaps
           /\ metrics'.lost = metrics.lost + Missing(p, n)
           /\ metrics'.duplicates = metrics.duplicates + If(Verdict(p, n) = "duplicate")
<1>1. metrics \in [gaps : Nat, heartbeatGaps : Nat, lost : Nat, duplicates : Nat]
  BY DEF TypeOK
<1>2. Missing(p, n) \in Nat
  BY ObserveEffect DEF TrackContinuity
<1>3. If(Verdict(p, n) = "gap") \in Nat /\ If(Verdict(p, n) = "duplicate") \in Nat
  BY DEF If
<1> DEFINE g == If(Verdict(p, n) = "gap")
           l == Missing(p, n)
           d == If(Verdict(p, n) = "duplicate")
<1>4. metrics' = [gaps |-> metrics.gaps + g, heartbeatGaps |-> metrics.heartbeatGaps,
                  lost |-> metrics.lost + l, duplicates |-> metrics.duplicates + d]
  BY DEF TrackContinuity
<1>5. g \in Nat /\ l \in Nat /\ d \in Nat
  BY <1>2, <1>3
<1> HIDE DEF g, l, d
<1>6. /\ metrics' \in [gaps : Nat, heartbeatGaps : Nat, lost : Nat, duplicates : Nat]
      /\ metrics'.gaps = metrics.gaps + g
      /\ metrics'.heartbeatGaps = metrics.heartbeatGaps
      /\ metrics'.lost = metrics.lost + l
      /\ metrics'.duplicates = metrics.duplicates + d
  BY <1>1, <1>4, <1>5
<1> QED
  BY <1>6 DEF g, l, d

\* A heartbeat either finds nothing new, or counts every trade after the baseline.
LEMMA HeartbeatEffect ==
    ASSUME NEW p \in Products, NEW n \in 0..MaxTrade, TypeOK, HandleHeartbeat(p, n)
    PROVE  \/ /\ last[p] = NoTrade \/ n <= last[p]
              /\ UNCHANGED trackerVars
           \/ /\ last[p] # NoTrade /\ n > last[p] /\ n \in TradeIds
              /\ Observe(p, n)
              /\ metrics' \in [gaps : Nat, heartbeatGaps : Nat, lost : Nat, duplicates : Nat]
              /\ metrics'.gaps = metrics.gaps
              /\ metrics'.heartbeatGaps = metrics.heartbeatGaps + 1
              /\ metrics'.lost = metrics.lost + (n - last[p])
              /\ metrics'.duplicates = metrics.duplicates
<1>1. /\ last[p] \in TradeIds \union {NoTrade}
      /\ metrics \in [gaps : Nat, heartbeatGaps : Nat, lost : Nat, duplicates : Nat]
      /\ MaxTrade \in Nat
  BY ContinuityAssumption DEF TypeOK
<1>2. CASE last[p] # NoTrade /\ n > last[p]
  <2>1. n \in TradeIds /\ n - last[p] \in Nat
    BY <1>1, <1>2 DEF TradeIds
  <2>2. Observe(p, n) /\ CountHeartbeatGap(n - last[p])
    BY <1>2 DEF HandleHeartbeat
  <2> DEFINE k == n - last[p]
  <2>3. metrics' = [gaps |-> metrics.gaps, heartbeatGaps |-> metrics.heartbeatGaps + 1,
                    lost |-> metrics.lost + k, duplicates |-> metrics.duplicates]
    BY <2>2 DEF CountHeartbeatGap
  <2>4. k \in Nat
    BY <2>1
  <2> HIDE DEF k
  <2>5. /\ metrics' \in [gaps : Nat, heartbeatGaps : Nat, lost : Nat, duplicates : Nat]
        /\ metrics'.gaps = metrics.gaps
        /\ metrics'.heartbeatGaps = metrics.heartbeatGaps + 1
        /\ metrics'.lost = metrics.lost + k
        /\ metrics'.duplicates = metrics.duplicates
    BY <1>1, <2>3, <2>4
  <2> QED
    BY <1>2, <2>1, <2>2, <2>5 DEF k
<1>3. CASE ~(last[p] # NoTrade /\ n > last[p])
  <2>1. UNCHANGED trackerVars
    BY <1>3 DEF HandleHeartbeat
  <2>2. last[p] = NoTrade \/ n <= last[p]
    BY <1>1, <1>3 DEF TradeIds
  <2> QED
    BY <2>1, <2>2
<1> QED
  BY <1>2, <1>3

-----------------------------------------------------------------------------
(* Type correctness. *)

\* The larger of an id heard of and a new one is an id.
LEMMA LargerType ==
    ASSUME NEW a \in (0..MaxTrade) \union {NoTrade}, NEW b \in 0..MaxTrade
    PROVE  Larger(a, b) \in (0..MaxTrade) \union {NoTrade}
BY ContinuityAssumption DEF Larger

\* Whatever the exchange and the feed do keeps the type.
LEMMA FeedType ==
    ASSUME NEW p \in Products, TypeOK, Feed(p)
    PROVE  TypeOK'
<1> USE ContinuityAssumption
<1>a. MaxTrade \in Nat /\ latest[p] \in 0..MaxTrade
  BY DEF TypeOK
<1>b. ASSUME latest[p] < MaxTrade, latest' = [latest EXCEPT ![p] = @ + 1]
      PROVE  latest[p] + 1 \in TradeIds /\ latest' \in [Products -> 0..MaxTrade]
  <2>1. latest[p] + 1 \in TradeIds /\ latest[p] + 1 \in 0..MaxTrade
    BY <1>a, <1>b DEF TradeIds
  <2> QED
    BY <1>b, <2>1 DEF TypeOK
<1>1. CASE Trade(p)
  <2>1. latest[p] + 1 \in TradeIds /\ latest' \in [Products -> 0..MaxTrade]
    BY <1>1, <1>b DEF Trade
  <2>0. Match(latest[p] + 1) \in Messages
    BY <2>1 DEF Match, Messages
  <2>2. wire' \in [Products -> Seq(Messages)]
    BY <1>1, <2>0, PushType DEF Trade, TypeOK
  <2> QED
    BY <1>1, <2>1, <2>2 DEF Trade, TypeOK, sessionVars, trackerVars, historyVars
<1>2. CASE DropTrade(p)
  BY <1>2, <1>b DEF DropTrade, TypeOK, sessionVars, trackerVars, historyVars
<1>3. CASE LastMatch(p)
  <2>1. latest[p] \in TradeIds /\ Match(latest[p]) \in Messages
    BY <1>a, <1>3 DEF LastMatch, TradeIds, Match, Messages
  <2>2. wire' \in [Products -> Seq(Messages)]
    BY <1>3, <2>1, PushType DEF LastMatch, TypeOK
  <2> QED
    BY <1>3, <2>1, <2>2 DEF LastMatch, TypeOK, sessionVars, trackerVars, historyVars
<1>4. CASE Replay(p)
  <2>1. PICK n \in sent[p] : Push(p, Match(n))
    BY <1>4 DEF Replay
  <2>2. n \in TradeIds /\ Match(n) \in Messages
    BY <2>1 DEF TypeOK, Match, Messages
  <2>3. wire' \in [Products -> Seq(Messages)]
    BY <2>1, <2>2, PushType DEF TypeOK
  <2>4. replays' \in 0..MaxReplays
    BY <1>4 DEF Replay, TypeOK
  <2>5. UNCHANGED <<latest, sent, connected, session, last, tracker, metrics, tape,
                    first, told, got, missed>>
    BY <1>4 DEF Replay, sessionVars, trackerVars, historyVars
  <2> QED
    BY <2>3, <2>4, <2>5 DEF TypeOK
<1>5. ASSUME NEW n \in 0..latest[p], Beat(p, n) PROVE TypeOK'
  <2>1. Heartbeat(n) \in Messages
    <3>2. n \in 0..MaxTrade
      BY <1>a
    <3> QED
      BY <3>2 DEF Heartbeat, Messages
  <2>2. wire' \in [Products -> Seq(Messages)]
    BY <1>5, <2>1, PushType DEF Beat, TypeOK
  <2> QED
    BY <1>5, <2>2 DEF Beat, TypeOK, sessionVars, trackerVars, historyVars
<1> QED
  BY <1>1, <1>2, <1>3, <1>4, <1>5 DEF Feed

\* What a received message is, and what its reception leaves alone.
LEMMA ReceiveMessage ==
    ASSUME NEW p \in Products, NEW i \in 1..(1 + Overtaking), TypeOK, Receive(p, i)
    PROVE  /\ i \in DOMAIN wire[p]
           /\ wire[p][i] \in Messages
           /\ wire' = [wire EXCEPT ![p] = Without(wire[p], i)]
           /\ wire' \in [Products -> Seq(Messages)]
           /\ UNCHANGED <<latest, sent, replays, connected, session, missed>>
           /\ \/ wire[p][i].type = "match" /\ wire[p][i].id \in TradeIds
                 /\ HandleMatch(p, wire[p][i].id)
              \/ wire[p][i].type = "heartbeat" /\ wire[p][i].id \in 0..MaxTrade
                 /\ HandleHeartbeat(p, wire[p][i].id)
<1>1. wire \in [Products -> Seq(Messages)] /\ wire[p] \in Seq(Messages)
  BY DEF TypeOK
<1>2. i \in DOMAIN wire[p] /\ wire[p][i] \in Messages
  BY <1>1 DEF Receive
<1>3. Without(wire[p], i) \in Seq(Messages)
  BY <1>1, <1>2, WithoutType
<1>4. wire' = [wire EXCEPT ![p] = Without(wire[p], i)]
  BY DEF Receive
<1>5. wire' \in [Products -> Seq(Messages)]
  BY <1>1, <1>3, <1>4
<1>6. /\ wire[p][i].type = "match" => wire[p][i].id \in TradeIds
      /\ wire[p][i].type = "heartbeat" => wire[p][i].id \in 0..MaxTrade
  BY <1>2 DEF Messages
<1> QED
  BY <1>2, <1>4, <1>5, <1>6 DEF Receive, sessionVars

\* Handling a message keeps the type.
LEMMA ReceiveType ==
    ASSUME NEW p \in Products, NEW i \in 1..(1 + Overtaking), TypeOK, Receive(p, i)
    PROVE  TypeOK'
<1> DEFINE n == wire[p][i].id
<1> USE ContinuityAssumption
<1>0. /\ wire' \in [Products -> Seq(Messages)]
      /\ UNCHANGED <<latest, sent, replays, connected, session, missed>>
  BY ReceiveMessage
<1>1. CASE n \in TradeIds /\ HandleMatch(p, n)
  <2>1. TrackContinuity(p, n) /\ Observe(p, n)
    BY <1>1 DEF HandleMatch, TrackContinuity
  <2> HIDE DEF n
  <2>2. /\ last' \in [Products -> TradeIds \union {NoTrade}]
        /\ tracker' \in [gaps : Nat, lost : Nat, duplicates : Nat]
    BY <1>1, <2>1, ObserveEffect
  <2>3. metrics' \in [gaps : Nat, heartbeatGaps : Nat, lost : Nat, duplicates : Nat]
    BY <1>1, <2>1, MatchEffect
  <2>4. /\ first' \in [Products -> TradeIds \union {NoTrade}]
        /\ told' \in [Products -> (0..MaxTrade) \union {NoTrade}]
    <3>1. n \in 0..MaxTrade
      BY <1>1 DEF TradeIds
    <3> QED
      BY <1>1, <3>1, LargerType DEF HandleMatch, TypeOK
  <2>5. /\ tape' \in [Products -> SUBSET TradeIds]
        /\ got' \in [Products -> SUBSET TradeIds]
    BY <1>1 DEF HandleMatch, TypeOK
  <2> QED
    BY <1>0, <2>2, <2>3, <2>4, <2>5 DEF TypeOK
<1>2. CASE n \in 0..MaxTrade /\ HandleHeartbeat(p, n)
  <2> HIDE DEF n
  <2>1. /\ last' \in [Products -> TradeIds \union {NoTrade}]
        /\ tracker' \in [gaps : Nat, lost : Nat, duplicates : Nat]
        /\ metrics' \in [gaps : Nat, heartbeatGaps : Nat, lost : Nat, duplicates : Nat]
    <3>1. CASE UNCHANGED trackerVars
      BY <3>1 DEF trackerVars, TypeOK
    <3>2. CASE n \in TradeIds /\ Observe(p, n)
               /\ metrics' \in [gaps : Nat, heartbeatGaps : Nat, lost : Nat, duplicates : Nat]
      BY <3>2, ObserveEffect
    <3> QED
      BY <1>2, <3>1, <3>2, HeartbeatEffect
  <2>2. told' \in [Products -> (0..MaxTrade) \union {NoTrade}]
    BY <1>2, LargerType DEF HandleHeartbeat, Tell, TypeOK
  <2> QED
    BY <1>0, <1>2, <2>1, <2>2 DEF TypeOK, HandleHeartbeat, Tell
<1> QED
  BY <1>1, <1>2, ReceiveMessage

\* The constants a session starts from have the types of the variables.
LEMMA EmptyTypes ==
    /\ Drained \in [Products -> Seq(Messages)]
    /\ Nothing \in [Products -> SUBSET TradeIds]
    /\ Forgotten \in [Products -> TradeIds \union {NoTrade}]
    /\ Forgotten \in [Products -> (0..MaxTrade) \union {NoTrade}]
<1>1. << >> \in Seq(Messages)
  OBVIOUS
<1> QED
  BY <1>1 DEF Drained, Nothing, Forgotten

\* Every step keeps the types.
LEMMA TypeCorrectStep == TypeOK /\ [Next]_vars => TypeOK'
<1> SUFFICES ASSUME TypeOK, [Next]_vars PROVE TypeOK'
  OBVIOUS
<1>1. ASSUME NEW p \in Products, Feed(p) PROVE TypeOK'
  BY <1>1, FeedType
<1>2. ASSUME NEW p \in Products, NEW i \in 1..(1 + Overtaking), Receive(p, i) PROVE TypeOK'
  BY <1>2, ReceiveType
<1>3. CASE Connect
  BY <1>3, ContinuityAssumption
  DEF Connect, TypeOK, feedVars, trackerVars, historyVars
<1>4. CASE Disconnect
  <2>1. missed' \subseteq (0..MaxSessions) \X Products \X TradeIds
    BY <1>4 DEF Disconnect, AllMissing, SessionMissing, TypeOK
  <2> QED
    BY <1>4, <2>1, EmptyTypes DEF Disconnect, OnDisconnect, TypeOK
<1>5. CASE UNCHANGED vars
  BY <1>5 DEF vars, feedVars, sessionVars, trackerVars, historyVars, TypeOK
<1> QED
  BY <1>1, <1>2, <1>3, <1>4, <1>5 DEF Next

\* The type holds before the first connection.
LEMMA TypeCorrectInit == Init => TypeOK
<1> SUFFICES ASSUME Init PROVE TypeOK
  OBVIOUS
<1>1. latest \in [Products -> 0..MaxTrade]
  BY ContinuityAssumption DEF Init
<1>2. /\ tracker \in [gaps : Nat, lost : Nat, duplicates : Nat]
      /\ metrics \in [gaps : Nat, heartbeatGaps : Nat, lost : Nat, duplicates : Nat]
  BY SMT DEF Init
<1>3. replays \in 0..MaxReplays /\ session \in 0..MaxSessions /\ connected \in BOOLEAN
  <2>1. replays = 0 /\ session = 0 /\ connected = FALSE
    BY DEF Init
  <2>2. 0 \in 0..MaxReplays /\ 0 \in 0..MaxSessions
    BY ContinuityAssumption
  <2> QED
    BY <2>1, <2>2
<1>4. /\ wire \in [Products -> Seq(Messages)]
      /\ sent \in [Products -> SUBSET TradeIds]
      /\ tape \in [Products -> SUBSET TradeIds]
      /\ got \in [Products -> SUBSET TradeIds]
  BY EmptyTypes, Zenon DEF Init
<1>5. /\ last \in [Products -> TradeIds \union {NoTrade}]
      /\ first \in [Products -> TradeIds \union {NoTrade}]
      /\ told \in [Products -> (0..MaxTrade) \union {NoTrade}]
      /\ missed = {}
  BY EmptyTypes DEF Init
<1> QED
  BY <1>1, <1>2, <1>3, <1>4, <1>5 DEF TypeOK

\* Every variable keeps the shape sequence.py and the feed give it.
THEOREM TypeCorrect == Spec => []TypeOK
BY TypeCorrectInit, TypeCorrectStep, PTL DEF Spec

-----------------------------------------------------------------------------
(* The three things a message can do, in terms of the state. *)

Learns(p, n) ==
    /\ n \in TradeIds
    /\ last' \in [Products -> TradeIds \union {NoTrade}]
    /\ \A q \in Products : last'[q] = IF q = p THEN Larger(last[p], n) ELSE last[q]
    /\ \A q \in Products : told'[q] = IF q = p THEN Larger(told[p], n) ELSE told[q]

MatchArrives(p, n) ==
    /\ Learns(p, n)
    /\ \A q \in Products : first'[q] = IF q = p /\ first[p] = NoTrade THEN n ELSE first[q]
    /\ \A q \in Products : got'[q] = IF q = p THEN got[p] \union {n} ELSE got[q]
    /\ \A q \in Products : tape'[q] = IF q = p THEN tape[p] \union {n} ELSE tape[q]
    /\ tracker'.gaps = tracker.gaps + If(Verdict(p, n) = "gap")
    /\ tracker'.lost = tracker.lost + Missing(p, n)
    /\ tracker'.duplicates = tracker.duplicates + If(Verdict(p, n) = "duplicate")
    /\ metrics'.gaps = metrics.gaps + If(Verdict(p, n) = "gap")
    /\ metrics'.heartbeatGaps = metrics.heartbeatGaps
    /\ metrics'.lost = metrics.lost + Missing(p, n)
    /\ metrics'.duplicates = metrics.duplicates + If(Verdict(p, n) = "duplicate")
    /\ Missing(p, n) = IF last[p] = NoTrade \/ n <= last[p] THEN 0 ELSE n - last[p] - 1

HeartbeatAhead(p, n) ==
    /\ last[p] # NoTrade /\ n > last[p]
    /\ Learns(p, n)
    /\ UNCHANGED <<first, got, tape>>
    /\ tracker'.gaps = tracker.gaps + If(Verdict(p, n) = "gap")
    /\ tracker'.lost = tracker.lost + (n - last[p] - 1)
    /\ tracker'.duplicates = tracker.duplicates
    /\ metrics'.gaps = metrics.gaps
    /\ metrics'.heartbeatGaps = metrics.heartbeatGaps + 1
    /\ metrics'.lost = metrics.lost + (n - last[p])
    /\ metrics'.duplicates = metrics.duplicates

HeartbeatBehind(p, n) ==
    /\ last[p] = NoTrade \/ n <= last[p]
    /\ UNCHANGED <<trackerVars, told, first, got, tape>>

\* What handling a message comes to: a match that arrives, a heartbeat that is
\* ahead of the baseline, or one that is not.
LEMMA ReceiveEffect ==
    ASSUME NEW p \in Products, NEW i \in 1..(1 + Overtaking),
           TypeOK, SessionFacts, Receive(p, i)
    PROVE  /\ UNCHANGED <<latest, sent, replays, connected, session, missed>>
           /\ connected
           /\ \/ wire[p][i].type = "match" /\ MatchArrives(p, wire[p][i].id)
              \/ wire[p][i].type = "heartbeat" /\ HeartbeatAhead(p, wire[p][i].id)
              \/ wire[p][i].type = "heartbeat" /\ HeartbeatBehind(p, wire[p][i].id)
<1> DEFINE n == wire[p][i].id
<1>0. /\ UNCHANGED <<latest, sent, replays, connected, session, missed>>
      /\ connected
  BY ReceiveMessage DEF Receive
<1>1. ASSUME n \in TradeIds, HandleMatch(p, n)
      PROVE  MatchArrives(p, n)
  <2>1. TrackContinuity(p, n) /\ Observe(p, n)
    BY <1>1 DEF HandleMatch, TrackContinuity
  <2> HIDE DEF n
  <2>2. /\ last' \in [Products -> TradeIds \union {NoTrade}]
        /\ \A q \in Products : last'[q] = IF q = p THEN Larger(last[p], n) ELSE last[q]
        /\ tracker'.gaps = tracker.gaps + If(Verdict(p, n) = "gap")
        /\ tracker'.lost = tracker.lost + Missing(p, n)
        /\ tracker'.duplicates = tracker.duplicates + If(Verdict(p, n) = "duplicate")
        /\ Missing(p, n) = IF last[p] = NoTrade \/ n <= last[p] THEN 0 ELSE n - last[p] - 1
    BY <1>1, <2>1, ObserveEffect
  <2>3. /\ \A q \in Products : told'[q] = IF q = p THEN Larger(told[p], n) ELSE told[q]
        /\ \A q \in Products : first'[q] = IF q = p /\ first[p] = NoTrade THEN n ELSE first[q]
        /\ \A q \in Products : got'[q] = IF q = p THEN got[p] \union {n} ELSE got[q]
        /\ \A q \in Products : tape'[q] = IF q = p THEN tape[p] \union {n} ELSE tape[q]
    BY <1>1 DEF HandleMatch, TypeOK
  <2>4. /\ metrics'.gaps = metrics.gaps + If(Verdict(p, n) = "gap")
        /\ metrics'.heartbeatGaps = metrics.heartbeatGaps
        /\ metrics'.lost = metrics.lost + Missing(p, n)
        /\ metrics'.duplicates = metrics.duplicates + If(Verdict(p, n) = "duplicate")
    BY <1>1, <2>1, MatchEffect
  <2> QED
    BY <1>1, <2>2, <2>3, <2>4 DEF MatchArrives, Learns
<1>2. ASSUME n \in 0..MaxTrade, HandleHeartbeat(p, n)
      PROVE  HeartbeatAhead(p, n) \/ HeartbeatBehind(p, n)
  <2> HIDE DEF n
  <2>1. UNCHANGED <<first, got, tape>>
    BY <1>2 DEF HandleHeartbeat, Tell
  <2>2. /\ last[p] = told[p]
        /\ first[p] = NoTrade <=> last[p] = NoTrade
        /\ last[p] \in Int /\ n \in Int
    BY <1>2, ContinuityAssumption DEF SessionFacts, TypeOK, TradeIds
  <2>3. CASE (last[p] = NoTrade \/ n <= last[p]) /\ UNCHANGED trackerVars
    <3>1. told' = told
      BY <1>2, <2>2, <2>3 DEF HandleHeartbeat, Tell, Larger, TypeOK
    <3> QED
      BY <2>1, <2>3, <3>1 DEF HeartbeatBehind
  <2>4. CASE /\ last[p] # NoTrade /\ n > last[p] /\ n \in TradeIds
             /\ Observe(p, n)
             /\ metrics'.gaps = metrics.gaps
             /\ metrics'.heartbeatGaps = metrics.heartbeatGaps + 1
             /\ metrics'.lost = metrics.lost + (n - last[p])
             /\ metrics'.duplicates = metrics.duplicates
    <3>1. \A q \in Products : told'[q] = IF q = p THEN Larger(told[p], n) ELSE told[q]
      BY <1>2, <2>2, <2>4 DEF HandleHeartbeat, Tell, TypeOK
    <3>2. /\ last' \in [Products -> TradeIds \union {NoTrade}]
          /\ \A q \in Products : last'[q] = IF q = p THEN Larger(last[p], n) ELSE last[q]
          /\ tracker' \in [gaps : Nat, lost : Nat, duplicates : Nat]
          /\ tracker'.gaps = tracker.gaps + If(Verdict(p, n) = "gap")
          /\ tracker'.lost = tracker.lost + Missing(p, n)
          /\ tracker'.duplicates = tracker.duplicates + If(Verdict(p, n) = "duplicate")
          /\ Missing(p, n) = IF last[p] = NoTrade \/ n <= last[p] THEN 0 ELSE n - last[p] - 1
      BY <2>4, ObserveEffect
    <3>3. Missing(p, n) = n - last[p] - 1
      BY <2>2, <2>4, <3>2
    <3>4. If(Verdict(p, n) = "duplicate") = 0
      BY <1>2, <2>2, <2>4, VerdictCases DEF If
    <3>5. tracker'.duplicates = tracker.duplicates
      BY <3>2, <3>4 DEF TypeOK
    <3> QED
      BY <2>1, <2>4, <3>1, <3>2, <3>3, <3>5 DEF HeartbeatAhead, Learns
  <2> QED
    BY <1>2, <2>3, <2>4, HeartbeatEffect
<1> QED
  BY <1>0, <1>1, <1>2, ReceiveMessage

-----------------------------------------------------------------------------
(* What holds on any feed. *)

\* The facts about a session that do not depend on the order of the feed.
LEMMA SessionStep == TypeOK /\ SessionFacts /\ [Next]_vars => SessionFacts'
<1> SUFFICES ASSUME TypeOK, SessionFacts, [Next]_vars PROVE SessionFacts'
  OBVIOUS
<1>1. ASSUME NEW p \in Products, Feed(p) PROVE SessionFacts'
  <2>1. UNCHANGED <<connected, session, last, first, told, got, missed>>
    BY <1>1 DEF Feed, Trade, DropTrade, LastMatch, Replay, Beat,
                sessionVars, trackerVars, historyVars
  <2> QED
    BY <2>1 DEF SessionFacts
<1>2. ASSUME NEW p \in Products, NEW i \in 1..(1 + Overtaking), Receive(p, i)
      PROVE  SessionFacts'
  <2> DEFINE n == wire[p][i].id
  <2>1. UNCHANGED <<connected, session, missed>> /\ connected
    BY <1>2, ReceiveEffect
  <2>2. \A q \in Products : last[q] \in Int /\ first[q] \in Int /\ told[q] \in Int
                            /\ got[q] \subseteq Int
    BY ContinuityAssumption DEF TypeOK, TradeIds
  <2>3. CASE MatchArrives(p, n)
    <3> HIDE DEF n
    <3>1. n \in Int /\ n # NoTrade /\ n >= 1
      BY <2>3, ContinuityAssumption DEF MatchArrives, Learns, TradeIds
    <3>3. ASSUME NEW q \in Products
          PROVE  /\ last'[q] = told'[q]
                 /\ first'[q] = NoTrade <=> last'[q] = NoTrade
                 /\ first'[q] <= last'[q]
                 /\ first'[q] # NoTrade => first'[q] \in got'[q]
                 /\ \A k \in got'[q] : k <= last'[q]
      <4>1. CASE q # p
        BY <2>3, <4>1 DEF MatchArrives, Learns, SessionFacts
      <4>2. CASE q = p
        <5>1. /\ last'[p] = Larger(last[p], n) /\ told'[p] = Larger(told[p], n)
              /\ first'[p] = IF first[p] = NoTrade THEN n ELSE first[p]
              /\ got'[p] = got[p] \union {n}
          BY <2>3 DEF MatchArrives, Learns
        <5>2. last'[p] = told'[p] /\ last'[p] >= last[p] /\ last'[p] >= n /\ last'[p] # NoTrade
              /\ last'[p] \in Int
          BY <2>2, <3>1, <5>1 DEF Larger, SessionFacts
        <5>3. /\ first'[p] # NoTrade
              /\ first'[p] <= last'[p]
              /\ first'[p] \in got'[p]
          BY <2>2, <3>1, <5>1, <5>2 DEF SessionFacts
        <5>4. \A k \in got'[p] : k <= last'[p]
          BY <2>2, <3>1, <5>1, <5>2 DEF SessionFacts
        <5> QED
          BY <4>2, <5>2, <5>3, <5>4
      <4> QED
        BY <4>1, <4>2
    <3> QED
      BY <2>1, <3>3 DEF SessionFacts
  <2>4. CASE HeartbeatAhead(p, n)
    <3> HIDE DEF n
    <3>1. n \in Int /\ n >= 1
      BY <2>4, ContinuityAssumption DEF HeartbeatAhead, Learns, TradeIds
    <3>2. ASSUME NEW q \in Products
          PROVE  /\ last'[q] = told'[q]
                 /\ first'[q] = NoTrade <=> last'[q] = NoTrade
                 /\ first'[q] <= last'[q]
                 /\ first'[q] # NoTrade => first'[q] \in got'[q]
                 /\ \A k \in got'[q] : k <= last'[q]
      <4>1. CASE q # p
        BY <2>4, <4>1 DEF HeartbeatAhead, Learns, SessionFacts
      <4>2. CASE q = p
        <5>1. last'[p] = n /\ told'[p] = n /\ n > last[p] /\ last[p] # NoTrade
              /\ UNCHANGED <<first, got>>
          BY <2>2, <2>4, <3>1 DEF HeartbeatAhead, Learns, Larger, SessionFacts
        <5>2. \A k \in got'[p] : k <= last'[p]
          BY <2>2, <3>1, <5>1 DEF SessionFacts
        <5> QED
          BY <2>2, <3>1, <4>2, <5>1, <5>2 DEF SessionFacts
      <4> QED
        BY <4>1, <4>2
    <3> QED
      BY <2>1, <3>2 DEF SessionFacts
  <2>5. CASE HeartbeatBehind(p, n)
    BY <2>1, <2>5 DEF HeartbeatBehind, trackerVars, SessionFacts
  <2> QED
    BY <1>2, <2>3, <2>4, <2>5, ReceiveEffect
<1>3. CASE Connect
  <2>1. UNCHANGED <<last, first, told, got, missed>> /\ session' = session + 1
        /\ ~connected /\ connected'
    BY <1>3 DEF Connect, trackerVars, historyVars
  <2>2. session \in Int /\ \A m \in missed : m[1] \in Int
    BY ContinuityAssumption DEF TypeOK
  <2> QED
    BY <2>1, <2>2 DEF SessionFacts
<1>4. CASE Disconnect
  <2>1. /\ last' = Forgotten /\ first' = Forgotten /\ told' = Forgotten /\ got' = Nothing
        /\ ~connected' /\ session' = session /\ missed' = AllMissing
    BY <1>4 DEF Disconnect, OnDisconnect
  <2>2. session \in Int
    BY ContinuityAssumption DEF TypeOK
  <2>3. \A m \in missed' : m[1] <= session'
    BY <2>1, <2>2 DEF AllMissing, SessionMissing, SessionFacts
  <2> QED
    BY <2>1, <2>3 DEF SessionFacts, Forgotten, Nothing
<1>5. CASE UNCHANGED vars
  BY <1>5 DEF vars, sessionVars, trackerVars, historyVars, SessionFacts
<1> QED
  BY <1>1, <1>2, <1>3, <1>4, <1>5 DEF Next

\* The facts about the session hold in every state, on every feed.
LEMMA SessionCorrect == Spec => [](TypeOK /\ SessionFacts)
<1>1. Init => SessionFacts
  BY DEF Init, SessionFacts, Forgotten, Nothing
<1> QED
  BY <1>1, SessionStep, TypeCorrect, PTL DEF Spec

\* observe keeps the baseline at the highest id heard of in the session.
THEOREM BaselineCorrect == Spec => []BaselineIsHighestTold
<1>1. TypeOK /\ SessionFacts => BaselineIsHighestTold
  BY DEF SessionFacts, BaselineIsHighestTold
<1> QED
  BY <1>1, SessionCorrect, PTL

\* A replay or a straggler never moves a baseline back.
THEOREM BaselineMonotone == Spec => BaselineNeverRewinds
<1> DEFINE Forward ==
      \A p \in Products : last'[p] < last[p] => last'[p] = NoTrade /\ ~connected'
<1>1. TypeOK /\ SessionFacts /\ [Next]_vars => [Forward]_vars
  <2> SUFFICES ASSUME TypeOK, SessionFacts, Next PROVE Forward
    BY DEF vars
  <2>0. \A p \in Products : last[p] \in Int
    BY ContinuityAssumption DEF TypeOK, TradeIds
  <2>1. CASE last' = last
    BY <2>0, <2>1
  <2>2. ASSUME NEW p \in Products, NEW i \in 1..(1 + Overtaking), Receive(p, i)
        PROVE  Forward
    <3> DEFINE n == wire[p][i].id
    <3>1. CASE HeartbeatBehind(p, n)
      BY <2>1, <3>1 DEF HeartbeatBehind, trackerVars
    <3>2. CASE Learns(p, n)
      <4>1. n \in Int
        BY <3>2, ContinuityAssumption DEF Learns, TradeIds
      <4> HIDE DEF n
      <4>2. \A q \in Products : last'[q] >= last[q] /\ last'[q] \in Int
        BY <2>0, <3>2, <4>1 DEF Learns, Larger
      <4> QED
        BY <2>0, <4>2
    <3> QED
      BY <2>2, <3>1, <3>2, ReceiveEffect DEF MatchArrives, HeartbeatAhead
  <2>3. CASE Disconnect
    BY <2>3 DEF Disconnect, OnDisconnect, Forgotten
  <2>4. CASE Connect
    BY <2>1, <2>4 DEF Connect, trackerVars
  <2>5. ASSUME NEW p \in Products, Feed(p) PROVE Forward
    BY <2>1, <2>5 DEF Feed, Trade, DropTrade, LastMatch, Replay, Beat, trackerVars
  <2> QED
    BY <2>2, <2>3, <2>4, <2>5 DEF Next
<1> QED
  BY <1>1, SessionCorrect, PTL DEF Spec, BaselineNeverRewinds

\* The tracker's and the metrics' ledgers differ by one per heartbeat gap.
THEOREM LedgersAgree == Spec => []TwoLedgersAgree
<1>1. Init => TwoLedgersAgree
  BY DEF Init, TwoLedgersAgree
<1>2. TypeOK /\ SessionFacts /\ TwoLedgersAgree /\ [Next]_vars => TwoLedgersAgree'
  <2> SUFFICES ASSUME TypeOK, SessionFacts, TwoLedgersAgree, [Next]_vars
               PROVE  TwoLedgersAgree'
    OBVIOUS
  <2>0. /\ tracker.gaps \in Nat /\ tracker.lost \in Nat /\ tracker.duplicates \in Nat
        /\ metrics.gaps \in Nat /\ metrics.heartbeatGaps \in Nat /\ metrics.lost \in Nat
        /\ metrics.duplicates \in Nat
    BY DEF TypeOK
  <2>1. CASE UNCHANGED <<tracker, metrics>>
    BY <2>1 DEF TwoLedgersAgree
  <2>2. ASSUME NEW p \in Products, NEW i \in 1..(1 + Overtaking), Receive(p, i)
        PROVE  TwoLedgersAgree'
    <3> DEFINE n == wire[p][i].id
               g == If(Verdict(p, n) = "gap")
               d == If(Verdict(p, n) = "duplicate")
    <3>1. g \in {0, 1} /\ d \in {0, 1}
      BY DEF If
    <3>2. CASE MatchArrives(p, n)
      <4>1. Missing(p, n) \in Nat
        <5>1. last[p] \in Int /\ n \in Int
          BY <3>2, ContinuityAssumption DEF MatchArrives, Learns, TypeOK, TradeIds
        <5>2. Missing(p, n) = IF last[p] = NoTrade \/ n <= last[p] THEN 0 ELSE n - last[p] - 1
          BY <3>2 DEF MatchArrives
        <5> HIDE DEF n
        <5> QED
          BY <5>1, <5>2
      <4>2. /\ tracker'.gaps = tracker.gaps + g
            /\ tracker'.lost = tracker.lost + Missing(p, n)
            /\ tracker'.duplicates = tracker.duplicates + d
            /\ metrics'.gaps = metrics.gaps + g
            /\ metrics'.heartbeatGaps = metrics.heartbeatGaps
            /\ metrics'.lost = metrics.lost + Missing(p, n)
            /\ metrics'.duplicates = metrics.duplicates + d
        BY <3>2 DEF MatchArrives
      <4> HIDE DEF n, g, d
      <4> QED
        BY <2>0, <3>1, <4>1, <4>2 DEF TwoLedgersAgree
    <3>3. CASE HeartbeatAhead(p, n)
      <4>a. n \in Int
        BY <3>3, ContinuityAssumption DEF HeartbeatAhead, Learns, TradeIds
      <4>b. last[p] \in Int
        BY ContinuityAssumption DEF TypeOK, TradeIds
      <4>1. last[p] \in Int /\ n \in Int
        BY <4>a, <4>b
      <4>2. /\ tracker'.gaps = tracker.gaps + g
            /\ tracker'.lost = tracker.lost + (n - last[p] - 1)
            /\ tracker'.duplicates = tracker.duplicates
            /\ metrics'.gaps = metrics.gaps
            /\ metrics'.heartbeatGaps = metrics.heartbeatGaps + 1
            /\ metrics'.lost = metrics.lost + (n - last[p])
            /\ metrics'.duplicates = metrics.duplicates
        BY <3>3 DEF HeartbeatAhead
      <4> HIDE DEF n, g, d
      <4> QED
        BY <2>0, <3>1, <4>1, <4>2 DEF TwoLedgersAgree
    <3>4. CASE HeartbeatBehind(p, n)
      BY <2>1, <3>4 DEF HeartbeatBehind, trackerVars
    <3> QED
      BY <2>2, <3>2, <3>3, <3>4, ReceiveEffect
  <2>3. CASE Disconnect
    BY <2>1, <2>3 DEF Disconnect, OnDisconnect
  <2>4. CASE Connect
    BY <2>1, <2>4 DEF Connect, trackerVars
  <2>5. ASSUME NEW p \in Products, Feed(p) PROVE TwoLedgersAgree'
    BY <2>1, <2>5 DEF Feed, Trade, DropTrade, LastMatch, Replay, Beat, trackerVars
  <2>6. CASE UNCHANGED vars
    BY <2>1, <2>6 DEF vars, trackerVars
  <2> QED
    BY <2>2, <2>3, <2>4, <2>5, <2>6 DEF Next
<1> QED
  BY <1>1, <1>2, SessionCorrect, PTL DEF Spec

\* Whatever the verdict, a trade that arrives is published.
THEOREM ReceivedReachTheTape == Spec => []ReceivedIsPublished
<1>1. Init => ReceivedIsPublished
  BY DEF Init, ReceivedIsPublished, Nothing
<1>2. TypeOK /\ SessionFacts /\ ReceivedIsPublished /\ [Next]_vars => ReceivedIsPublished'
  <2> SUFFICES ASSUME TypeOK, SessionFacts, ReceivedIsPublished, [Next]_vars
               PROVE  ReceivedIsPublished'
    OBVIOUS
  <2>1. CASE UNCHANGED <<got, tape>>
    BY <2>1 DEF ReceivedIsPublished
  <2>2. ASSUME NEW p \in Products, NEW i \in 1..(1 + Overtaking), Receive(p, i)
        PROVE  ReceivedIsPublished'
    <3> DEFINE n == wire[p][i].id
    <3>1. CASE MatchArrives(p, n)
      <4> HIDE DEF n
      <4> QED
        BY <3>1 DEF MatchArrives, ReceivedIsPublished
    <3>2. CASE HeartbeatAhead(p, n) \/ HeartbeatBehind(p, n)
      BY <2>1, <3>2 DEF HeartbeatAhead, HeartbeatBehind
    <3> QED
      BY <2>2, <3>1, <3>2, ReceiveEffect
  <2>3. CASE Disconnect
    BY <2>3 DEF Disconnect, Nothing, ReceivedIsPublished
  <2>4. CASE Connect
    BY <2>1, <2>4 DEF Connect, historyVars
  <2>5. ASSUME NEW p \in Products, Feed(p) PROVE ReceivedIsPublished'
    BY <2>1, <2>5 DEF Feed, Trade, DropTrade, LastMatch, Replay, Beat, historyVars
  <2>6. CASE UNCHANGED vars
    BY <2>1, <2>6 DEF vars, historyVars
  <2> QED
    BY <2>2, <2>3, <2>4, <2>5, <2>6 DEF Next
<1> QED
  BY <1>1, <1>2, SessionCorrect, PTL DEF Spec

-----------------------------------------------------------------------------
(* Counting. *)

Tagged(s, p, a, b) == {s} \X {p} \X (a..b)

\* The ids of an interval, tagged with a session and a product, number as many.
LEMMA TaggedInterval ==
    ASSUME NEW s, NEW p, NEW a \in Int, NEW b \in Int, a <= b + 1
    PROVE  IsFiniteSet(Tagged(s, p, a, b)) /\ Cardinality(Tagged(s, p, a, b)) = b - a + 1
<1> DEFINE T == Tagged(s, p, a, b)
           f == [n \in a..b |-> <<s, p, n>>]
<1>1. f \in Bijection(a..b, T)
  <2>1. f \in [a..b -> T]
    BY DEF Tagged
  <2>2. \A x, y \in a..b : f[x] = f[y] => x = y
    BY DEF Tagged
  <2>3. \A t \in T : \E x \in a..b : f[x] = t
    <3> SUFFICES ASSUME NEW t \in T PROVE \E x \in a..b : f[x] = t
      BY DEF Tagged
    <3>1. PICK x \in a..b : t = <<s, p, x>>
      BY DEF Tagged
    <3> QED
      BY <3>1
  <2> HIDE DEF f, T
  <2> QED
    BY <2>1, <2>2, <2>3 DEF Bijection, Injection, Surjection, IsInjective
<1>2. IsFiniteSet(a..b) /\ Cardinality(a..b) = b - a + 1
  BY FS_Interval
<1> HIDE DEF f, T
<1>3. ExistsBijection(a..b, T)
  BY <1>1 DEF ExistsBijection
<1>4. IsFiniteSet(T) /\ Cardinality(T) = Cardinality(a..b)
  BY <1>2, <1>3, FS_Bijection
<1> QED
  BY <1>2, <1>4 DEF T

\* Whose the missing ids are: ended sessions', or holes of the open one.
LEMMA MissingMembers ==
    /\ \A m \in AllMissing : m \in missed \/ \E q \in Products, k \in TradeIds :
                                m = <<session, q, k>> /\ Hole(q, k)
    /\ missed \subseteq AllMissing
    /\ \A q \in Products, k \in TradeIds : Hole(q, k) => <<session, q, k>> \in AllMissing
BY DEF AllMissing, SessionMissing

\* The ids a message at n skips when the baseline is below it.
Skipped(p, a, b) == Tagged(session, p, a, b)

\* A match adds at most the ids between the baseline and itself to the missing.
LEMMA MatchGrows ==
    ASSUME NEW p \in Products, NEW n \in TradeIds, TypeOK, SessionFacts,
           MatchArrives(p, n), UNCHANGED <<session, missed>>
    PROVE  AllMissing' \subseteq AllMissing \union
              (IF last[p] = NoTrade \/ n <= last[p] THEN {} ELSE Skipped(p, last[p] + 1, n - 1))
<1>0. /\ n \in Int /\ n >= 1
      /\ \A q \in Products : last[q] \in Int /\ first[q] \in Int /\ last[q] = told[q]
                             /\ (first[q] = NoTrade <=> last[q] = NoTrade)
                             /\ first[q] <= last[q]
      /\ \A k \in TradeIds : k \in Int
  BY ContinuityAssumption DEF TypeOK, TradeIds, SessionFacts
<1>1. ASSUME NEW q \in Products, NEW k \in TradeIds, Hole(q, k)'
      PROVE  \/ Hole(q, k)
             \/ q = p /\ last[p] # NoTrade /\ last[p] < k /\ k < n
  <2>1. CASE q # p
    BY <1>1, <2>1 DEF MatchArrives, Learns, Hole
  <2>2. CASE q = p
    <3>1. /\ told'[p] = Larger(told[p], n)
          /\ first'[p] = IF first[p] = NoTrade THEN n ELSE first[p]
          /\ got'[p] = got[p] \union {n}
      BY DEF MatchArrives, Learns
    <3>2. first'[p] <= k /\ k <= told'[p] /\ k \notin got[p] /\ k # n
      BY <1>1, <2>2, <3>1 DEF Hole
    <3>3. k \in Int /\ last[p] = told[p]
      BY <1>0
    <3>4. CASE last[p] = NoTrade
      BY <1>0, <3>1, <3>2, <3>3, <3>4 DEF Larger
    <3>5. CASE last[p] # NoTrade /\ k <= last[p]
      BY <1>0, <2>2, <3>1, <3>2, <3>3, <3>5 DEF Hole
    <3>6. CASE last[p] # NoTrade /\ k > last[p]
      BY <1>0, <2>2, <3>1, <3>2, <3>3, <3>6 DEF Larger
    <3> QED
      BY <1>0, <3>3, <3>4, <3>5, <3>6
  <2> QED
    BY <2>1, <2>2
<1>2. SUFFICES ASSUME NEW m \in AllMissing', m \notin AllMissing
               PROVE  /\ last[p] # NoTrade /\ n > last[p]
                      /\ m \in Skipped(p, last[p] + 1, n - 1)
  BY <1>0
<1>3. m \notin missed
  BY <1>2, MissingMembers
<1>4. PICK q \in Products, k \in TradeIds : m = <<session, q, k>> /\ Hole(q, k)'
  <2>1. m \in missed' \/ \E q \in Products, k \in TradeIds : m = <<session', q, k>> /\ Hole(q, k)'
    BY <1>2 DEF AllMissing, SessionMissing
  <2> QED
    BY <1>3, <2>1
<1>5. ~Hole(q, k)
  BY <1>2, <1>4, MissingMembers
<1>6. q = p /\ last[p] # NoTrade /\ last[p] < k /\ k < n
  BY <1>1, <1>4, <1>5
<1>7. k \in (last[p] + 1)..(n - 1) /\ n > last[p]
  BY <1>0, <1>6
<1> QED
  BY <1>4, <1>6, <1>7 DEF Skipped, Tagged

\* A heartbeat ahead of the baseline adds exactly the ids up to its own.
LEMMA HeartbeatGrows ==
    ASSUME NEW p \in Products, NEW n \in TradeIds, TypeOK, SessionFacts, connected,
           HeartbeatAhead(p, n), UNCHANGED <<session, missed>>
    PROVE  /\ AllMissing' = AllMissing \union Skipped(p, last[p] + 1, n)
           /\ AllMissing \cap Skipped(p, last[p] + 1, n) = {}
<1>b. n \in 1..MaxTrade /\ last[p] \in 1..MaxTrade /\ MaxTrade \in Nat
  BY ContinuityAssumption DEF TypeOK, TradeIds, HeartbeatAhead
<1>c. (last[p] + 1)..n \subseteq TradeIds
  BY <1>b DEF TradeIds
<1>d. /\ \A q \in Products : last[q] \in Int /\ first[q] \in Int /\ last[q] = told[q]
                             /\ (first[q] = NoTrade <=> last[q] = NoTrade)
                             /\ first[q] <= last[q]
      /\ \A k \in TradeIds : k \in Int
  BY ContinuityAssumption DEF TypeOK, TradeIds, SessionFacts
<1>e. n > last[p] /\ last[p] # NoTrade
  BY DEF HeartbeatAhead
<1>0. /\ n \in Int /\ n > last[p] /\ last[p] # NoTrade
      /\ \A q \in Products : last[q] \in Int /\ first[q] \in Int /\ last[q] = told[q]
                             /\ (first[q] = NoTrade <=> last[q] = NoTrade)
                             /\ first[q] <= last[q]
      /\ \A k \in TradeIds : k \in Int
      /\ (last[p] + 1)..n \subseteq TradeIds
      /\ \A k \in got[p] : k <= last[p]
  BY <1>b, <1>c, <1>d, <1>e DEF SessionFacts
<1>a. got[p] \subseteq Int
  BY <1>0 DEF TypeOK
<1>1. ASSUME NEW q \in Products, NEW k \in TradeIds
      PROVE  Hole(q, k)' <=> Hole(q, k) \/ (q = p /\ k \in (last[p] + 1)..n)
  <2>1. CASE q # p
    BY <2>1 DEF HeartbeatAhead, Learns, Hole
  <2>2. CASE q = p
    <3>1. told'[p] = n /\ first' = first /\ got' = got
      BY <1>0 DEF HeartbeatAhead, Learns, Larger
    <3>2. k \in Int
      BY <1>0
    <3> QED
      BY <1>0, <1>a, <2>2, <3>1, <3>2 DEF Hole
  <2> QED
    BY <2>1, <2>2
<1>2. SessionMissing' = SessionMissing \union Skipped(p, last[p] + 1, n)
  <2>1. ASSUME NEW m \in SessionMissing'
        PROVE  m \in SessionMissing \union Skipped(p, last[p] + 1, n)
    <3>1. PICK q \in Products, k \in TradeIds : m = <<session, q, k>> /\ Hole(q, k)'
      BY <2>1 DEF SessionMissing
    <3> QED
      BY <1>1, <3>1 DEF SessionMissing, Skipped, Tagged
  <2>2. ASSUME NEW m \in SessionMissing PROVE m \in SessionMissing'
    <3>1. PICK q \in Products, k \in TradeIds : m = <<session, q, k>> /\ Hole(q, k)
      BY <2>2 DEF SessionMissing
    <3> QED
      BY <1>1, <3>1 DEF SessionMissing
  <2>3. ASSUME NEW m \in Skipped(p, last[p] + 1, n) PROVE m \in SessionMissing'
    <3>1. PICK k \in (last[p] + 1)..n : m = <<session, p, k>>
      BY <2>3 DEF Skipped, Tagged
    <3>2. k \in TradeIds /\ Hole(p, k)'
      BY <1>0, <1>1, <3>1
    <3> QED
      BY <3>1, <3>2 DEF SessionMissing
  <2> QED
    BY <2>1, <2>2, <2>3
<1>3. ASSUME NEW m \in Skipped(p, last[p] + 1, n) PROVE m \notin AllMissing
  <2>1. PICK k \in (last[p] + 1)..n : m = <<session, p, k>>
    BY <1>3 DEF Skipped, Tagged
  <2>2. m \notin missed
    BY SMTT(30), <2>1, ContinuityAssumption DEF SessionFacts, TypeOK
  <2>3. ~Hole(p, k)
    BY <1>0, <2>1 DEF Hole
  <2> QED
    BY <2>1, <2>2, <2>3 DEF AllMissing, SessionMissing
<1> QED
  BY <1>2, <1>3 DEF AllMissing

\* Everything but a message leaves the set of missing trades as it is.
LEMMA MissingUnchanged ==
    ASSUME TypeOK, SessionFacts,
           \/ Connect
           \/ Disconnect
           \/ UNCHANGED vars
           \/ \E p \in Products : Feed(p)
    PROVE  AllMissing' = AllMissing /\ metrics' = metrics
<1>1. CASE Connect
  <2>1. \A p \in Products : first[p] = NoTrade
    BY <1>1 DEF Connect, SessionFacts
  <2>2. UNCHANGED <<first, told, got, missed, metrics>>
    BY <1>1 DEF Connect, historyVars, trackerVars
  <2> QED
    BY <2>1, <2>2 DEF AllMissing, SessionMissing, Hole
<1>2. CASE Disconnect
  <2>1. SessionMissing' = {}
    BY <1>2 DEF Disconnect, SessionMissing, Hole, Forgotten
  <2> QED
    BY <1>2, <2>1 DEF Disconnect, OnDisconnect, AllMissing
<1>3. CASE UNCHANGED vars
  BY <1>3 DEF vars, sessionVars, historyVars, trackerVars, AllMissing, SessionMissing, Hole
<1>4. ASSUME NEW p \in Products, Feed(p)
      PROVE  AllMissing' = AllMissing /\ metrics' = metrics
  <2>1. UNCHANGED <<session, first, told, got, missed, metrics>>
    BY <1>4 DEF Feed, Trade, DropTrade, LastMatch, Replay, Beat,
                sessionVars, trackerVars, historyVars
  <2> QED
    BY <2>1 DEF AllMissing, SessionMissing, Hole
<1> QED
  BY <1>1, <1>2, <1>3, <1>4

\* An interval of ids has as many members as its ends say.
LEMMA SkippedCount ==
    ASSUME NEW p \in Products, NEW a \in Int, NEW b \in Int, a <= b + 1
    PROVE  IsFiniteSet(Skipped(p, a, b)) /\ Cardinality(Skipped(p, a, b)) = b - a + 1
BY TaggedInterval DEF Skipped

\* Growing by at most a set of k elements adds at most k to the count, ...
LEMMA CountAtMost ==
    ASSUME NEW S, NEW T, NEW U, IsFiniteSet(S), IsFiniteSet(T), U \subseteq S \union T
    PROVE  IsFiniteSet(U) /\ Cardinality(U) <= Cardinality(S) + Cardinality(T)
<1>1. IsFiniteSet(S \union T) /\ IsFiniteSet(S \intersect T)
      /\ Cardinality(S \union T) = Cardinality(S) + Cardinality(T) - Cardinality(S \intersect T)
  BY FS_Union, FS_Intersection
<1>2. IsFiniteSet(U) /\ Cardinality(U) <= Cardinality(S \union T)
  BY <1>1, FS_Subset
<1>3. /\ Cardinality(S) \in Nat /\ Cardinality(T) \in Nat /\ Cardinality(U) \in Nat
      /\ Cardinality(S \intersect T) \in Nat /\ Cardinality(S \union T) \in Nat
  BY <1>1, <1>2, FS_CardinalityType
<1> QED
  BY <1>1, <1>2, <1>3

\* ... and growing by k new elements adds exactly k.
LEMMA CountExactly ==
    ASSUME NEW S, NEW T, IsFiniteSet(S), IsFiniteSet(T), S \intersect T = {}
    PROVE  IsFiniteSet(S \union T)
           /\ Cardinality(S \union T) = Cardinality(S) + Cardinality(T)
<1>1. IsFiniteSet(S \union T)
      /\ Cardinality(S \union T) = Cardinality(S) + Cardinality(T) - Cardinality(S \intersect T)
  BY FS_Union
<1>2. Cardinality(S \intersect T) = 0
  BY FS_EmptySet
<1>3. Cardinality(S) \in Nat /\ Cardinality(T) \in Nat
  BY FS_CardinalityType
<1> QED
  BY <1>1, <1>2, <1>3

LossCovered == IsFiniteSet(AllMissing) /\ LossNeverUnderstated

\* messages_lost_total is never below the number of missing trades, in whatever
\* order the feed delivers.
THEOREM NoHiddenLoss == Spec => []LossNeverUnderstated
<1>1. Init => LossCovered
  <2> SUFFICES ASSUME Init PROVE LossCovered
    OBVIOUS
  <2>1. AllMissing = {} /\ metrics.lost = 0
    BY DEF Init, AllMissing, SessionMissing, Hole, Forgotten
  <2> QED
    BY <2>1, FS_EmptySet DEF LossCovered, LossNeverUnderstated
<1>2. TypeOK /\ SessionFacts /\ LossCovered /\ [Next]_vars => LossCovered'
  <2> SUFFICES ASSUME TypeOK, SessionFacts, LossCovered, [Next]_vars PROVE LossCovered'
    OBVIOUS
  <2>0. /\ IsFiniteSet(AllMissing) /\ metrics.lost >= Cardinality(AllMissing)
        /\ Cardinality(AllMissing) \in Nat /\ metrics.lost \in Nat
    BY FS_CardinalityType DEF LossCovered, LossNeverUnderstated, TypeOK
  <2>1. ASSUME NEW T, IsFiniteSet(T), AllMissing' \subseteq AllMissing \union T,
               metrics'.lost = metrics.lost + Cardinality(T)
        PROVE  LossCovered'
    <3>1. IsFiniteSet(AllMissing') /\ Cardinality(AllMissing') <= Cardinality(AllMissing) + Cardinality(T)
      BY <2>0, <2>1, CountAtMost
    <3>2. Cardinality(AllMissing') \in Nat /\ Cardinality(T) \in Nat
      BY <2>1, <3>1, FS_CardinalityType
    <3> QED
      BY <2>0, <2>1, <3>1, <3>2 DEF LossCovered, LossNeverUnderstated
  <2>2. ASSUME NEW p \in Products, NEW i \in 1..(1 + Overtaking), Receive(p, i)
        PROVE  LossCovered'
    <3> DEFINE n == wire[p][i].id
    <3>0. UNCHANGED <<session, missed>> /\ connected
      BY <2>2, ReceiveEffect
    <3>1. CASE MatchArrives(p, n)
      <4>1. n \in TradeIds /\ n \in Int /\ last[p] \in Int
        BY <3>1, ContinuityAssumption DEF MatchArrives, Learns, TypeOK, TradeIds
      <4>2. metrics'.lost = metrics.lost
              + (IF last[p] = NoTrade \/ n <= last[p] THEN 0 ELSE n - last[p] - 1)
        BY <3>1 DEF MatchArrives
      <4> HIDE DEF n
      <4> DEFINE T == IF last[p] = NoTrade \/ n <= last[p] THEN {}
                      ELSE Skipped(p, last[p] + 1, n - 1)
      <4>3. AllMissing' \subseteq AllMissing \union T
        BY <3>0, <3>1, <4>1, MatchGrows
      <4>4. IsFiniteSet(T) /\ Cardinality(T)
              = (IF last[p] = NoTrade \/ n <= last[p] THEN 0 ELSE n - last[p] - 1)
        <5>1. CASE last[p] = NoTrade \/ n <= last[p]
          BY <5>1, FS_EmptySet
        <5>2. CASE ~(last[p] = NoTrade \/ n <= last[p])
          <6>1. last[p] + 1 <= (n - 1) + 1 /\ (n - 1) - (last[p] + 1) + 1 = n - last[p] - 1
                /\ last[p] + 1 \in Int /\ n - 1 \in Int
            BY <4>1, <5>2
          <6>2. IsFiniteSet(Skipped(p, last[p] + 1, n - 1))
                /\ Cardinality(Skipped(p, last[p] + 1, n - 1)) = (n - 1) - (last[p] + 1) + 1
            BY <6>1, SkippedCount
          <6> QED
            BY <5>2, <6>1, <6>2
        <5> QED
          BY <5>1, <5>2
      <4> HIDE DEF T
      <4> QED
        BY <2>1, <4>2, <4>3, <4>4
    <3>2. CASE HeartbeatAhead(p, n)
      <4>1. n \in TradeIds /\ n \in Int /\ last[p] \in Int /\ n > last[p]
        BY <3>2, ContinuityAssumption DEF HeartbeatAhead, Learns, TypeOK, TradeIds
      <4>2. metrics'.lost = metrics.lost + (n - last[p])
        BY <3>2 DEF HeartbeatAhead
      <4> HIDE DEF n
      <4>3. AllMissing' = AllMissing \union Skipped(p, last[p] + 1, n)
        BY <3>0, <3>2, <4>1, HeartbeatGrows
      <4>4. IsFiniteSet(Skipped(p, last[p] + 1, n))
            /\ Cardinality(Skipped(p, last[p] + 1, n)) = n - last[p]
        BY <4>1, SkippedCount
      <4> QED
        BY <2>1, <4>2, <4>3, <4>4
    <3>3. CASE HeartbeatBehind(p, n)
      <4>1. AllMissing' = AllMissing /\ metrics' = metrics
        BY <3>0, <3>3 DEF HeartbeatBehind, trackerVars, AllMissing, SessionMissing, Hole
      <4> QED
        BY <4>1 DEF LossCovered, LossNeverUnderstated
    <3> QED
      BY <2>2, <3>1, <3>2, <3>3, ReceiveEffect
  <2>3. ASSUME AllMissing' = AllMissing /\ metrics' = metrics PROVE LossCovered'
    BY <2>3 DEF LossCovered, LossNeverUnderstated
  <2> QED
    BY <2>2, <2>3, MissingUnchanged DEF Next
<1>3. LossCovered => LossNeverUnderstated
  BY DEF LossCovered
<1> QED
  BY <1>1, <1>2, <1>3, SessionCorrect, PTL DEF Spec

-----------------------------------------------------------------------------
(* What holds on a feed that keeps order. *)

\* A product that a step leaves alone stays in order.
LEMMA InOrderFrame ==
    ASSUME NEW q \in Products, FeedInOrder(q),
           UNCHANGED <<latest[q], wire[q], sent[q], got[q], first[q], last[q]>>
    PROVE  FeedInOrder(q)'
BY DEF FeedInOrder

\* Sending a message keeps the feed in order: it repeats something sent, or is
\* the first match of the session, or is a trade newer than all before it.
LEMMA PushInOrder ==
    ASSUME NEW p \in Products, NEW m \in Messages, TypeOK, SessionFacts, FeedInOrder(p),
           Push(p, m), UNCHANGED <<got, first, last>>,
           latest'[p] \in Nat, latest[p] <= latest'[p], m.id <= latest'[p],
           sent[p] \subseteq sent'[p], sent'[p] \subseteq TradeIds,
           m.type = "match" => m.id \in sent'[p],
           \A n \in sent'[p] \ sent[p] :
              m = Match(n) /\ (n > latest[p] \/ sent[p] = {})
    PROVE  FeedInOrder(p)'
<1> DEFINE w == wire[p]
           k == Len(w)
<1>1. /\ w \in Seq(Messages) /\ k \in Nat
      /\ wire'[p] = Append(w, m)
      /\ DOMAIN wire'[p] = 1..(k + 1) /\ DOMAIN w = 1..k
      /\ \A i \in 1..k : wire'[p][i] = w[i] /\ w[i] \in Messages
      /\ wire'[p][k + 1] = m
  BY DEF Push, TypeOK
<1>2. /\ latest[p] \in Int /\ last[p] \in Int /\ first[p] \in Int /\ m.id \in Int
      /\ \A n \in sent'[p] : n \in Int
      /\ \A i \in 1..k : w[i].id \in Int
  BY SMTT(30), <1>1, ContinuityAssumption DEF TypeOK, Messages, TradeIds
<1>8. \A i \in 1..k : w[i].id <= latest[p] /\ (w[i].type = "match" => w[i].id \in sent[p])
  <2>1. \A i \in DOMAIN w : w[i].id <= latest[p] /\ (w[i].type = "match" => w[i].id \in sent[p])
    BY Zenon DEF FeedInOrder
  <2> QED
    BY <1>1, <2>1
<1> HIDE DEF k
<1>3. last'[p] <= latest'[p] /\ got'[p] \subseteq sent'[p]
  BY <1>2 DEF FeedInOrder
<1>4. \A n \in sent'[p] : n \in got[p] \/ \E j \in 1..(k + 1) : wire'[p][j] = Match(n)
  <2> SUFFICES ASSUME NEW n \in sent'[p]
               PROVE  n \in got[p] \/ \E j \in 1..(k + 1) : wire'[p][j] = Match(n)
    OBVIOUS
  <2>1. CASE n \in sent[p]
    BY <1>1, <2>1 DEF FeedInOrder
  <2>2. CASE n \notin sent[p]
    BY <1>1, <2>2
  <2> QED
    BY <2>1, <2>2
<1>5. \A n \in sent'[p] : n <= latest'[p]
  <2> SUFFICES ASSUME NEW n \in sent'[p] PROVE n <= latest'[p]
    OBVIOUS
  <2>1. CASE n \in sent[p]
    BY <1>2, <2>1 DEF FeedInOrder
  <2>2. CASE n \notin sent[p]
    BY <1>2, <2>2 DEF Match
  <2> QED
    BY <2>1, <2>2
<1>6. \A n \in sent'[p] : first[p] # NoTrade /\ first[p] <= n /\ n <= last[p] => n \in got[p]
  <2> SUFFICES ASSUME NEW n \in sent'[p], first[p] # NoTrade, first[p] <= n, n <= last[p]
               PROVE  n \in got[p]
    OBVIOUS
  <2>1. n \in sent[p]
    <3>1. sent[p] # {}
      BY DEF FeedInOrder, SessionFacts
    <3>2. last[p] <= latest[p]
      BY DEF FeedInOrder
    <3> QED
      BY <1>2, <3>1, <3>2
  <2> QED
    BY <2>1 DEF FeedInOrder
<1>7. ASSUME NEW i \in 1..(k + 1)
      PROVE  /\ wire'[p][i].id <= latest'[p]
             /\ wire'[p][i].type = "match" => wire'[p][i].id \in sent'[p]
             /\ \A n \in sent'[p] : n <= wire'[p][i].id =>
                   \/ n \in got[p]
                   \/ \E j \in 1..i : wire'[p][j] = Match(n)
                   \/ got[p] = {} /\ \A j \in 1..i : wire'[p][j].type = "heartbeat"
  <2>1. CASE i = k + 1
    BY <1>1, <1>4, <2>1
  <2>2. CASE i # k + 1
    <3>1. i \in 1..k /\ 1..i \subseteq 1..k
      BY <1>1, <2>2
    <3>2. wire'[p][i].id <= latest'[p]
          /\ (wire'[p][i].type = "match" => wire'[p][i].id \in sent'[p])
      <4>1. w[i].id <= latest[p] /\ (w[i].type = "match" => w[i].id \in sent[p])
        BY <1>8, <3>1
      <4>2. w[i].id \in Int /\ wire'[p][i] = w[i]
        BY <1>1, <1>2, <3>1
      <4> HIDE DEF w
      <4> QED
        BY <1>2, <4>1, <4>2
    <3>3. ASSUME NEW n \in sent'[p], n <= wire'[p][i].id
          PROVE  \/ n \in got[p]
                 \/ \E j \in 1..i : wire'[p][j] = Match(n)
                 \/ got[p] = {} /\ \A j \in 1..i : wire'[p][j].type = "heartbeat"
      <4>1. CASE n \in sent[p]
        <5>1. i \in DOMAIN wire[p] /\ n <= wire[p][i].id
          BY <1>1, <3>1, <3>3
        <5>2. \/ n \in got[p]
              \/ \E j \in 1..i : wire[p][j] = Match(n)
              \/ got[p] = {} /\ \A j \in 1..i : wire[p][j].type = "heartbeat"
          BY Zenon, <4>1, <5>1 DEF FeedInOrder
        <5>3. \A j \in 1..i : wire'[p][j] = wire[p][j]
          BY <1>1, <3>1
        <5> QED
          BY <5>2, <5>3
      <4>2. CASE n \notin sent[p]
        <5>1. w[i].id <= latest[p]
          BY <1>8, <3>1
        <5>2. sent[p] = {}
          <6>1. wire'[p][i] = w[i] /\ w[i].id \in Int /\ n \in Int
            BY <1>1, <1>2, <3>1
          <6> HIDE DEF w
          <6>2. n <= latest[p]
            BY <1>2, <3>3, <5>1, <6>1
          <6>3. n > latest[p] \/ sent[p] = {}
            BY <4>2
          <6> QED
            BY <1>2, <6>1, <6>2, <6>3
        <5>3. got[p] = {}
          BY <5>2 DEF FeedInOrder
        <5>4. \A j \in 1..k : w[j].type # "match"
          BY <1>1, <5>2 DEF FeedInOrder
        <5>5. \A j \in 1..k : w[j].type = "heartbeat"
          BY <1>1, <5>4 DEF Messages
        <5> QED
          BY <1>1, <3>1, <5>3, <5>5
      <4> QED
        BY <4>1, <4>2
    <3> QED
      BY <3>2, <3>3
  <2> QED
    BY <2>1, <2>2
<1> QED
  BY <1>1, <1>3, <1>4, <1>5, <1>6, <1>7 DEF FeedInOrder

\* Reading the head of a wire keeps the feed in order.
LEMMA ReceiveInOrder ==
    ASSUME NEW p \in Products, TypeOK, SessionFacts, FeedInOrder(p), Receive(p, 1),
           Overtaking = 0
    PROVE  FeedInOrder(p)'
<1> DEFINE w == wire[p]
           k == Len(w)
           n == w[1].id
           v == wire'[p]
<1>0. /\ UNCHANGED <<latest, sent>>
      /\ \/ w[1].type = "match" /\ MatchArrives(p, n)
         \/ w[1].type = "heartbeat" /\ HeartbeatAhead(p, n)
         \/ w[1].type = "heartbeat" /\ HeartbeatBehind(p, n)
  BY ReceiveEffect
<1>1. /\ w \in Seq(Messages) /\ k \in Nat /\ k >= 1 /\ DOMAIN w = 1..k
      /\ v = [j \in 1..(k - 1) |-> w[j + 1]]
      /\ \A i \in 1..k : w[i].id \in Int
  <2>a. 1 \in 1..(1 + Overtaking)
    OBVIOUS
  <2>b. wire \in [Products -> Seq(Messages)] /\ 1 \in DOMAIN wire[p]
        /\ wire' = [wire EXCEPT ![p] = Without(wire[p], 1)]
    BY <2>a, ReceiveMessage DEF TypeOK
  <2>1. w \in Seq(Messages) /\ k \in Nat /\ DOMAIN w = 1..k /\ 1 \in DOMAIN w
    BY <2>b
  <2>2. v = Without(w, 1)
    BY <2>b
  <2>3. \A i \in 1..k : w[i].id \in Int
    BY <2>1, ContinuityAssumption DEF Messages, TradeIds
  <2>4. v = [j \in 1..(k - 1) |-> w[j + 1]]
    BY <2>2 DEF Without
  <2> QED
    BY <2>1, <2>3, <2>4
<1>2. /\ latest[p] \in Int /\ last[p] \in Int /\ first[p] \in Int /\ n \in Int
      /\ \A x \in sent[p] : x \in Int
      /\ first[p] = NoTrade <=> last[p] = NoTrade
      /\ first[p] # NoTrade => first[p] \in got[p]
  BY <1>1, ContinuityAssumption DEF TypeOK, TradeIds, SessionFacts
<1>3. /\ last[p] <= latest[p]
      /\ got[p] \subseteq sent[p]
      /\ \A x \in sent[p] :
          /\ x <= latest[p]
          /\ x \in got[p] \/ \E j \in 1..k : w[j] = Match(x)
          /\ first[p] # NoTrade /\ first[p] <= x /\ x <= last[p] => x \in got[p]
      /\ \A i \in 1..k :
          /\ w[i].id <= latest[p]
          /\ w[i].type = "match" => w[i].id \in sent[p]
          /\ \A x \in sent[p] : x <= w[i].id =>
                \/ x \in got[p]
                \/ \E j \in 1..i : w[j] = Match(x)
                \/ got[p] = {} /\ \A j \in 1..i : w[j].type = "heartbeat"
  BY <1>1 DEF FeedInOrder
<1>4. \A x \in sent[p] : x <= n =>
          \/ x \in got[p]
          \/ w[1] = Match(x)
          \/ got[p] = {} /\ w[1].type = "heartbeat"
  <2>1. 1 \in 1..k
    BY <1>1
  <2>2. \A x \in sent[p] : x <= n =>
          \/ x \in got[p]
          \/ \E j \in 1..1 : w[j] = Match(x)
          \/ got[p] = {} /\ \A j \in 1..1 : w[j].type = "heartbeat"
    BY <1>3, <2>1, Zenon
  <2> QED
    BY <2>2
<1>5. /\ DOMAIN v = 1..(k - 1)
      /\ \A i \in 1..(k - 1) : v[i] = w[i + 1] /\ i + 1 \in 1..k
      /\ \A j \in 1..k : j # 1 => j - 1 \in 1..(k - 1) /\ v[j - 1] = w[j]
  BY <1>1
<1>6. /\ \A x \in sent[p] : Match(x).type = "match" /\ Match(x).id = x
      /\ n <= latest[p]
      /\ w[1].type = "match" => n \in sent[p]
  BY <1>1, <1>3 DEF Match
<1>g. /\ got[p] \subseteq got'[p]
      /\ w[1].type = "match" => n \in got'[p]
      /\ got'[p] \subseteq sent[p]
      /\ w[1].type = "heartbeat" => got'[p] = got[p]
  BY <1>0, <1>3, <1>6 DEF MatchArrives, HeartbeatAhead, HeartbeatBehind
<1> HIDE DEF k, n, v
<1>7. \A x \in sent[p] : x \in got'[p] \/ \E j \in 1..(k - 1) : v[j] = Match(x)
  <2> SUFFICES ASSUME NEW x \in sent[p], x \notin got'[p]
               PROVE  \E j \in 1..(k - 1) : v[j] = Match(x)
    OBVIOUS
  <2>1. PICK j \in 1..k : w[j] = Match(x)
    BY <1>3, <1>g
  <2>2. j # 1
    BY <1>6, <1>g, <2>1 DEF n
  <2> QED
    BY <1>5, <2>1, <2>2
<1>8. ASSUME NEW i \in 1..(k - 1)
      PROVE  /\ v[i].id <= latest[p]
             /\ v[i].type = "match" => v[i].id \in sent[p]
             /\ \A x \in sent[p] : x <= v[i].id =>
                   \/ x \in got'[p]
                   \/ \E j \in 1..i : v[j] = Match(x)
                   \/ got'[p] = {} /\ \A j \in 1..i : v[j].type = "heartbeat"
  <2>1. v[i] = w[i + 1] /\ i + 1 \in 1..k
    BY <1>5
  <2>2. v[i].id <= latest[p] /\ (v[i].type = "match" => v[i].id \in sent[p])
    BY <1>3, <2>1
  <2>3. ASSUME NEW x \in sent[p], x <= v[i].id
        PROVE  \/ x \in got'[p]
               \/ \E j \in 1..i : v[j] = Match(x)
               \/ got'[p] = {} /\ \A j \in 1..i : v[j].type = "heartbeat"
    <3>1. \/ x \in got[p]
          \/ \E j \in 1..(i + 1) : w[j] = Match(x)
          \/ got[p] = {} /\ \A j \in 1..(i + 1) : w[j].type = "heartbeat"
      BY <1>3, <2>1, <2>3
    <3>2. CASE x \in got[p]
      BY <1>g, <3>2
    <3>3. ASSUME NEW j \in 1..(i + 1), w[j] = Match(x)
          PROVE  x \in got'[p] \/ \E l \in 1..i : v[l] = Match(x)
      <4>1. CASE j = 1
        BY <1>6, <1>g, <3>3, <4>1 DEF n
      <4>2. CASE j # 1
        <5>1. j - 1 \in 1..i /\ j \in 1..k
          BY <1>1, <2>1, <4>2
        <5>2. v[j - 1] = Match(x)
          BY <1>5, <3>3, <4>2, <5>1
        <5> QED
          BY <5>1, <5>2
      <4> QED
        BY <4>1, <4>2
    <3>4. CASE got[p] = {} /\ \A j \in 1..(i + 1) : w[j].type = "heartbeat"
      <4>1. w[1].type = "heartbeat" /\ got'[p] = {}
        BY <1>g, <3>4
      <4>2. \A j \in 1..i : v[j] = w[j + 1] /\ j + 1 \in 1..(i + 1)
        BY <1>1, <1>5
      <4> QED
        BY <3>4, <4>1, <4>2
    <3> QED
      BY <3>1, <3>2, <3>3, <3>4
  <2> QED
    BY <2>2, <2>3
<1>9. /\ last'[p] <= latest[p]
      /\ \A x \in sent[p] :
            first'[p] # NoTrade /\ first'[p] <= x /\ x <= last'[p] => x \in got'[p]
  <2>1. CASE w[1].type = "match" /\ MatchArrives(p, n)
    <3>1. /\ last'[p] = Larger(last[p], n)
          /\ first'[p] = IF first[p] = NoTrade THEN n ELSE first[p]
          /\ n \in TradeIds
      BY <2>1 DEF MatchArrives, Learns
    <3>2. last'[p] <= latest[p]
      BY <1>2, <1>3, <1>6, <3>1 DEF Larger
    <3>3. ASSUME NEW x \in sent[p], first'[p] <= x, x <= last'[p]
          PROVE  x \in got'[p]
      <4>1. CASE first[p] = NoTrade
        <5>1. x = n
          BY <1>2, <3>1, <3>3, <4>1 DEF Larger, TradeIds
        <5> QED
          BY <1>g, <2>1, <5>1
      <4>2. CASE first[p] # NoTrade /\ x <= last[p]
        BY <1>3, <1>g, <3>1, <3>3, <4>2
      <4>3. CASE first[p] # NoTrade /\ x > last[p]
        <5>1. x <= n
          BY <1>2, <3>1, <3>3, <4>3 DEF Larger
        <5>2. x \in got[p] \/ w[1] = Match(x)
          BY <1>4, <2>1, <5>1
        <5> QED
          BY <1>6, <1>g, <2>1, <5>2 DEF n
      <4> QED
        BY <1>2, <4>1, <4>2, <4>3
    <3> QED
      BY <3>2, <3>3
  <2>2. CASE w[1].type = "heartbeat" /\ HeartbeatAhead(p, n)
    <3>1. last'[p] = n /\ first' = first /\ got' = got /\ last[p] # NoTrade
      BY <1>2, <2>2 DEF HeartbeatAhead, Learns, Larger
    <3>2. got[p] # {}
      BY <1>2, <3>1
    <3>3. \A x \in sent[p] : w[1] # Match(x)
      BY <1>6, <2>2
    <3> QED
      BY <1>4, <1>6, <3>1, <3>2, <3>3
  <2>3. CASE w[1].type = "heartbeat" /\ HeartbeatBehind(p, n)
    BY <1>3, <2>3 DEF HeartbeatBehind, trackerVars
  <2> QED
    BY <1>0, <2>1, <2>2, <2>3
<1> QED
  BY <1>0, <1>3, <1>5, <1>7, <1>8, <1>9, <1>g DEF FeedInOrder, v

\* Every step on a feed without overtaking leaves every product in order.
LEMMA InOrderStep ==
    ASSUME Overtaking = 0, TypeOK, SessionFacts, [Next]_vars,
           \A q \in Products : FeedInOrder(q)
    PROVE  \A q \in Products : FeedInOrder(q)'
<1>a. \A q \in Products : latest[q] \in Nat /\ latest'[q] \in Nat
  <2>1. TypeOK'
    BY TypeCorrectStep
  <2>2. latest \in [Products -> 0..MaxTrade] /\ latest' \in [Products -> 0..MaxTrade]
    BY <2>1 DEF TypeOK
  <2> QED
    BY <2>2, ContinuityAssumption
<1>1. ASSUME NEW p \in Products, Feed(p) PROVE \A q \in Products : FeedInOrder(q)'
  <2>0. UNCHANGED <<got, first, last>>
        /\ \A q \in Products : q # p => UNCHANGED <<latest[q], wire[q], sent[q]>>
    BY <1>1 DEF Feed, Trade, DropTrade, LastMatch, Replay, Beat, Push, TypeOK,
                sessionVars, trackerVars, historyVars
  <2>1. FeedInOrder(p)'
    <3>0. latest[p] \in 0..MaxTrade /\ latest[p] \in Int
      BY <1>a DEF TypeOK
    <3>1. CASE Trade(p)
      <4>1. /\ latest[p] + 1 \in TradeIds
            /\ latest'[p] = latest[p] + 1
            /\ sent'[p] = sent[p] \union {latest[p] + 1}
            /\ Push(p, Match(latest[p] + 1))
        BY <3>0, <3>1, ContinuityAssumption DEF Trade, TypeOK, TradeIds
      <4>2. /\ Match(latest[p] + 1) \in Messages
            /\ Match(latest[p] + 1).id = latest[p] + 1
            /\ Match(latest[p] + 1).type = "match"
        BY <4>1 DEF Match, Messages
      <4>3. sent'[p] \subseteq TradeIds
        BY <4>1 DEF TypeOK
      <4> DEFINE m == Match(latest[p] + 1)
      <4>4. \A n \in sent'[p] \ sent[p] : m = Match(n) /\ (n > latest[p] \/ sent[p] = {})
        BY <3>0, <4>1
      <4>5. m \in Messages /\ m.id <= latest'[p] /\ latest[p] <= latest'[p]
            /\ (m.type = "match" => m.id \in sent'[p]) /\ Push(p, m)
            /\ sent[p] \subseteq sent'[p]
        BY <3>0, <4>1, <4>2
      <4> HIDE DEF m
      <4> QED
        BY <1>a, <2>0, <4>3, <4>4, <4>5, PushInOrder
    <3>2. CASE DropTrade(p)
      <4>1. latest'[p] = latest[p] + 1 /\ UNCHANGED <<wire, sent>>
        BY <3>0, <3>2 DEF DropTrade, TypeOK
      <4>2. /\ \A n \in sent[p] : n \in Int
            /\ last[p] \in Int
            /\ \A i \in DOMAIN wire[p] : wire[p][i].id \in Int
        BY ContinuityAssumption DEF TypeOK, TradeIds, Messages
      <4>3. /\ last[p] <= latest'[p]
            /\ \A n \in sent[p] : n <= latest'[p]
            /\ \A i \in DOMAIN wire[p] : wire[p][i].id <= latest'[p]
        BY <3>0, <4>1, <4>2 DEF FeedInOrder
      <4> QED
        BY <2>0, <4>1, <4>3 DEF FeedInOrder
    <3>3. CASE LastMatch(p)
      <4> DEFINE m == Match(latest[p])
      <4>1. /\ latest[p] \in TradeIds
            /\ UNCHANGED latest
            /\ sent[p] = {} /\ sent'[p] = {latest[p]}
            /\ Push(p, m)
        BY <3>0, <3>3, ContinuityAssumption DEF LastMatch, TypeOK, TradeIds
      <4>2. m \in Messages /\ m.id = latest[p] /\ m.type = "match"
        BY <4>1 DEF Match, Messages
      <4>3. \A n \in sent'[p] \ sent[p] : m = Match(n) /\ (n > latest[p] \/ sent[p] = {})
        BY <4>1
      <4>4. sent'[p] \subseteq TradeIds /\ sent[p] \subseteq sent'[p]
            /\ m.id <= latest'[p] /\ latest[p] <= latest'[p] /\ m.id \in sent'[p]
        BY <3>0, <4>1, <4>2
      <4> HIDE DEF m
      <4> QED
        BY <1>a, <2>0, <4>1, <4>2, <4>3, <4>4, PushInOrder
    <3>4. CASE Replay(p)
      <4>1. UNCHANGED <<latest, sent>>
        BY <3>4 DEF Replay
      <4>2. PICK n \in sent[p] : Push(p, Match(n))
        BY <3>4 DEF Replay
      <4>3. n \in TradeIds /\ n <= latest[p]
        BY <4>2 DEF TypeOK, FeedInOrder
      <4> DEFINE m == Match(n)
      <4>4. m \in Messages /\ m.id = n /\ m.type = "match"
        BY <4>3 DEF Match, Messages
      <4>5. sent'[p] \subseteq TradeIds /\ sent[p] \subseteq sent'[p]
            /\ sent'[p] \ sent[p] = {}
            /\ m.id <= latest'[p] /\ latest[p] <= latest'[p] /\ m.id \in sent'[p]
        BY <3>0, <4>1, <4>2, <4>3, <4>4 DEF TypeOK
      <4>6. Push(p, m)
        BY <4>2
      <4> HIDE DEF m
      <4> QED
        BY <1>a, <2>0, <4>4, <4>5, <4>6, PushInOrder
    <3>5. ASSUME NEW n \in 0..latest[p], Beat(p, n) PROVE FeedInOrder(p)'
      <4> DEFINE m == Heartbeat(n)
      <4>1. UNCHANGED <<latest, sent>> /\ Push(p, m)
        BY <3>5 DEF Beat
      <4>2. n \in 0..MaxTrade /\ n <= latest[p]
        BY <3>0, ContinuityAssumption
      <4>3. m \in Messages /\ m.id = n /\ m.type = "heartbeat"
        BY <4>2 DEF Heartbeat, Messages
      <4>4. sent'[p] \subseteq TradeIds /\ sent[p] \subseteq sent'[p]
            /\ sent'[p] \ sent[p] = {}
            /\ m.id <= latest'[p] /\ latest[p] <= latest'[p] /\ m.type # "match"
        BY <3>0, <4>1, <4>2, <4>3 DEF TypeOK
      <4> HIDE DEF m
      <4> QED
        BY <1>a, <2>0, <4>1, <4>3, <4>4, PushInOrder
    <3> QED
      BY <1>1, <3>1, <3>2, <3>3, <3>4, <3>5 DEF Feed
  <2> QED
    BY <2>0, <2>1, InOrderFrame
<1>2. ASSUME NEW p \in Products, NEW i \in 1..(1 + Overtaking), Receive(p, i)
      PROVE  \A q \in Products : FeedInOrder(q)'
  <2>1. i = 1
    OBVIOUS
  <2>2. FeedInOrder(p)'
    BY <1>2, <2>1, ReceiveInOrder
  <2>3. UNCHANGED <<latest, sent>> /\ \A q \in Products : q # p => wire'[q] = wire[q]
    <3>1. UNCHANGED <<latest, sent>> /\ wire' = [wire EXCEPT ![p] = Without(wire[p], i)]
      BY <1>2, ReceiveMessage
    <3>2. wire \in [Products -> Seq(Messages)]
      BY DEF TypeOK
    <3> QED
      BY <3>1, <3>2
  <2>4. \A q \in Products : q # p => UNCHANGED <<got[q], first[q], last[q]>>
    <3> DEFINE n == wire[p][i].id
    <3>1. MatchArrives(p, n) \/ HeartbeatAhead(p, n) \/ HeartbeatBehind(p, n)
      BY <1>2, ReceiveEffect
    <3> HIDE DEF n
    <3> QED
      BY <3>1 DEF MatchArrives, HeartbeatAhead, HeartbeatBehind, Learns, trackerVars
  <2> QED
    BY <2>2, <2>3, <2>4, InOrderFrame
<1>3. CASE Connect
  BY <1>3 DEF Connect, feedVars, trackerVars, historyVars, FeedInOrder
<1>4. CASE Disconnect
  <2> SUFFICES ASSUME NEW q \in Products PROVE FeedInOrder(q)'
    OBVIOUS
  <2>1. /\ latest' = latest /\ wire'[q] = << >> /\ sent'[q] = {} /\ got'[q] = {}
        /\ first'[q] = NoTrade /\ last'[q] = NoTrade
    BY <1>4 DEF Disconnect, OnDisconnect, Drained, Nothing, Forgotten
  <2>2. DOMAIN wire'[q] = {} /\ last'[q] <= latest'[q]
    BY <1>a, <2>1
  <2> QED
    BY <2>1, <2>2 DEF FeedInOrder
<1>5. CASE UNCHANGED vars
  BY <1>5 DEF vars, feedVars, trackerVars, historyVars, FeedInOrder
<1> QED
  BY <1>1, <1>2, <1>3, <1>4, <1>5 DEF Next

\* Where the feed is in order a match adds exactly the ids it skips.
LEMMA MatchGrowsExactly ==
    ASSUME NEW p \in Products, NEW n \in TradeIds, TypeOK, SessionFacts, connected,
           FeedInOrder(p), n \in sent[p],
           MatchArrives(p, n), UNCHANGED <<session, missed>>,
           NEW T, T = IF last[p] = NoTrade \/ n <= last[p] THEN {}
                      ELSE Skipped(p, last[p] + 1, n - 1)
    PROVE  AllMissing' = AllMissing \union T /\ AllMissing \intersect T = {}
<1>0. /\ n \in Int /\ n >= 1
      /\ \A q \in Products : last[q] \in Int /\ first[q] \in Int /\ last[q] = told[q]
                             /\ (first[q] = NoTrade <=> last[q] = NoTrade)
                             /\ first[q] <= last[q]
      /\ \A k \in TradeIds : k \in Int
      /\ got[p] \subseteq Int /\ \A k \in got[p] : k <= last[p]
  BY ContinuityAssumption DEF TypeOK, TradeIds, SessionFacts
<1>1. /\ told'[p] = Larger(told[p], n)
      /\ first'[p] = IF first[p] = NoTrade THEN n ELSE first[p]
      /\ got'[p] = got[p] \union {n}
  BY DEF MatchArrives, Learns
<1>2. AllMissing' \subseteq AllMissing \union T
  BY MatchGrows
<1>3. ASSUME NEW m \in AllMissing PROVE m \in AllMissing'
  <2>1. CASE m \in missed
    BY <2>1 DEF AllMissing
  <2>2. CASE m \notin missed
    <3>1. PICK q \in Products, k \in TradeIds : m = <<session, q, k>> /\ Hole(q, k)
      BY <1>3, <2>2, MissingMembers
    <3>2. Hole(q, k)'
      <4>1. CASE q # p
        BY <3>1, <4>1 DEF MatchArrives, Learns, Hole
      <4>2. CASE q = p
        <5>1. k \in Int /\ first[p] # NoTrade /\ first[p] <= k /\ k <= last[p] /\ k \notin got[p]
          BY <1>0, <3>1, <4>2 DEF Hole
        <5>2. k # n
          BY <5>1 DEF FeedInOrder
        <5> QED
          BY <1>0, <1>1, <4>2, <5>1, <5>2 DEF Hole, Larger
      <4> QED
        BY <4>1, <4>2
    <3> QED
      BY <3>1, <3>2 DEF AllMissing, SessionMissing
  <2> QED
    BY <2>1, <2>2
<1>4. ASSUME NEW m \in T PROVE m \in AllMissing' /\ m \notin AllMissing
  <2>1. last[p] # NoTrade /\ n > last[p] /\ m \in Skipped(p, last[p] + 1, n - 1)
    BY <1>0, <1>4
  <2>2. PICK k \in (last[p] + 1)..(n - 1) : m = <<session, p, k>>
    BY <2>1 DEF Skipped, Tagged
  <2>3. k \in TradeIds
    <3>1. last[p] \in 1..MaxTrade /\ n \in 1..MaxTrade
      BY <2>1 DEF TypeOK, TradeIds
    <3> QED
      BY <2>2, <3>1, ContinuityAssumption DEF TradeIds
  <2>4. Hole(p, k)'
    BY <1>0, <1>1, <2>1, <2>2 DEF Hole, Larger
  <2>5. ~Hole(p, k)
    BY <1>0, <2>2 DEF Hole
  <2>6. m \notin missed
    BY <2>2, ContinuityAssumption DEF SessionFacts, TypeOK
  <2> QED
    BY <2>2, <2>3, <2>4, <2>5, <2>6 DEF AllMissing, SessionMissing
<1> QED
  BY <1>2, <1>3, <1>4

LossCounted == IsFiniteSet(AllMissing) /\ metrics.lost = Cardinality(AllMissing)

InOrderInv == TypeOK /\ SessionFacts /\ LossCounted /\ \A q \in Products : FeedInOrder(q)

\* Every step on a feed without overtaking raises the counter by what it loses.
LEMMA LossCountedStep ==
    ASSUME Overtaking = 0, InOrderInv, [Next]_vars
    PROVE  LossCounted'
<1> USE DEF InOrderInv
<1>0. /\ IsFiniteSet(AllMissing) /\ metrics.lost = Cardinality(AllMissing)
      /\ Cardinality(AllMissing) \in Nat
  BY FS_CardinalityType DEF LossCounted
<1>1. ASSUME NEW T, IsFiniteSet(T), AllMissing' = AllMissing \union T,
             AllMissing \intersect T = {}, metrics'.lost = metrics.lost + Cardinality(T)
      PROVE  LossCounted'
  <2>1. IsFiniteSet(AllMissing')
        /\ Cardinality(AllMissing') = Cardinality(AllMissing) + Cardinality(T)
    BY <1>0, <1>1, CountExactly
  <2> QED
    BY <1>0, <1>1, <2>1 DEF LossCounted
<1>2. ASSUME NEW p \in Products, NEW i \in 1..(1 + Overtaking), Receive(p, i)
      PROVE  LossCounted'
  <2> DEFINE n == wire[p][i].id
  <2>0. UNCHANGED <<session, missed>> /\ connected
    BY <1>2, ReceiveEffect
  <2>1. CASE wire[p][i].type = "match" /\ MatchArrives(p, n)
    <3>1. n \in TradeIds /\ n \in Int /\ last[p] \in Int
      BY <2>1, ContinuityAssumption DEF MatchArrives, Learns, TypeOK, TradeIds
    <3>2. metrics'.lost = metrics.lost
            + (IF last[p] = NoTrade \/ n <= last[p] THEN 0 ELSE n - last[p] - 1)
      BY <2>1 DEF MatchArrives
    <3>3. n \in sent[p]
      <4>1. i \in DOMAIN wire[p]
        BY <1>2, ReceiveMessage
      <4> QED
        BY <2>1, <4>1 DEF FeedInOrder
    <3>4. MatchArrives(p, n)
      BY <2>1
    <3> HIDE DEF n
    <3> DEFINE T == IF last[p] = NoTrade \/ n <= last[p] THEN {}
                    ELSE Skipped(p, last[p] + 1, n - 1)
    <3>5. AllMissing' = AllMissing \union T /\ AllMissing \intersect T = {}
      <4>1. TypeOK /\ SessionFacts /\ FeedInOrder(p)
        OBVIOUS
      <4>2. \A U : U = (IF last[p] = NoTrade \/ n <= last[p] THEN {}
                       ELSE Skipped(p, last[p] + 1, n - 1))
                => AllMissing' = AllMissing \union U /\ AllMissing \intersect U = {}
        BY Zenon, <2>0, <3>1, <3>3, <3>4, <4>1, MatchGrowsExactly
      <4> QED
        BY <4>2
    <3>6. IsFiniteSet(T) /\ Cardinality(T)
            = (IF last[p] = NoTrade \/ n <= last[p] THEN 0 ELSE n - last[p] - 1)
      <4>1. CASE last[p] = NoTrade \/ n <= last[p]
        BY <4>1, FS_EmptySet
      <4>2. CASE ~(last[p] = NoTrade \/ n <= last[p])
        <5>1. last[p] + 1 <= (n - 1) + 1 /\ (n - 1) - (last[p] + 1) + 1 = n - last[p] - 1
              /\ last[p] + 1 \in Int /\ n - 1 \in Int
          BY <3>1, <4>2
        <5>2. IsFiniteSet(Skipped(p, last[p] + 1, n - 1))
              /\ Cardinality(Skipped(p, last[p] + 1, n - 1)) = (n - 1) - (last[p] + 1) + 1
          BY <5>1, SkippedCount
        <5> QED
          BY <4>2, <5>1, <5>2
      <4> QED
        BY <4>1, <4>2
    <3> HIDE DEF T
    <3> QED
      BY <1>1, <3>2, <3>5, <3>6
  <2>2. CASE HeartbeatAhead(p, n)
    <3>1. n \in TradeIds /\ n \in Int /\ last[p] \in Int /\ n > last[p]
      BY <2>2, ContinuityAssumption DEF HeartbeatAhead, Learns, TypeOK, TradeIds
    <3>2. metrics'.lost = metrics.lost + (n - last[p])
      BY <2>2 DEF HeartbeatAhead
    <3> HIDE DEF n
    <3>3. AllMissing' = AllMissing \union Skipped(p, last[p] + 1, n)
          /\ AllMissing \intersect Skipped(p, last[p] + 1, n) = {}
      BY <2>0, <2>2, <3>1, HeartbeatGrows
    <3>4. IsFiniteSet(Skipped(p, last[p] + 1, n))
          /\ Cardinality(Skipped(p, last[p] + 1, n)) = n - last[p]
      BY <3>1, SkippedCount
    <3> QED
      BY <1>1, <3>2, <3>3, <3>4
  <2>3. CASE HeartbeatBehind(p, n)
    <3>1. AllMissing' = AllMissing /\ metrics' = metrics
      BY <2>0, <2>3 DEF HeartbeatBehind, trackerVars, AllMissing, SessionMissing, Hole
    <3> QED
      BY <3>1 DEF LossCounted
  <2> QED
    BY <1>2, <2>1, <2>2, <2>3, ReceiveEffect
<1>3. ASSUME AllMissing' = AllMissing /\ metrics' = metrics PROVE LossCounted'
  BY <1>3 DEF LossCounted
<1> QED
  BY <1>2, <1>3, MissingUnchanged DEF Next

\* On a feed that keeps order messages_lost_total is exactly the number of
\* trades the feed passed over and never delivered, across every reconnect.
THEOREM LossExact ==
    ASSUME Overtaking = 0
    PROVE  Spec => []LossIsExact
<1>1. Init => InOrderInv
  <2> SUFFICES ASSUME Init PROVE InOrderInv
    OBVIOUS
  <2>1. TypeOK
    BY TypeCorrectInit
  <2>2. SessionFacts
    BY DEF Init, SessionFacts, Forgotten, Nothing
  <2>3. AllMissing = {} /\ metrics.lost = 0
    BY DEF Init, AllMissing, SessionMissing, Hole, Forgotten
  <2>4. LossCounted
    BY <2>3, FS_EmptySet DEF LossCounted
  <2>5. \A q \in Products : FeedInOrder(q)
    BY DEF Init, FeedInOrder, Forgotten, Nothing, Drained
  <2> QED
    BY <2>1, <2>2, <2>4, <2>5 DEF InOrderInv
<1>2. InOrderInv /\ [Next]_vars => InOrderInv'
  <2> SUFFICES ASSUME InOrderInv, [Next]_vars PROVE InOrderInv'
    OBVIOUS
  <2>1. TypeOK'
    BY TypeCorrectStep DEF InOrderInv
  <2>2. SessionFacts'
    BY SessionStep DEF InOrderInv
  <2>3. \A q \in Products : FeedInOrder(q)'
    BY InOrderStep DEF InOrderInv
  <2>4. LossCounted'
    BY LossCountedStep
  <2> QED
    BY <2>1, <2>2, <2>3, <2>4 DEF InOrderInv
<1>3. InOrderInv => LossIsExact
  BY FS_CardinalityType
  DEF InOrderInv, LossCounted, LossIsExact, LossNeverUnderstated, CountedLossIsReal
<1> QED
  BY <1>1, <1>2, <1>3, PTL DEF Spec
=============================================================================
