----------------------------- MODULE TopicProofs -----------------------------
(***************************************************************************)
(* Proofs about what gets to the trades topic, for every number of trades, *)
(* failures, processes and sizes of a page.                                *)
(*                                                                         *)
(* Publishing keeps the promise of Outbox: each step of Delivery is a step *)
(* of the outbox or leaves it alone.  The order on the topic rests on      *)
(* this: what is queued follows what has been sent and what has failed,    *)
(* and every trade follows all three.                                      *)
(*                                                                         *)
(* The backfill's walk through the pages misses nothing that the exchange  *)
(* returns.  The walk is a recursive function: that it exists, and what it *)
(* collects, is shown by the absence of a least counterexample.            *)
(***************************************************************************)
EXTENDS DeliveryProofs, LeastNumber, FiniteSetTheorems

Ascends(q) == OutboxImpl!Ascending(q)

\* All of one set comes before all of another.
Before(S, T) == \A m \in S, n \in T : m < n

InOrder ==
    /\ Ascends(due) /\ Ascends(inflight) /\ Ascends(live)
    /\ Before(Range(due), Range(inflight)) /\ Before(Range(live), Range(inflight))
    /\ \A m \in Range(due) \union Range(inflight) \union Range(live) : m <= made

OutboxInv == TypeOK /\ InOrder

\* The outbox's range is that of the model.
LEMMA SameRange == \A q : OutboxImpl!Range(q) = Range(q)
  BY DEF OutboxImpl!Range, Range

-----------------------------------------------------------------------------
(* Sequences of trades in ascending order. *)

LEMMA Queues ==
    ASSUME NEW q \in Seq(TradeIds)
    PROVE  /\ Len(q) \in Nat /\ DOMAIN q = 1..Len(q)
           /\ \A i \in DOMAIN q : q[i] \in TradeIds /\ q[i] \in Int
           /\ Range(q) \subseteq TradeIds
<1>1. Len(q) \in Nat /\ DOMAIN q = 1..Len(q) /\ \A i \in DOMAIN q : q[i] \in TradeIds
  OBVIOUS
<1>2. \A t \in TradeIds : t \in Int
  BY DEF TradeIds
<1> QED BY <1>1, <1>2 DEF Range

\* Two queues joined ascend if each does and the first comes before the second.
LEMMA Joined ==
    ASSUME NEW q \in Seq(TradeIds), NEW r \in Seq(TradeIds)
    PROVE  /\ q \o r \in Seq(TradeIds)
           /\ Range(q \o r) = Range(q) \union Range(r)
           /\ Ascends(q \o r) <=> Ascends(q) /\ Ascends(r) /\ Before(Range(q), Range(r))
<1> DEFINE s == q \o r
           n == Len(q)
<1>1. /\ s \in Seq(TradeIds) /\ n \in Nat /\ Len(r) \in Nat
      /\ DOMAIN q = 1..n /\ DOMAIN r = 1..Len(r) /\ DOMAIN s = 1..(n + Len(r))
      /\ \A i \in 1..n : s[i] = q[i]
      /\ \A i \in 1..Len(r) : s[n + i] = r[i]
  OBVIOUS
<1>2. Range(s) = Range(q) \union Range(r)
  BY RangeConcatenation
<1> HIDE DEF s, n
<1>3. ASSUME Ascends(s) PROVE Ascends(q) /\ Ascends(r) /\ Before(Range(q), Range(r))
  <2>1. Ascends(q)
    BY <1>1, <1>3 DEF Ascends, OutboxImpl!Ascending
  <2>2. Ascends(r)
    <3> SUFFICES ASSUME NEW i \in 1..Len(r), NEW k \in 1..Len(r), i < k PROVE r[i] < r[k]
      BY <1>1 DEF Ascends, OutboxImpl!Ascending
    <3>1. n + i \in DOMAIN s /\ n + k \in DOMAIN s /\ n + i < n + k
      BY <1>1
    <3>2. s[n + i] < s[n + k]
      BY <1>3, <3>1 DEF Ascends, OutboxImpl!Ascending
    <3> QED BY <1>1, <3>2
  <2>3. Before(Range(q), Range(r))
    <3> SUFFICES ASSUME NEW i \in 1..n, NEW k \in 1..Len(r) PROVE q[i] < r[k]
      BY <1>1 DEF Before, Range
    <3>1. i \in DOMAIN s /\ n + k \in DOMAIN s /\ i < n + k
      BY <1>1
    <3>2. s[i] < s[n + k]
      BY <1>3, <3>1 DEF Ascends, OutboxImpl!Ascending
    <3> QED BY <1>1, <3>2
  <2> QED BY <2>1, <2>2, <2>3
<1>4. ASSUME Ascends(q), Ascends(r), Before(Range(q), Range(r)) PROVE Ascends(s)
  <2> SUFFICES ASSUME NEW i \in DOMAIN s, NEW k \in DOMAIN s, i < k PROVE s[i] < s[k]
    BY DEF Ascends, OutboxImpl!Ascending
  <2>1. \A a \in DOMAIN s : a \in 1..n \/ \E b \in 1..Len(r) : a = n + b
    <3> SUFFICES ASSUME NEW a \in DOMAIN s, a \notin 1..n PROVE \E b \in 1..Len(r) : a = n + b
      OBVIOUS
    <3>1. a - n \in 1..Len(r) /\ a = n + (a - n)
      BY <1>1
    <3> QED BY <3>1
  <2>2. CASE i \in 1..n /\ k \in 1..n
    BY <1>1, <1>4, <2>2 DEF Ascends, OutboxImpl!Ascending
  <2>3. ASSUME i \in 1..n, NEW b \in 1..Len(r), k = n + b PROVE s[i] < s[k]
    BY <1>1, <1>4, <2>3 DEF Before, Range
  <2>4. ASSUME NEW a \in 1..Len(r), i = n + a, NEW b \in 1..Len(r), k = n + b
        PROVE  s[i] < s[k]
    <3>1. a < b
      BY <1>1, <2>4
    <3> QED BY <1>1, <1>4, <2>4, <3>1 DEF Ascends, OutboxImpl!Ascending
  <2>5. ~ (k \in 1..n /\ i \notin 1..n)
    BY <1>1
  <2> QED BY <2>1, <2>2, <2>3, <2>4, <2>5
<1> QED BY <1>1, <1>2, <1>3, <1>4 DEF s

\* A queue is its first batch and the rest.
LEMMA Batch ==
    ASSUME NEW q \in Seq(TradeIds), NEW k \in 1..Len(q), Ascends(q)
    PROVE  LET b == SubSeq(q, 1, k)  r == SubSeq(q, k + 1, Len(q))
           IN  /\ b \in Seq(TradeIds) /\ r \in Seq(TradeIds) /\ b # << >>
               /\ Range(q) = Range(b) \union Range(r)
               /\ Ascends(b) /\ Ascends(r) /\ Before(Range(b), Range(r))
<1> DEFINE b == SubSeq(q, 1, k)
           r == SubSeq(q, k + 1, Len(q))
<1>1. b \in Seq(TradeIds) /\ r \in Seq(TradeIds) /\ b # << >> /\ q = b \o r
  OBVIOUS
<1> HIDE DEF b, r
<1>2. /\ Range(q) = Range(b) \union Range(r)
      /\ Ascends(b) /\ Ascends(r) /\ Before(Range(b), Range(r))
  BY <1>1, Joined
<1> QED BY <1>1, <1>2 DEF b, r

\* Queueing one more trade, later than all.
LEMMA Queued ==
    ASSUME NEW q \in Seq(TradeIds), NEW m \in TradeIds, Ascends(q), Before(Range(q), {m})
    PROVE  /\ Append(q, m) \in Seq(TradeIds) /\ Ascends(Append(q, m))
           /\ Range(Append(q, m)) = Range(q) \union {m}
<1> DEFINE r == <<m>>
<1>1. r \in Seq(TradeIds) /\ Append(q, m) = q \o r /\ DOMAIN r = {1} /\ r[1] = m
  OBVIOUS
<1>2. Range(r) = {m} /\ Ascends(r)
  BY <1>1 DEF Range, Ascends, OutboxImpl!Ascending
<1> HIDE DEF r
<1>3. Before(Range(q), Range(r))
  BY <1>2
<1>4. q \o r \in Seq(TradeIds) /\ Ascends(q \o r) /\ Range(q \o r) = Range(q) \union Range(r)
  BY <1>1, <1>2, <1>3, Joined
<1> QED BY <1>1, <1>2, <1>4

\* The first of the failed, once its callback has run, is not among the others.
LEMMA CalledBack ==
    ASSUME NEW q \in Seq(TradeIds), q # << >>, Ascends(q)
    PROVE  /\ Head(q) \in Range(q) /\ Tail(q) \in Seq(TradeIds) /\ Ascends(Tail(q))
           /\ Range(Tail(q)) = Range(q) \ {Head(q)}
<1> DEFINE h == <<Head(q)>>
           t == Tail(q)
<1>1. h \in Seq(TradeIds) /\ t \in Seq(TradeIds) /\ q = h \o t /\ DOMAIN h = {1}
      /\ h[1] = Head(q)
  OBVIOUS
<1>2. Range(h) = {Head(q)}
  BY <1>1 DEF Range
<1> HIDE DEF h, t
<1>3. /\ Range(q) = {Head(q)} \union Range(t) /\ Ascends(t)
      /\ Before({Head(q)}, Range(t))
  BY <1>1, <1>2, Joined
<1>4. Head(q) \in Int
  BY <1>1, <1>2, Queues DEF TradeIds
<1>5. Head(q) \notin Range(t)
  BY <1>3, <1>4 DEF Before
<1> QED BY <1>1, <1>3, <1>5 DEF t

LEMMA NothingAscends == Ascends(<< >>) /\ Range(<< >>) = {}
  BY DEF Ascends, OutboxImpl!Ascending, Range

-----------------------------------------------------------------------------
(* Every step is a step of the outbox, and keeps the order. *)

LEMMA TheOrder ==
    ASSUME OutboxInv
    PROVE  /\ due \in Seq(TradeIds) /\ inflight \in Seq(TradeIds) /\ live \in Seq(TradeIds)
           /\ Ascends(due) /\ Ascends(inflight) /\ Ascends(live)
           /\ Before(Range(due), Range(inflight)) /\ Before(Range(live), Range(inflight))
           /\ \A m \in Range(due) \union Range(inflight) \union Range(live) : m <= made
           /\ made \in Nat /\ MaxTrade \in Nat
  BY BackfillAssumption DEF OutboxInv, TypeOK, PublisherOK, BackfillOK, InOrder

\* Trades are made and never unmade.
LEMMA MadeGrows ==
    ASSUME TypeOK, [Next]_vars
    PROVE  made' \in Nat /\ made <= made'
<1>1. made \in Nat
  BY BackfillAssumption DEF TypeOK, BackfillOK
<1>2. made' = made + 1 \/ made' = made
  <2>1. CASE Trade \/ MissedTrade
    BY <2>1 DEF Trade, MissedTrade
  <2>2. CASE OtherMessage \/ Tick \/ FlusherWakes \/ Client \/ RequestStop \/ RunReturns
    BY <2>2 DEF OtherMessage, Tick, FlusherWakes, Client, RequestStop, RunReturns
  <2>3. CASE Drain \/ Exit \/ Kill \/ Restart \/ UNCHANGED vars
    BY <2>3 DEF Drain, Exit, Kill, Gone, Restart, vars
  <2>4. CASE OperatorBackfills \/ ScriptSends \/ ScriptEnds \/ ScriptRaises
    BY <2>4 DEF OperatorBackfills, ScriptSends, ScriptEnds, ScriptRaises, RunBackfill,
       BackfillSends, BackfillEnds, BackfillRaises
  <2> QED BY <2>1, <2>2, <2>3, <2>4 DEF Next
<1> QED BY <1>1, <1>2

\* The outbox's view of a step of the publisher.
Step == [OutboxImpl!Next]_(OutboxImpl!vars)

\* A publish is an accept of a trade newer than all, or a refusal.
LEMMA PublishIsAccept ==
    ASSUME OutboxInv, made' = made + 1, made' \in TradeIds, Publish(made')
    PROVE  Step /\ InOrder'
<1> DEFINE m == made'
<1>1. made \in Nat /\ made' \in Nat /\ \A n \in Range(due) \union Range(inflight) \union Range(live) :
          n \in Int /\ n < m
  BY TheOrder, Queues DEF TradeIds
<1>2. CASE ~paused
  <2>1. /\ inflight' = Append(inflight, m) /\ due' = due /\ live' = live /\ errors' = errors
    BY <1>2 DEF Publish
  <2>2. /\ inflight' \in Seq(TradeIds) /\ Ascends(inflight')
        /\ Range(inflight') = Range(inflight) \union {m}
    BY <1>1, <2>1, TheOrder, Queued DEF Before
  <2>3. InOrder'
    BY <1>1, <2>1, <2>2, TheOrder DEF InOrder, Before
  <2>4. m \notin Range(due) \union Range(inflight)
    BY <1>1
  <2>5. OutboxImpl!Accept(m)
    BY <1>1, <2>1, <2>2, SameRange DEF OutboxImpl!Accept, OutboxImpl!Newest
  <2>6. m \in (Range(due') \union Range(inflight')) \ (Range(due) \union Range(inflight))
    BY <2>2, <2>4
  <2> QED BY <2>3, <2>5, <2>6 DEF Step, OutboxImpl!Next
<1>3. CASE paused
  <2>1. UNCHANGED <<inflight, due, live>> /\ errors' = errors + 1
    BY <1>3 DEF Publish, OnDone
  <2>2. OutboxImpl!Refuse
    BY <2>1 DEF OutboxImpl!Refuse
  <2>3. InOrder'
    BY <1>1, <2>1, TheOrder DEF InOrder, Before
  <2> QED BY <2>2, <2>3 DEF Step, OutboxImpl!Next
<1> QED BY <1>2, <1>3

\* What is put on the topic is read off the next state.
LEMMA Reached ==
    ASSUME NEW q \in Seq(TradeIds), NEW b \in Seq(TradeIds)
    PROVE  SubSeq(q \o b, Len(q) + 1, Len(q \o b)) = b
  OBVIOUS

\* A batch that reaches the topic settles: its messages, or none of them, wait
\* no more.
LEMMA BatchSettles ==
    ASSUME OutboxInv, NEW k \in 1..Len(inflight),
           live' = live \o SubSeq(inflight, 1, k),
           inflight' = SubSeq(inflight, k + 1, Len(inflight)),
           due' = due \/ due' = due \o SubSeq(inflight, 1, k),
           errors' = errors
    PROVE  OutboxImpl!Settle(SubSeq(live', Len(live) + 1, Len(live')))
<1> DEFINE b == SubSeq(inflight, 1, k)
<1>1. /\ b \in Seq(TradeIds) /\ inflight' \in Seq(TradeIds) /\ b # << >>
      /\ Range(inflight) = Range(b) \union Range(inflight')
      /\ Ascends(b) /\ Ascends(inflight') /\ Before(Range(b), Range(inflight'))
  BY TheOrder, Batch
<1>2. live' = live \o b /\ (due' = due \/ due' = due \o b)
  OBVIOUS
<1> HIDE DEF b
<1>3. SubSeq(live', Len(live) + 1, Len(live')) = b
  BY <1>1, <1>2, TheOrder, Reached
<1>4. Before(Range(live), Range(b))
  BY <1>1, TheOrder DEF Before
<1>5. Ascends(live')
  <2>1. Ascends(live \o b)
    BY <1>1, <1>4, TheOrder, Joined
  <2> QED BY <1>2, <2>1
<1>6. Range(due') = Range(due) \/ Range(due') = Range(due) \union Range(b)
  BY <1>1, <1>2, TheOrder, Joined
<1>7. OutboxImpl!Settle(b)
  BY <1>1, <1>2, <1>5, <1>6, SameRange DEF OutboxImpl!Settle, Ascends
<1> QED BY <1>3, <1>7

\* A batch leaves the queue in order, whether it is sent, fails or both.
LEMMA BatchKeepsOrder ==
    ASSUME OutboxInv, NEW k \in 1..Len(inflight), made' = made,
           live' = live \/ live' = live \o SubSeq(inflight, 1, k),
           inflight' = SubSeq(inflight, k + 1, Len(inflight)),
           due' = due \/ due' = due \o SubSeq(inflight, 1, k)
    PROVE  InOrder'
<1> DEFINE b == SubSeq(inflight, 1, k)
<1>1. /\ b \in Seq(TradeIds) /\ inflight' \in Seq(TradeIds)
      /\ Range(inflight) = Range(b) \union Range(inflight')
      /\ Ascends(b) /\ Ascends(inflight') /\ Before(Range(b), Range(inflight'))
  BY TheOrder, Batch
<1>2. (live' = live \/ live' = live \o b) /\ (due' = due \/ due' = due \o b)
  OBVIOUS
<1> HIDE DEF b
<1>3. Before(Range(live), Range(b)) /\ Before(Range(due), Range(b))
      /\ Before(Range(live), Range(inflight')) /\ Before(Range(due), Range(inflight'))
  BY <1>1, TheOrder DEF Before
<1>4. Ascends(live') /\ Range(live') \subseteq Range(live) \union Range(b)
  <2>1. Ascends(live \o b) /\ Range(live \o b) = Range(live) \union Range(b)
    BY <1>1, <1>3, TheOrder, Joined
  <2>2. Ascends(live)
    BY TheOrder
  <2> QED BY <1>2, <2>1, <2>2
<1>5. Ascends(due') /\ Range(due') \subseteq Range(due) \union Range(b)
  <2>1. Ascends(due \o b) /\ Range(due \o b) = Range(due) \union Range(b)
    BY <1>1, <1>3, TheOrder, Joined
  <2>2. Ascends(due)
    BY TheOrder
  <2> QED BY <1>2, <2>1, <2>2
<1>6. Before(Range(live'), Range(inflight')) /\ Before(Range(due'), Range(inflight'))
  BY <1>1, <1>3, <1>4, <1>5 DEF Before
<1>7. \A m \in Range(due') \union Range(inflight') \union Range(live') : m <= made'
  BY <1>1, <1>4, <1>5, TheOrder
<1> QED BY <1>1, <1>4, <1>5, <1>6, <1>7 DEF InOrder

\* Nothing waits more or less, and nothing is sent or counted.
LEMMA Stutters ==
    ASSUME Range(due') \union Range(inflight') = Range(due) \union Range(inflight),
           live' = live, errors' = errors
    PROVE  Step
  BY DEF Step, OutboxImpl!vars

\* The client's threads settle a batch, give up a message, or move what waits.
LEMMA ClientIsOutbox ==
    ASSUME OutboxInv, ClientStep, made' = made
    PROVE  Step /\ InOrder'
<1>1. ASSUME NEW k \in 1..Len(inflight), Send(k) PROVE Step /\ InOrder'
  <2>1. /\ live' = live \o SubSeq(inflight, 1, k) /\ due' = due /\ errors' = errors
        /\ inflight' = SubSeq(inflight, k + 1, Len(inflight))
    BY <1>1 DEF Send
  <2> QED BY <2>1, BatchSettles, BatchKeepsOrder DEF Step, OutboxImpl!Next
<1>2. ASSUME NEW k \in 1..Len(inflight), Fail(k) PROVE Step /\ InOrder'
  <2> DEFINE b == SubSeq(inflight, 1, k)
  <2>1. /\ live' = live \/ live' = live \o b
        /\ due' = due \o b /\ errors' = errors
        /\ inflight' = SubSeq(inflight, k + 1, Len(inflight))
    BY <1>2 DEF Fail
  <2>2. InOrder'
    BY <2>1, BatchKeepsOrder
  <2>3. CASE live' = live \o b
    BY <2>1, <2>2, <2>3, BatchSettles DEF Step, OutboxImpl!Next
  <2>4. CASE live' = live
    <3>1. Range(inflight) = Range(b) \union Range(inflight') /\ b \in Seq(TradeIds)
      BY <2>1, TheOrder, Batch
    <3>2. Range(due') = Range(due) \union Range(b)
      BY <2>1, <3>1, TheOrder, Joined
    <3> QED BY <2>1, <2>2, <2>4, <3>1, <3>2, Stutters
  <2> QED BY <2>1, <2>3, <2>4
<1>3. CASE Pause
  <2>1. due' = due \o inflight /\ inflight' = << >> /\ live' = live /\ errors' = errors
    BY <1>3 DEF Pause
  <2>2. Ascends(due') /\ Range(due') = Range(due) \union Range(inflight)
    BY <2>1, TheOrder, Joined
  <2>3. Range(inflight') = {} /\ Ascends(inflight')
    BY <2>1, NothingAscends
  <2>4. InOrder'
    BY <2>1, <2>2, <2>3, TheOrder DEF InOrder, Before
  <2> QED BY <2>1, <2>2, <2>3, <2>4, Stutters
<1>4. CASE RunCallback
  <2>1. /\ due # << >> /\ due' = Tail(due) /\ errors' = errors + 1
        /\ inflight' = inflight /\ live' = live
    BY <1>4 DEF RunCallback, OnDone
  <2> DEFINE m == Head(due)
  <2>2. m \in Range(due) /\ Ascends(due') /\ Range(due') = Range(due) \ {m}
    BY <2>1, TheOrder, CalledBack
  <2>3. InOrder'
    BY <2>1, <2>2, TheOrder DEF InOrder, Before
  <2>4. m \notin Range(inflight)
    <3>1. m \in Int
      BY <2>2, TheOrder, Queues DEF TradeIds
    <3> QED BY <2>2, <3>1, TheOrder DEF Before
  <2>5. OutboxImpl!GiveUp(m)
    BY <2>1, <2>2, <2>4 DEF OutboxImpl!GiveUp
  <2>6. m \in Range(due) \union Range(inflight)
    BY <2>2
  <2> QED BY <2>3, <2>5, <2>6 DEF Step, OutboxImpl!Next
<1> QED BY <1>1, <1>2, <1>3, <1>4 DEF ClientStep

LEMMA EveryStep ==
    ASSUME OutboxInv, [Next]_vars
    PROVE  Step /\ InOrder'
<1>0. TypeOK /\ made' \in Nat /\ made <= made' /\ made \in Nat
  BY MadeGrows, TheOrder DEF OutboxInv
<1>1. CASE Trade
  <2>1. made' = made + 1 /\ made' \in TradeIds /\ Publish(made')
    BY <1>0, <1>1, TheOrder DEF Trade, TradeIds
  <2> QED BY <2>1, PublishIsAccept
<1>2. CASE Client
  BY <1>2, ClientIsOutbox DEF Client
<1>3. CASE Exit \/ Kill
  <2>1. ClientIsGone /\ made' = made
    BY <1>3 DEF Exit, Kill, Gone
  <2>2. /\ inflight' = << >> /\ due' = << >> /\ errors' = 0 /\ live' = live
    BY <2>1 DEF ClientIsGone
  <2>3. Range(inflight') = {} /\ Range(due') = {} /\ Ascends(inflight') /\ Ascends(due')
    BY <2>2, NothingAscends
  <2>4. OutboxImpl!Crash
    BY <2>2, <2>3 DEF OutboxImpl!Crash
  <2>5. InOrder'
    BY <2>1, <2>2, <2>3, TheOrder DEF InOrder, Before
  <2> QED BY <2>4, <2>5 DEF Step, OutboxImpl!Next
<1>4. ASSUME UNCHANGED <<inflight, due, live, errors>> PROVE Step /\ InOrder'
  <2>1. Step
    BY <1>4, Stutters
  <2>2. \A m \in Range(due) \union Range(inflight) \union Range(live) : m \in Int /\ m <= made'
    BY <1>0, TheOrder, Queues DEF TradeIds
  <2>3. InOrder'
    BY <1>4, <2>2, TheOrder DEF InOrder
  <2> QED BY <2>1, <2>3
<1>5. CASE Drain
  BY <1>4, <1>5 DEF Drain, StopClient
<1>6. CASE MissedTrade \/ OtherMessage \/ Tick \/ FlusherWakes \/ RequestStop \/ RunReturns
  BY <1>4, <1>6 DEF MissedTrade, OtherMessage, Tick, FlusherWakes, RequestStop, RunReturns,
     publisherVars, clientVars
<1>7. CASE Restart \/ UNCHANGED vars
  BY <1>4, <1>7 DEF Restart, vars, publisherVars, clientVars
<1>8. CASE OperatorBackfills \/ ScriptSends \/ ScriptEnds \/ ScriptRaises
  BY <1>4, <1>8 DEF OperatorBackfills, ScriptSends, ScriptEnds, ScriptRaises,
     publisherVars, clientVars
<1> QED BY <1>1, <1>2, <1>3, <1>5, <1>6, <1>7, <1>8 DEF Next

LEMMA OutboxInitially == Init => OutboxInv /\ OutboxImpl!Init
<1> SUFFICES ASSUME Init PROVE OutboxInv /\ OutboxImpl!Init
  OBVIOUS
<1>1. due = << >> /\ inflight = << >> /\ live = << >> /\ errors = 0 /\ made = 0
  BY DEF Init, PublisherInit, NewClient
<1>2. Range(due) = {} /\ Range(inflight) = {} /\ Range(live) = {}
      /\ Ascends(due) /\ Ascends(inflight) /\ Ascends(live)
  BY <1>1, NothingAscends
<1>3. InOrder
  BY <1>2 DEF InOrder, Before
<1>4. OutboxImpl!Init
  BY <1>1, <1>2 DEF OutboxImpl!Init
<1> QED BY <1>3, <1>4, InitInv DEF OutboxInv, DeliveryInv

\* Publishing keeps the promise of an outbox: no trade handed to the publisher
\* is lost uncounted while the process lives, and the topic keeps their order.
THEOREM PublisherIsOutbox == Spec => OutboxSpec
<1>1. OutboxInv /\ [Next]_vars => Step /\ InOrder'
  BY EveryStep
<1> QED BY OutboxInitially, <1>1, DeliveryTypeCorrect, PTL
        DEF Spec, OutboxSpec, OutboxImpl!Spec, OutboxInv, Step

-----------------------------------------------------------------------------
(* The walk through the pages. *)

\* What the exchange returns of what is older than a cursor.
Returned(c) == {t \in (1..made) \ Withheld : t < c}

\* A page holds the newest of what is older than its cursor: it is empty only if
\* nothing is, and what it lacks is older than all it has.
LEMMA PageFacts ==
    ASSUME made \in Nat, NEW c \in Int
    PROVE  /\ Page(c) \subseteq Returned(c) /\ Page(c) \subseteq Nat
           /\ Returned(c) # {} => Page(c) # {}
           /\ Page(c) # {} => Min(Page(c)) \in Page(c) /\ Min(Page(c)) \in Nat /\ Min(Page(c)) < c
           /\ \A t \in Returned(c) \ Page(c) : t < Min(Page(c))
<1> DEFINE old == Returned(c)
           After(t) == {u \in old : u > t}
<1>1. old \subseteq 1..made /\ IsFiniteSet(old)
  <2>1. IsFiniteSet(1..made)
    BY FS_Interval
  <2>2. old \subseteq 1..made
    BY DEF Returned
  <2> QED BY <2>1, <2>2, FS_Subset
<1>2. Page(c) = {t \in old : Cardinality(After(t)) < PageSize}
  BY DEF Page, Returned
<1>3. \A t : IsFiniteSet(After(t)) /\ Cardinality(After(t)) \in Nat
  BY <1>1, FS_Subset, FS_CardinalityType
<1>0. \A t \in old : t \in Nat /\ t \in Int /\ t \in 0..made
  BY DEF Returned
<1> HIDE DEF old
<1>4. ASSUME old # {} PROVE Page(c) # {}
  <2>1. old \in SUBSET (0..made)
    BY <1>0
  <2>2. PICK t \in old : \A u \in old : u <= t
    BY <1>4, <2>1, Greatest
  <2>3. After(t) = {}
    BY <1>0, <2>2
  <2>4. Cardinality(After(t)) = 0
    BY <2>3, FS_EmptySet
  <2>5. t \in Page(c)
    <3> HIDE DEF After
    <3> QED BY <1>2, <2>4, BackfillAssumption
  <2> QED BY <2>5
<1>5. ASSUME NEW t \in old \ Page(c), NEW p \in Page(c) PROVE t < p
  <2>1. p \in old /\ t \in Int /\ p \in Int
    BY <1>2, <1>0
  <2>2. ~ (Cardinality(After(t)) < PageSize) /\ Cardinality(After(p)) < PageSize
    BY <1>2, <1>5
  <2>3. ASSUME p < t PROVE FALSE
    <3>1. After(t) \subseteq After(p)
      <4> SUFFICES ASSUME NEW u \in old, u > t PROVE u > p
        OBVIOUS
      <4>1. u \in Int
        BY <1>0
      <4> QED BY <2>1, <2>3, <4>1
    <3>2. Cardinality(After(t)) <= Cardinality(After(p))
      <4> HIDE DEF After
      <4> QED BY <1>3, <3>1, FS_Subset
    <3> HIDE DEF After
    <3> QED BY <1>3, <2>2, <3>2, BackfillAssumption
  <2>4. t # p
    BY <1>5
  <2> QED BY <2>1, <2>3, <2>4
<1>6. Page(c) \subseteq Nat /\ Page(c) \subseteq old
  BY <1>2, <1>0
<1>7. Page(c) # {} => Min(Page(c)) \in Page(c)
  BY <1>6, MinIsLeast
<1>8. \A t \in old : t < c
  BY DEF old, Returned
<1> QED BY <1>4, <1>5, <1>6, <1>7, <1>8 DEF old

\* A step of the walk, and a function that makes all of them.
Visit(w, after, c) ==
    IF Page(c) = {} THEN {}
    ELSE Page(c) \union (IF Min(Page(c)) <= after THEN {} ELSE w[Min(Page(c))])

Walk(after) == CHOOSE w : w = [c \in Int |-> Visit(w, after, c)]

\* There is one: up to each cursor by induction, and no page begins later than
\* the trades do.
LEMMA WalkExists ==
    ASSUME made \in Nat, NEW after
    PROVE  Walk(after) = [c \in Int |-> Visit(Walk(after), after, c)]
<1> DEFINE V(w, c) == Visit(w, after, c)
           Walks(w, n) == /\ w = [c \in Int |-> w[c]]
                          /\ \A c \in Int : c <= n => w[c] = V(w, c)
           Fails == {n \in Nat : ~ \E w : Walks(w, n)}
\* A step looks only at earlier cursors.
<1>1. ASSUME NEW v, NEW w, NEW c \in Int, \A b \in Nat : b < c /\ b <= made => v[b] = w[b]
      PROVE  V(v, c) = V(w, c)
  <2>1. Page(c) # {} => Min(Page(c)) \in Nat /\ Min(Page(c)) < c /\ Min(Page(c)) <= made
    BY PageFacts DEF Returned
  <2> QED BY <1>1, <2>1 DEF Visit
<1> HIDE DEF V
<1>2. Fails = {}
  <2> SUFFICES ASSUME Fails # {} PROVE FALSE
    OBVIOUS
  <2>1. PICK n \in Fails : \A m \in Fails : n <= m
    <3>1. Fails \in SUBSET Nat
      OBVIOUS
    <3> HIDE DEF Fails
    <3> QED BY <3>1, Least
  <2>2. n \in Nat
    OBVIOUS
  <2>3. \E w : /\ w = [c \in Int |-> w[c]]
               /\ \A c \in Int : c < n => w[c] = V(w, c)
    <3>1. CASE n = 0
      <4> DEFINE w == [c \in Int |-> {}]
      <4>1. \A c \in Int : c < 0 => Page(c) = {}
        BY PageFacts DEF Returned
      <4>2. \A c \in Int : c < 0 => V(w, c) = {}
        BY <4>1 DEF V, Visit
      <4> QED BY <3>1, <4>2
    <3>2. CASE n # 0
      <4>1. n - 1 \in Nat /\ n - 1 \notin Fails /\ \A c \in Int : c < n <=> c <= n - 1
        BY <2>1, <2>2, <3>2
      <4>2. PICK w : Walks(w, n - 1)
        BY <4>1
      <4> QED BY <4>1, <4>2
    <3> QED BY <3>1, <3>2
  <2>4. PICK w : /\ w = [c \in Int |-> w[c]]
                 /\ \A c \in Int : c < n => w[c] = V(w, c)
    BY <2>3
  <2> DEFINE v == [c \in Int |-> IF c = n THEN V(w, c) ELSE w[c]]
  <2>5. \A c \in Int : c <= n => V(v, c) = V(w, c)
    <3> SUFFICES ASSUME NEW c \in Int, c <= n PROVE V(v, c) = V(w, c)
      OBVIOUS
    <3>1. \A b \in Nat : b < c => v[b] = w[b]
      BY <2>2
    <3> HIDE DEF v
    <3> QED BY <1>1, <3>1
  <2>6. Walks(v, n)
    <3>1. \A c \in Int : c <= n => v[c] = V(w, c)
      BY <2>2, <2>4
    <3>2. v = [c \in Int |-> v[c]]
      OBVIOUS
    <3> HIDE DEF v
    <3> QED BY <2>5, <3>1, <3>2
  <2> QED BY <2>1, <2>6
<1>3. PICK w : Walks(w, made)
  BY <1>2
<1> DEFINE v == [c \in Int |-> V(w, c)]
<1>4. \A b \in Int : b <= made => v[b] = w[b]
  BY <1>3
<1>5. \A c \in Int : V(v, c) = V(w, c)
  <2> SUFFICES ASSUME NEW c \in Int PROVE V(v, c) = V(w, c)
    OBVIOUS
  <2> HIDE DEF v
  <2> QED BY <1>1, <1>4
<1>6. v = [c \in Int |-> V(v, c)]
  BY <1>5
<1>7. \E u : u = [c \in Int |-> Visit(u, after, c)]
  <2> HIDE DEF v
  <2> QED BY <1>6 DEF V
<1> QED BY <1>7, Zenon DEF Walk

\* The walk reaches everything between its bounds that the exchange returns, and
\* finds trades only.
LEMMA WalkFindsAll ==
    ASSUME made \in Nat, NEW after \in Int, NEW c \in Int
    PROVE  /\ \A t \in Returned(c) : after < t => t \in Walk(after)[c]
           /\ Walk(after)[c] \subseteq 1..made
<1> DEFINE w == Walk(after)
           Good(n) == /\ \A t \in Returned(n) : after < t => t \in w[n]
                      /\ w[n] \subseteq 1..made
           Fails == {n \in Nat : ~ Good(n)}
<1>1. \A n \in Int : w[n] = Visit(w, after, n)
  <2> DEFINE v == [n \in Int |-> Visit(w, after, n)]
  <2>1. w = v
    BY WalkExists
  <2>2. \A n \in Int : v[n] = Visit(w, after, n)
    OBVIOUS
  <2> HIDE DEF v, w
  <2> QED BY <2>1, <2>2
<1> HIDE DEF w
<1>2. ASSUME NEW n \in Int, \A m \in Nat : m < n => Good(m) PROVE Good(n)
  <2>1. CASE Page(n) = {}
    <3>1. Returned(n) = {} /\ w[n] = {}
      BY <1>1, <2>1, PageFacts DEF Visit
    <3> QED BY <3>1
  <2>2. CASE Page(n) # {}
    <3> DEFINE m == Min(Page(n))
    <3>1. /\ m \in Nat /\ m < n /\ m \in Page(n) /\ Page(n) \subseteq 1..made
          /\ \A t \in Returned(n) \ Page(n) : t < m /\ t \in Returned(m)
      BY <2>2, PageFacts DEF Returned
    <3>2. w[n] = Page(n) \union (IF m <= after THEN {} ELSE w[m])
      BY <1>1, <2>2 DEF Visit
    <3>3. Good(m)
      BY <1>2, <3>1
    <3>4. ASSUME NEW t \in Returned(n) \ Page(n), after < t PROVE t \in w[n]
      <4>1. t < m /\ t \in Returned(m) /\ t \in Int
        BY <3>1 DEF Returned
      <4>2. ~ (m <= after)
        BY <3>1, <3>4, <4>1
      <4> QED BY <3>2, <3>3, <3>4, <4>1, <4>2
    <3> HIDE DEF m
    <3> QED BY <3>1, <3>2, <3>3, <3>4
  <2> QED BY <2>1, <2>2
<1> HIDE DEF Good
<1>3. Fails = {}
  <2> SUFFICES ASSUME Fails # {} PROVE FALSE
    OBVIOUS
  <2>1. PICK n \in Fails : \A m \in Fails : n <= m
    <3>1. Fails \in SUBSET Nat
      OBVIOUS
    <3> HIDE DEF Fails
    <3> QED BY <3>1, Least
  <2>2. \A m \in Nat : m < n => Good(m)
    BY <2>1
  <2> QED BY <1>2, <2>2
<1>4. Good(c)
  BY <1>2, <1>3
<1> QED BY <1>4 DEF Good, w

\* What is collected is all that was asked for and the exchange returns.
LEMMA CollectedFindsAll ==
    ASSUME made \in Nat, NEW a \in Nat, NEW b \in 1..made
    PROVE  /\ Wanted(a, b) \ Withheld \subseteq Collected(a, b)
           /\ Collected(a, b) \subseteq 1..made
<1>1. Collected(a, b) = Walk(a)[b + PageSize] \intersect Wanted(a, b)
  BY DEF Collected, Walk, Visit
<1>2. b + PageSize \in Int /\ b <= b + PageSize
  BY BackfillAssumption
<1>3. ASSUME NEW t \in Wanted(a, b) \ Withheld
      PROVE  t \in Returned(b + PageSize) /\ a < t
  BY <1>2, <1>3 DEF Wanted, Returned
<1> QED BY <1>1, <1>2, <1>3, WalkFindsAll

\* Nothing is on the topic, or about to be put there, before it was made.
OnlyTheMade ==
    /\ backfilled \subseteq 1..made
    /\ script.state = "publishing" => script.pending \subseteq 1..made

\* A script that is publishing has what it wants on the topic or before it.
FindsAll ==
    script.state = "publishing" =>
        script.wanted \ Withheld \subseteq Topic \union script.pending

TopicInv == OutboxInv /\ OnlyTheMade /\ FindsAll /\ BackfillFindsAll

LEMMA TopicStep ==
    ASSUME TopicInv, [Next]_vars
    PROVE  OnlyTheMade' /\ FindsAll' /\ BackfillFindsAll'
<1>1. Topic \subseteq Topic' /\ TypeOK /\ made \in Nat /\ made' \in Nat /\ made <= made'
  BY TopicGrows, MadeGrows, TheOrder DEF TopicInv, OutboxInv
<1>2. 1..made \subseteq 1..made'
  BY <1>1
<1>3. CASE OperatorBackfills
  <2>1. PICK h \in Holes : RunBackfill(h[1], h[2])
    BY <1>3 DEF OperatorBackfills
  <2>2. Topic \subseteq 1..made
    <3>1. \A m \in Range(live) : m \in Nat /\ 1 <= m /\ m <= made
      BY TheOrder, Queues DEF TopicInv, TradeIds
    <3>2. Range(live) \subseteq 1..made
      BY <1>1, <3>1
    <3>3. backfilled \subseteq 1..made
      BY DEF TopicInv, OnlyTheMade
    <3> QED BY <3>2, <3>3 DEF Topic
  <2>3. h[1] \in Nat /\ h[2] \in 1..made
    <3>1. h[1] \in 1..made /\ h[2] \in 1..made
      BY <2>2 DEF Holes
    <3>2. \A n \in 1..made : n \in Nat
      BY <1>1
    <3> QED BY <3>1, <3>2
  <2> DEFINE wanted == Wanted(h[1], h[2])
             got == Collected(h[1], h[2])
  <2>4. wanted \ Withheld \subseteq got /\ got \subseteq 1..made
    BY <1>1, <2>3, CollectedFindsAll
  <2>5. /\ script' = [state |-> "publishing", wanted |-> wanted, missing |-> wanted \ got,
                      pending |-> got]
        /\ backfilled' = backfilled /\ made' = made
    BY <1>3, <2>1 DEF RunBackfill, OperatorBackfills
  <2> HIDE DEF wanted, got
  <2> QED BY <2>4, <2>5 DEF TopicInv, OnlyTheMade, FindsAll, BackfillFindsAll
<1>4. CASE ScriptSends
  <2>1. PICK t \in script.pending : /\ script.state = "publishing" /\ made' = made
                                    /\ backfilled' = backfilled \union {t}
                                    /\ script' = [script EXCEPT !.pending = script.pending \ {t}]
    BY <1>4 DEF ScriptSends, BackfillSends
  <2>2. /\ script'.state = "publishing" /\ script'.wanted = script.wanted
        /\ script'.pending = script.pending \ {t}
    BY <1>1, <2>1 DEF TypeOK, BackfillOK
  <2>3. t \in Topic'
    BY <2>1 DEF Topic
  <2> QED BY <1>1, <2>1, <2>2, <2>3 DEF TopicInv, OnlyTheMade, FindsAll, BackfillFindsAll
<1>5. CASE ScriptEnds
  <2>1. /\ script.pending = {} /\ script.state = "publishing" /\ made' = made
        /\ backfilled' = backfilled
        /\ script' = [script EXCEPT !.state = Ended, !.missing = {}]
    BY <1>5 DEF ScriptEnds, BackfillEnds
  <2>2. script'.state # "publishing" /\ script'.wanted = script.wanted
    BY <1>1, <2>1 DEF Ended, TypeOK, BackfillOK
  <2> QED BY <1>1, <2>1, <2>2 DEF TopicInv, OnlyTheMade, FindsAll, BackfillFindsAll
<1>6. CASE ScriptRaises
  <2>1. script'.state = "raised" /\ backfilled' = backfilled /\ made' = made
    BY <1>6 DEF ScriptRaises, BackfillRaises
  <2> QED BY <1>1, <2>1 DEF TopicInv, OnlyTheMade, FindsAll, BackfillFindsAll
<1>7. ASSUME script' = script, backfilled' = backfilled
      PROVE  OnlyTheMade' /\ FindsAll' /\ BackfillFindsAll'
  BY <1>1, <1>2, <1>7 DEF TopicInv, OnlyTheMade, FindsAll, BackfillFindsAll
<1>8. CASE Trade \/ MissedTrade \/ OtherMessage \/ Tick \/ FlusherWakes \/ Client
  BY <1>7, <1>8 DEF Trade, MissedTrade, OtherMessage, Tick, FlusherWakes, Client, backfillVars
<1>9. CASE RequestStop \/ RunReturns \/ Drain \/ Restart
  BY <1>7, <1>9 DEF RequestStop, RunReturns, Drain, Restart, backfillVars
<1>10. CASE Exit \/ Kill \/ UNCHANGED vars
  BY <1>7, <1>10 DEF Exit, Kill, Gone, vars, backfillVars
<1> QED BY <1>3, <1>4, <1>5, <1>6, <1>8, <1>9, <1>10 DEF Next

LEMMA TopicInvariance == Spec => []TopicInv
<1>1. Init => TopicInv
  BY OutboxInitially DEF Init, BackfillInit, TopicInv, OnlyTheMade, FindsAll, BackfillFindsAll
<1>2. TopicInv /\ TypeOK' /\ [Next]_vars => TopicInv'
  <2>1. SUFFICES ASSUME TopicInv, TypeOK', [Next]_vars PROVE TopicInv'
    OBVIOUS
  <2>2. InOrder'
    BY <2>1, EveryStep DEF TopicInv
  <2> QED BY <2>1, <2>2, TopicStep DEF TopicInv, OutboxInv
<1> QED BY <1>1, <1>2, DeliveryTypeCorrect, PTL DEF Spec

\* A script that ends has put on the topic all of its range that the exchange
\* returns, for any size of page: backfill_trades.py, walking back page by page.
THEOREM BackfillComplete == Spec => []BackfillFindsAll
<1>1. TopicInv => BackfillFindsAll
  BY DEF TopicInv
<1> QED BY <1>1, TopicInvariance, PTL
=============================================================================
