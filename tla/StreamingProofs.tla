--------------------------- MODULE StreamingProofs ---------------------------
(***************************************************************************)
(* Proofs about Streaming, for every exchange, window length, allowed      *)
(* lateness, replay and number of bursts: what the last pane of a window   *)
(* holds, and what the reconciliation's verdicts may be put down to.       *)
(*                                                                         *)
(* All steps of a running job are of one kind: some messages are taken and *)
(* some windows fire.  The invariant says of each job and window that,     *)
(* once the window is closed for the job, the last of the job's panes      *)
(* holds all that the job took.                                            *)
(***************************************************************************)
EXTENDS Streaming, LeastNumber, FiniteSetTheorems

Panes == [job : Jobs, index : Nat, of : SUBSET Messages]
TableOK == table \in [Windows -> Seq(Panes)]

\* Job j will take no more messages for window w without firing it.
Closed(j, w) == j < jobs \/ ~running \/ End(w) <= watermark

\* A pane holds some of what its job took.
PanesHold ==
    \A w \in Windows : \A i \in DOMAIN table[w] :
        LET p == table[w][i]
        IN  p.job <= jobs /\ p.of # {} /\ p.of \subseteq Held(p.job, w)

\* The panes of one job are numbered in the order they are written, and the
\* running job's next number is a new one.
PanesNumbered ==
    \A w \in Windows :
        /\ \A i, k \in DOMAIN table[w] :
              i < k /\ table[w][i].job = table[w][k].job => table[w][i].index < table[w][k].index
        /\ \A i \in DOMAIN table[w] : table[w][i].index < i
        /\ fired[w] <= Len(table[w])
        /\ running => \A i \in DOMAIN table[w] :
              table[w][i].job = jobs => table[w][i].index < fired[w]

\* Jobs that have not started took nothing, and one that runs has started.
JobsInOrder ==
    /\ running => jobs \in Jobs
    /\ \A j \in Jobs : j > jobs => accepted[j] = {}

\* A window that the running job has not closed has no pane of it.
OpenIsSilent ==
    running => \A w \in Windows : watermark < End(w) =>
        \A i \in DOMAIN table[w] : table[w][i].job # jobs

\* The last pane of a job that has closed a window holds all it took.
LastPaneIsWhole ==
    \A w \in Windows, j \in Jobs :
        j <= jobs /\ Closed(j, w) /\ Held(j, w) # {} =>
            \E i \in DOMAIN table[w] :
                /\ table[w][i].job = j /\ table[w][i].of = Held(j, w)
                /\ \A k \in DOMAIN table[w] : i < k => table[w][k].job # j

StreamInv ==
    /\ TypeOK /\ TableOK
    /\ JobsInOrder /\ PanesHold /\ PanesNumbered /\ OpenIsSilent /\ LastPaneIsWhole

-----------------------------------------------------------------------------
(* The constants. *)

\* The trades are numbered, and the last window is that of the last trade.
LEMMA MadeFacts ==
    /\ Len(Made) \in Nat /\ Len(Made) > 0 /\ Trades = 1..Len(Made)
    /\ \A t \in Trades : Made[t] \in Nat
    /\ Windows \subseteq Nat
    /\ \A t \in Trades : Made[t] <= Made[Len(Made)]
<1> DEFINE n == Len(Made)
<1>1. n \in Nat /\ n > 0 /\ Trades = 1..n /\ \A t \in Trades : Made[t] \in Nat
  BY StreamingAssumption DEF Trades
<1>2. Windows \subseteq Nat
  BY <1>1 DEF Windows
<1>3. \A t \in Trades : Made[t] <= Made[n]
  <2> DEFINE Later == {t \in 1..n : Made[t] > Made[n]}
  <2> SUFFICES ASSUME Later # {} PROVE FALSE
    BY <1>1
  <2>1. Later \in SUBSET (0..n)
    OBVIOUS
  <2>2. PICK t \in Later : \A u \in Later : u <= t
    BY <1>1, <2>1, Greatest
  <2>3. t \in 1..n /\ t # n /\ Made[t] > Made[n]
    BY <1>1
  <2>4. t + 1 \in 1..n /\ t + 1 \notin Later /\ Made[t] <= Made[t + 1]
    BY <1>1, <2>2, <2>3, StreamingAssumption
  <2> QED BY <1>1, <2>3, <2>4
<1> QED BY <1>1, <1>2, <1>3

LEMMA EndFacts ==
    /\ \A w \in Windows : End(w) \in Nat /\ End(w) > 0
    /\ Horizon \in Nat
<1>1. \A w \in Nat : (w + 1) * WindowTicks \in Nat /\ (w + 1) * WindowTicks > 0
  <2>1. \A a, b \in Nat : a > 0 /\ b > 0 => a * b \in Nat /\ a * b > 0
    OBVIOUS
  <2>2. \A w \in Nat : w + 1 \in Nat /\ w + 1 > 0
    OBVIOUS
  <2> QED BY <2>1, <2>2, StreamingAssumption
<1>2. \A w \in Windows : End(w) \in Nat /\ End(w) > 0
  BY <1>1, MadeFacts DEF End
<1>3. Max(Windows) \in Windows
  <2>1. Windows # {} /\ Windows \in SUBSET (0..Made[Len(Made)]) /\ Made[Len(Made)] \in Nat
    BY MadeFacts DEF Windows
  <2> QED BY <2>1, MaxIsGreatest
<1> QED BY <1>2, <1>3, StreamingAssumption DEF Horizon

LEMMA MessageFacts ==
    /\ \A m \in Messages : m.trade \in Trades /\ WindowOf(m) \in Windows
    /\ \A m, n \in Messages : m # n => m.trade # n.trade \/ m.copy # n.copy
<1>1. Replayed \subseteq Trades
  BY StreamingAssumption DEF Trades
<1> QED BY <1>1 DEF Messages, WindowOf, Windows

\* There are finitely many messages and trades.
LEMMA Finite == IsFiniteSet(Messages) /\ IsFiniteSet(Trades)
<1>1. IsFiniteSet(Trades)
  BY MadeFacts, FS_Interval
<1>2. ASSUME NEW S \in SUBSET Trades, NEW c PROVE IsFiniteSet([trade : S, copy : {c}])
  <2> DEFINE f == [m \in [trade : S, copy : {c}] |-> m.trade]
  <2>1. f \in Injection([trade : S, copy : {c}], Trades)
    BY DEF Injection, IsInjective
  <2> QED BY <1>1, <2>1, FS_Injection
<1>3. Replayed \in SUBSET Trades
  BY StreamingAssumption DEF Trades
<1> QED BY <1>1, <1>2, <1>3, FS_Union DEF Messages

-----------------------------------------------------------------------------
(* The steps of a running job, of one kind: it takes messages, only for windows
   that are open or fire now, and each window of ws that it holds anything of
   fires. *)

Takes ==
    /\ accepted' \in [Jobs -> SUBSET Messages]
    /\ \A j \in Jobs : j # jobs => accepted'[j] = accepted[j]
    /\ accepted[jobs] \subseteq accepted'[jobs]

Fires(ws) ==
    /\ running /\ jobs' = jobs /\ running' \in BOOLEAN
    /\ watermark' \in 0..Horizon /\ dropped' \subseteq Messages
    /\ UNCHANGED batchVars
    /\ Takes
    /\ table' = [w \in Windows |->
          IF w \in ws /\ Held(jobs, w)' # {}
          THEN Append(table[w], [job |-> jobs, index |-> fired[w], of |-> Held(jobs, w)'])
          ELSE table[w]]
    /\ fired' = [w \in Windows |->
          IF w \in ws /\ Held(jobs, w)' # {} THEN fired[w] + 1 ELSE fired[w]]
    /\ \A w \in Windows \ ws :
          Closed(jobs, w)' => Closed(jobs, w) /\ Held(jobs, w)' = Held(jobs, w)
    /\ \A w \in Windows : running' /\ watermark' < End(w) => w \notin ws /\ watermark < End(w)

\* Restate, as the model's Fire uses it, for a step that leaves jobs alone.
LEMMA FireIs ==
    ASSUME NEW ws, Fire(ws), jobs' = jobs
    PROVE  /\ table' = [w \in Windows |->
                IF w \in ws /\ w \in Windows /\ Held(jobs, w)' # {}
                THEN Append(table[w], [job |-> jobs, index |-> fired[w], of |-> Held(jobs, w)'])
                ELSE table[w]]
           /\ fired' = [w \in Windows |->
                IF w \in ws /\ w \in Windows /\ Held(jobs, w)' # {}
                THEN fired[w] + 1 ELSE fired[w]]
<1>1. \A w \in Windows : NowHeld[w] = Held(jobs, w)'
  BY DEF NowHeld, Held
<1>2. \A w \in Windows : w \in {v \in ws : NowHeld[v] # {}} <=> w \in ws /\ Held(jobs, w)' # {}
  BY <1>1
<1> QED BY <1>1, <1>2, Zenon DEF Fire, Restate

\* Taking one message changes what the job holds of its window alone.
LEMMA AcceptTakes ==
    ASSUME TypeOK, running, jobs \in Jobs, jobs' = jobs, NEW m \in Messages, Accept(m)
    PROVE  /\ Takes /\ dropped' = dropped
           /\ \A w \in Windows : w # WindowOf(m) => Held(jobs, w)' = Held(jobs, w)
<1>1. accepted' = [accepted EXCEPT ![jobs] = @ \union {m}] /\ dropped' = dropped
  BY DEF Accept
<1>2. accepted \in [Jobs -> SUBSET Messages]
  BY DEF TypeOK
<1>3. Takes
  BY <1>1, <1>2 DEF Takes
<1>4. accepted'[jobs] = accepted[jobs] \union {m}
  BY <1>1, <1>2
<1> QED BY <1>1, <1>3, <1>4 DEF Held

\* Every step of the stream is a burst's start or of this kind.
LEMMA ReceiveFires ==
    ASSUME TypeOK, TableOK, JobsInOrder, NEW m \in Messages, Receive(m)
    PROVE  \E ws : Fires(ws)
<1> DEFINE v == WindowOf(m)
<1>1. /\ running /\ running' = running /\ jobs' = jobs /\ jobs \in Jobs
      /\ watermark' = watermark /\ UNCHANGED batchVars
      /\ watermark \in Nat /\ watermark \in 0..Horizon /\ dropped \subseteq Messages
  BY EndFacts DEF Receive, JobsInOrder, TypeOK
<1>2. /\ v \in Windows /\ End(v) \in Nat
      /\ \A w \in Windows : End(w) \in Nat
  BY MessageFacts, EndFacts
<1>3. \A w \in Windows : Closed(jobs, w)' <=> Closed(jobs, w)
  BY <1>1 DEF Closed
<1>4. /\ table = [w \in Windows |-> table[w]] /\ fired = [w \in Windows |-> fired[w]]
      /\ accepted \in [Jobs -> SUBSET Messages]
  BY DEF TypeOK, TableOK
<1>5. CASE watermark < End(v) /\ Accept(m) /\ UNCHANGED <<table, fired>>
  <2>1. /\ Takes /\ dropped' = dropped
        /\ \A w \in Windows : w # v => Held(jobs, w)' = Held(jobs, w)
    BY <1>1, <1>5, AcceptTakes
  <2>2. ~ Closed(jobs, v)
    <3>1. jobs \in Nat
      BY <1>1 DEF Jobs
    <3> QED BY <1>1, <1>2, <1>5, <3>1 DEF Closed
  <2>3. Fires({})
    BY <1>1, <1>3, <1>4, <1>5, <2>1, <2>2 DEF Fires
  <2> QED BY <2>3
<1>6. CASE End(v) <= watermark /\ Accept(m) /\ Fire({v})
  <2>1. /\ Takes /\ dropped' = dropped
        /\ \A w \in Windows : w # v => Held(jobs, w)' = Held(jobs, w)
    BY <1>1, <1>6, AcceptTakes
  <2>2. \A w \in Windows : watermark < End(w) => w # v
    BY <1>1, <1>2, <1>6
  <2>3. Fires({v})
    BY <1>1, <1>2, <1>3, <1>6, <2>1, <2>2, FireIs DEF Fires
  <2> QED BY <2>3
<1>7. CASE dropped' = dropped \union {m} /\ UNCHANGED <<accepted, table, fired>>
  <2>1. Takes /\ \A w \in Windows : Held(jobs, w)' = Held(jobs, w)
    BY <1>1, <1>4, <1>7 DEF Takes, Held
  <2>2. Fires({})
    BY <1>1, <1>3, <1>4, <1>7, <2>1 DEF Fires
  <2> QED BY <2>2
<1> QED BY <1>5, <1>6, <1>7 DEF Receive

LEMMA AdvanceFires ==
    ASSUME TypeOK, TableOK, JobsInOrder, Advance
    PROVE  \E ws : Fires(ws)
<1> DEFINE ws == {w \in Windows : End(w) = watermark + 1}
<1>1. /\ running /\ running' = running /\ jobs' = jobs /\ jobs \in Jobs
      /\ watermark' = watermark + 1 /\ watermark < Horizon
      /\ UNCHANGED batchVars /\ accepted' = accepted /\ dropped' = dropped
      /\ Fire(ws)
  BY DEF Advance, JobsInOrder
<1>2. /\ watermark \in Nat /\ watermark' \in 0..Horizon /\ running \in BOOLEAN
      /\ dropped \subseteq Messages /\ accepted \in [Jobs -> SUBSET Messages]
      /\ \A w \in Windows : End(w) \in Nat
  BY <1>1, EndFacts DEF TypeOK
<1>3. Takes /\ \A w \in Windows : Held(jobs, w)' = Held(jobs, w)
  BY <1>1, <1>2 DEF Takes, Held
<1>4. \A w \in Windows \ ws : Closed(jobs, w)' => Closed(jobs, w)
  BY <1>1, <1>2 DEF Closed
<1>5. \A w \in Windows : watermark' < End(w) => w \notin ws /\ watermark < End(w)
  BY <1>1, <1>2
<1>6. Fires(ws)
  <2> HIDE DEF ws
  <2> QED BY <1>1, <1>2, <1>3, <1>4, <1>5, FireIs DEF Fires
<1> QED BY <1>6

LEMMA DrainFires ==
    ASSUME TypeOK, TableOK, JobsInOrder, Drain
    PROVE  \E ws : Fires(ws)
<1> DEFINE ws == {w \in Windows : watermark < End(w)}
<1>1. /\ running /\ ~running' /\ running' \in BOOLEAN /\ jobs' = jobs /\ jobs \in Jobs
      /\ watermark' = watermark /\ accepted' = accepted /\ dropped' = dropped
      /\ UNCHANGED batchVars
      /\ Fire(ws)
  BY DEF Drain, JobsInOrder
<1>2. /\ watermark \in Nat /\ watermark \in 0..Horizon
      /\ dropped \subseteq Messages /\ accepted \in [Jobs -> SUBSET Messages]
      /\ \A w \in Windows : End(w) \in Nat
  BY EndFacts DEF TypeOK
<1>3. Takes /\ \A w \in Windows : Held(jobs, w)' = Held(jobs, w)
  BY <1>1, <1>2 DEF Takes, Held
<1>4. \A w \in Windows \ ws : Closed(jobs, w)
  BY <1>1, <1>2 DEF Closed
<1>5. Fires(ws)
  <2> HIDE DEF ws
  <2> QED BY <1>1, <1>2, <1>3, <1>4, FireIs DEF Fires
<1> QED BY <1>5

-----------------------------------------------------------------------------
(* A step of this kind keeps the invariant. *)

\* What a firing does to one window: a pane is appended, or nothing happens.
LEMMA WindowFires ==
    ASSUME StreamInv, NEW ws, Fires(ws), NEW w \in Windows
    PROVE  /\ jobs \in Jobs /\ jobs \in Nat /\ jobs' = jobs
           /\ table[w] \in Seq(Panes) /\ fired[w] \in Nat
           /\ Held(jobs, w) \subseteq Held(jobs, w)' /\ Held(jobs, w)' \subseteq Messages
           /\ \A j \in Jobs : j # jobs => Held(j, w)' = Held(j, w)
           /\ \/ /\ w \in ws /\ Held(jobs, w)' # {}
                 /\ table'[w] = Append(table[w], [job |-> jobs, index |-> fired[w],
                                                  of |-> Held(jobs, w)'])
                 /\ fired'[w] = fired[w] + 1
              \/ /\ ~ (w \in ws /\ Held(jobs, w)' # {})
                 /\ table'[w] = table[w] /\ fired'[w] = fired[w]
<1>1. jobs \in Jobs /\ jobs \in Nat /\ jobs' = jobs
  BY DEF StreamInv, JobsInOrder, Jobs, Fires
<1>2. table[w] \in Seq(Panes) /\ fired[w] \in Nat
  BY DEF StreamInv, TypeOK, TableOK
<1>3. /\ accepted' \in [Jobs -> SUBSET Messages]
      /\ \A j \in Jobs : j # jobs => accepted'[j] = accepted[j]
      /\ accepted[jobs] \subseteq accepted'[jobs]
  BY DEF Fires, Takes
<1>4. /\ Held(jobs, w) \subseteq Held(jobs, w)' /\ Held(jobs, w)' \subseteq Messages
      /\ \A j \in Jobs : j # jobs => Held(j, w)' = Held(j, w)
  BY <1>1, <1>3 DEF Held
<1> QED BY <1>1, <1>2, <1>4 DEF Fires

\* The appended pane is the last.
LEMMA Appended ==
    ASSUME NEW q \in Seq(Panes), NEW p \in Panes
    PROVE  /\ Append(q, p) \in Seq(Panes)
           /\ Len(q) \in Nat /\ DOMAIN q = 1..Len(q)
           /\ Len(Append(q, p)) = Len(q) + 1
           /\ DOMAIN Append(q, p) = 1..(Len(q) + 1)
           /\ \A i \in 1..Len(q) : Append(q, p)[i] = q[i]
           /\ Append(q, p)[Len(q) + 1] = p
  OBVIOUS

\* The panes of a window after a firing: the old ones, and perhaps a last one
\* with what the job holds.
LEMMA PanesAfter ==
    ASSUME StreamInv, NEW ws, Fires(ws), NEW w \in Windows
    PROVE  /\ table'[w] \in Seq(Panes) /\ fired'[w] \in Nat
           /\ \A i \in DOMAIN table[w] : i \in DOMAIN table'[w] /\ table'[w][i] = table[w][i]
           /\ \/ DOMAIN table'[w] = DOMAIN table[w] /\ fired'[w] = fired[w]
                    /\ Len(table'[w]) = Len(table[w])
                    /\ (w \in ws => Held(jobs, w)' = {})
              \/ LET n == Len(table[w]) + 1
                 IN  /\ DOMAIN table'[w] = 1..n /\ fired'[w] = fired[w] + 1
                     /\ Len(table'[w]) = n
                     /\ w \in ws /\ Held(jobs, w)' # {}
                     /\ table'[w][n].job = jobs /\ table'[w][n].index = fired[w]
                     /\ table'[w][n].of = Held(jobs, w)'
           /\ DOMAIN table[w] = 1..Len(table[w]) /\ Len(table[w]) \in Nat
<1>0. table[w] \in Seq(Panes)
  BY WindowFires
<1>1. table[w] \in Seq(Panes) /\ Len(table[w]) \in Nat /\ DOMAIN table[w] = 1..Len(table[w])
  BY <1>0
<1>2. CASE table'[w] = table[w] /\ fired'[w] = fired[w] /\ ~ (w \in ws /\ Held(jobs, w)' # {})
  BY <1>1, <1>2, WindowFires
<1>3. CASE /\ w \in ws /\ Held(jobs, w)' # {} /\ fired'[w] = fired[w] + 1
           /\ table'[w] = Append(table[w], [job |-> jobs, index |-> fired[w],
                                            of |-> Held(jobs, w)'])
  <2> DEFINE p == [job |-> jobs, index |-> fired[w], of |-> Held(jobs, w)']
  <2>1. p \in Panes /\ fired'[w] \in Nat
    BY <1>3, WindowFires DEF Panes
  <2>2. p.job = jobs /\ p.index = fired[w] /\ p.of = Held(jobs, w)'
    OBVIOUS
  <2> HIDE DEF p
  <2>3. /\ table'[w] \in Seq(Panes) /\ Len(table'[w]) = Len(table[w]) + 1
        /\ DOMAIN table'[w] = 1..(Len(table[w]) + 1)
        /\ \A i \in 1..Len(table[w]) : table'[w][i] = table[w][i]
        /\ table'[w][Len(table[w]) + 1] = p
    BY <1>1, <1>3, <2>1, Appended DEF p
  <2> QED BY <1>1, <1>3, <2>1, <2>2, <2>3
<1> QED BY <1>2, <1>3, WindowFires

LEMMA FiresPanesHold ==
    ASSUME StreamInv, NEW ws, Fires(ws)
    PROVE  PanesHold'
<1> SUFFICES ASSUME NEW w \in Windows, NEW i \in DOMAIN table'[w]
             PROVE  /\ table'[w][i].job <= jobs' /\ table'[w][i].of # {}
                    /\ table'[w][i].of \subseteq
                          {m \in accepted'[table'[w][i].job] : WindowOf(m) = w}
  BY DEF PanesHold, Held
<1>1. jobs' = jobs /\ jobs \in Nat
  BY WindowFires
<1>2. CASE i \in DOMAIN table[w]
  <2> DEFINE p == table[w][i]
  <2>1. table'[w][i] = p
    BY <1>2, PanesAfter
  <2>2. /\ p.job <= jobs /\ p.of # {} /\ p.job \in Jobs
        /\ p.of \subseteq {m \in accepted[p.job] : WindowOf(m) = w}
    BY <1>2 DEF StreamInv, PanesHold, TypeOK, Held
  <2>3. \A j \in Jobs : accepted[j] \subseteq accepted'[j]
    BY DEF Fires, Takes
  <2> HIDE DEF p
  <2> QED BY <1>1, <2>1, <2>2, <2>3
<1>3. CASE i \notin DOMAIN table[w]
  <2>1. /\ table'[w][i].job = jobs
        /\ table'[w][i].of = {m \in accepted'[jobs] : WindowOf(m) = w}
        /\ table'[w][i].of # {}
    <3>1. Len(table[w]) \in Nat /\ DOMAIN table[w] = 1..Len(table[w])
      BY PanesAfter
    <3>2. /\ DOMAIN table'[w] = 1..(Len(table[w]) + 1)
          /\ table'[w][Len(table[w]) + 1].job = jobs
          /\ table'[w][Len(table[w]) + 1].of = Held(jobs, w)' /\ Held(jobs, w)' # {}
      BY <1>3, PanesAfter
    <3>3. i = Len(table[w]) + 1
      BY <1>3, <3>1, <3>2
    <3> QED BY <1>1, <3>2, <3>3 DEF Held
  <2> QED BY <1>1, <2>1
<1> QED BY <1>2, <1>3

LEMMA FiresNumbered ==
    ASSUME StreamInv, NEW ws, Fires(ws)
    PROVE  PanesNumbered'
<1> SUFFICES ASSUME NEW w \in Windows
             PROVE  /\ \A i, k \in DOMAIN table'[w] :
                          i < k /\ table'[w][i].job = table'[w][k].job
                            => table'[w][i].index < table'[w][k].index
                    /\ \A i \in DOMAIN table'[w] : table'[w][i].index < i
                    /\ fired'[w] <= Len(table'[w])
                    /\ \A i \in DOMAIN table'[w] :
                          table'[w][i].job = jobs => table'[w][i].index < fired'[w]
  BY DEF PanesNumbered, Fires
<1>1. /\ \A i, k \in DOMAIN table[w] :
            i < k /\ table[w][i].job = table[w][k].job => table[w][i].index < table[w][k].index
      /\ \A i \in DOMAIN table[w] : table[w][i].index < i
      /\ fired[w] <= Len(table[w])
      /\ \A i \in DOMAIN table[w] : table[w][i].job = jobs => table[w][i].index < fired[w]
      /\ \A i \in DOMAIN table[w] : table[w][i].index \in Nat
      /\ fired[w] \in Nat
  BY DEF StreamInv, PanesNumbered, Fires, TypeOK
<1>2. CASE DOMAIN table'[w] = DOMAIN table[w] /\ fired'[w] = fired[w]
           /\ Len(table'[w]) = Len(table[w])
  BY <1>1, <1>2, PanesAfter
<1>3. ASSUME NEW n, n = Len(table[w]) + 1, DOMAIN table'[w] = 1..n,
             fired'[w] = fired[w] + 1, Len(table'[w]) = n,
             table'[w][n].job = jobs, table'[w][n].index = fired[w]
      PROVE  /\ \A i, k \in DOMAIN table'[w] :
                  i < k /\ table'[w][i].job = table'[w][k].job
                    => table'[w][i].index < table'[w][k].index
             /\ \A i \in DOMAIN table'[w] : table'[w][i].index < i
             /\ fired'[w] <= Len(table'[w])
             /\ \A i \in DOMAIN table'[w] :
                  table'[w][i].job = jobs => table'[w][i].index < fired'[w]
  <2>1. /\ Len(table[w]) \in Nat /\ DOMAIN table[w] = 1..Len(table[w])
        /\ \A i \in DOMAIN table[w] : table'[w][i] = table[w][i]
    BY PanesAfter
  <2>2. \A i \in 1..n : i \in DOMAIN table[w] \/ i = n
    BY <1>3, <2>1
  <2>3. \A i \in DOMAIN table'[w] : table'[w][i].index < i
    BY <1>1, <1>3, <2>1, <2>2
  <2>4. \A i \in DOMAIN table'[w] : table'[w][i].job = jobs => table'[w][i].index < fired'[w]
    <3> SUFFICES ASSUME NEW i \in 1..n, table'[w][i].job = jobs
                 PROVE  table'[w][i].index < fired[w] + 1
      BY <1>3
    <3>1. CASE i \in DOMAIN table[w]
      <4>1. table'[w][i] = table[w][i] /\ table[w][i].index < fired[w]
        BY <1>1, <2>1, <3>1
      <4> QED BY <1>1, <3>1, <4>1
    <3>2. CASE i = n
      BY <1>1, <1>3, <3>2
    <3> QED BY <2>2, <3>1, <3>2
  <2>5. \A i, k \in DOMAIN table'[w] :
            i < k /\ table'[w][i].job = table'[w][k].job
              => table'[w][i].index < table'[w][k].index
    <3> SUFFICES ASSUME NEW i \in 1..n, NEW k \in 1..n, i < k,
                        table'[w][i].job = table'[w][k].job
                 PROVE  table'[w][i].index < table'[w][k].index
      BY <1>3
    <3>1. i \in DOMAIN table[w]
      BY <1>3, <2>1
    <3>2. CASE k \in DOMAIN table[w]
      BY <1>1, <2>1, <3>1, <3>2
    <3>3. CASE k = n
      BY <1>1, <1>3, <2>1, <3>1, <3>3
    <3> QED BY <2>2, <3>2, <3>3
  <2>6. fired'[w] <= Len(table'[w])
    BY <1>1, <1>3, <2>1
  <2> QED BY <2>3, <2>4, <2>5, <2>6
<1> QED BY <1>2, <1>3, PanesAfter

LEMMA FiresOpenIsSilent ==
    ASSUME StreamInv, NEW ws, Fires(ws)
    PROVE  OpenIsSilent'
<1> SUFFICES ASSUME running', NEW w \in Windows, watermark' < End(w),
                    NEW i \in DOMAIN table'[w]
             PROVE  table'[w][i].job # jobs'
  BY DEF OpenIsSilent
<1>1. jobs' = jobs /\ running /\ w \notin ws /\ watermark < End(w)
  BY DEF Fires
<1>2. DOMAIN table'[w] = DOMAIN table[w] /\ table'[w][i] = table[w][i]
  BY <1>1, PanesAfter
<1> QED BY <1>1, <1>2 DEF StreamInv, OpenIsSilent

LEMMA FiresJobsInOrder ==
    ASSUME StreamInv, NEW ws, Fires(ws)
    PROVE  JobsInOrder'
<1>1. jobs' = jobs /\ jobs \in Jobs /\ jobs \in Nat
  BY WindowFires DEF StreamInv, JobsInOrder, Fires, Jobs
<1>2. \A j \in Jobs : j > jobs => j # jobs /\ accepted'[j] = accepted[j]
  BY <1>1 DEF Fires, Takes
<1> QED BY <1>1, <1>2 DEF StreamInv, JobsInOrder

LEMMA FiresLastPaneIsWhole ==
    ASSUME StreamInv, NEW ws, Fires(ws)
    PROVE  LastPaneIsWhole'
<1> SUFFICES ASSUME NEW w \in Windows, NEW j \in Jobs,
                    j <= jobs, Closed(j, w)', Held(j, w)' # {}
             PROVE  \E i \in DOMAIN table'[w] :
                        /\ table'[w][i].job = j /\ table'[w][i].of = Held(j, w)'
                        /\ \A k \in DOMAIN table'[w] : i < k => table'[w][k].job # j
  BY DEF LastPaneIsWhole, Fires
<1>1. /\ jobs' = jobs /\ jobs \in Jobs /\ jobs \in Nat /\ running
      /\ Len(table[w]) \in Nat /\ DOMAIN table[w] = 1..Len(table[w])
      /\ \A i \in DOMAIN table[w] : i \in DOMAIN table'[w] /\ table'[w][i] = table[w][i]
  BY WindowFires, PanesAfter DEF Fires
<1> DEFINE n == Len(table[w]) + 1
<1>2. CASE j = jobs /\ w \in ws
  <2>0. Held(jobs, w)' = Held(j, w)'
    BY <1>1, <1>2 DEF Held
  <2>1. /\ DOMAIN table'[w] = 1..n /\ table'[w][n].job = jobs
        /\ table'[w][n].of = Held(j, w)'
    BY <1>2, <2>0, PanesAfter
  <2>2. n \in DOMAIN table'[w] /\ \A k \in DOMAIN table'[w] : ~ (n < k)
    BY <1>1, <2>1
  <2> HIDE DEF n
  <2> QED BY <1>2, <2>1, <2>2
<1>3. CASE ~ (j = jobs /\ w \in ws)
  <2>1. Closed(j, w) /\ Held(j, w)' = Held(j, w)
    <3>1. CASE j # jobs
      <4>1. Held(j, w)' = Held(j, w)
        BY <3>1, WindowFires
      <4>2. j < jobs
        BY <1>1, <3>1 DEF Jobs
      <4> QED BY <4>1, <4>2 DEF Closed
    <3>2. CASE j = jobs
      BY <1>3, <3>2 DEF Fires
    <3> QED BY <3>1, <3>2
  <2>2. PICK i \in DOMAIN table[w] :
            /\ table[w][i].job = j /\ table[w][i].of = Held(j, w)
            /\ \A k \in DOMAIN table[w] : i < k => table[w][k].job # j
    BY <2>1 DEF StreamInv, LastPaneIsWhole
  <2>3. \A k \in DOMAIN table'[w] :
            k \notin DOMAIN table[w] => table'[w][k].job = jobs /\ w \in ws
    <3> SUFFICES ASSUME NEW k \in DOMAIN table'[w], k \notin DOMAIN table[w]
                 PROVE  table'[w][k].job = jobs /\ w \in ws
      OBVIOUS
    <3>1. DOMAIN table'[w] = 1..n /\ table'[w][n].job = jobs /\ w \in ws
      BY PanesAfter
    <3>2. k = n
      BY <1>1, <3>1
    <3> QED BY <3>1, <3>2
  <2>4. \A k \in DOMAIN table'[w] : i < k => table'[w][k].job # j
    BY <1>1, <1>3, <2>2, <2>3
  <2> QED BY <1>1, <2>1, <2>2, <2>4
<1> QED BY <1>2, <1>3

LEMMA FiresTypes ==
    ASSUME StreamInv, NEW ws, Fires(ws)
    PROVE  TypeOK' /\ TableOK'
<1>1. /\ jobs' = jobs /\ jobs \in 0..MaxJobs
      /\ bars' = bars /\ bars \in [Windows -> SUBSET Trades]
      /\ edge' = edge /\ edge \in 0..MaxEdge
      /\ running' \in BOOLEAN /\ watermark' \in 0..Horizon /\ dropped' \subseteq Messages
      /\ accepted' \in [Jobs -> SUBSET Messages]
  BY DEF StreamInv, TypeOK, Fires, Takes, batchVars
<1>2. /\ DOMAIN table' = Windows /\ table' = [w \in Windows |-> table'[w]]
      /\ fired' = [w \in Windows |-> fired'[w]]
  BY DEF Fires
<1>3. \A w \in Windows : table'[w] \in Seq(Panes) /\ fired'[w] \in Nat
  BY PanesAfter
<1>4. table' \in [Windows -> Seq(Panes)] /\ fired' \in [Windows -> Nat]
  BY <1>2, <1>3
<1>5. \A w \in Windows : \A i \in DOMAIN table'[w] : table'[w][i] \in Panes
  BY <1>3
<1>6. ASSUME NEW w \in Windows, NEW i \in DOMAIN table'[w]
      PROVE  /\ table'[w][i].job \in Jobs /\ table'[w][i].index \in Nat
             /\ table'[w][i].of # {} /\ table'[w][i].of \subseteq Messages
             /\ \A m \in table'[w][i].of : WindowOf(m) = w
  <2>1. PanesHold'
    BY FiresPanesHold
  <2>2. /\ table'[w][i].of # {}
        /\ table'[w][i].of \subseteq {m \in accepted'[table'[w][i].job] : WindowOf(m) = w}
    BY <2>1 DEF PanesHold, Held
  <2> QED BY <1>5, <2>2 DEF Panes
<1> QED BY <1>1, <1>2, <1>4, <1>6 DEF TypeOK, TableOK

LEMMA FiresKeeps ==
    ASSUME StreamInv, NEW ws, Fires(ws)
    PROVE  StreamInv'
BY FiresTypes, FiresJobsInOrder, FiresPanesHold, FiresNumbered, FiresOpenIsSilent,
   FiresLastPaneIsWhole DEF StreamInv

\* A new burst has accepted nothing and written no pane.
LEMMA StartJobKeeps ==
    ASSUME StreamInv, StartJob
    PROVE  StreamInv'
<1>1. /\ ~running /\ jobs \in Nat /\ jobs < MaxJobs /\ running' /\ jobs' = jobs + 1
      /\ running' \in BOOLEAN /\ watermark' = 0 /\ fired' = [w \in Windows |-> 0]
      /\ accepted' = accepted /\ dropped' = dropped /\ table' = table
      /\ bars' = bars /\ edge' = edge /\ MaxJobs \in Nat
  BY StreamingAssumption DEF StreamInv, TypeOK, StartJob, batchVars
<1>2. jobs' \in Jobs /\ jobs' \in 0..MaxJobs /\ \A j \in Jobs : j \in Nat
  BY <1>1 DEF Jobs
<1>3. \A w \in Windows : \A i \in DOMAIN table[w] :
          table[w][i].job \in Jobs /\ table[w][i].job <= jobs /\ table[w][i].job # jobs'
  BY <1>1, <1>2 DEF StreamInv, TypeOK, PanesHold
<1>4. TypeOK' /\ TableOK'
  <2>1. 0 \in 0..Horizon
    BY EndFacts
  <2>2. fired' \in [Windows -> Nat]
    BY <1>1
  <2> QED BY <1>1, <1>2, <2>1, <2>2 DEF StreamInv, TypeOK, TableOK
<1>5. JobsInOrder'
  BY <1>1, <1>2 DEF StreamInv, JobsInOrder
<1>6. PanesHold'
  <2>1. \A w \in Windows : \A i \in DOMAIN table[w] :
            table[w][i].job <= jobs' /\ table[w][i].of # {}
              /\ table[w][i].of \subseteq {m \in accepted[table[w][i].job] : WindowOf(m) = w}
    <3>1. \A w \in Windows : \A i \in DOMAIN table[w] :
              table[w][i].of # {}
                /\ table[w][i].of \subseteq {m \in accepted[table[w][i].job] : WindowOf(m) = w}
      BY DEF StreamInv, PanesHold, Held
    <3>2. \A j \in Nat : j <= jobs => j <= jobs'
      BY <1>1
    <3> QED BY <1>2, <1>3, <3>1, <3>2
  <2> QED BY <1>1, <2>1 DEF PanesHold, Held
<1>7. PanesNumbered'
  <2>1. \A w \in Windows : Len(table[w]) \in Nat
    BY DEF StreamInv, TableOK
  <2>2. \A w \in Windows : fired'[w] = 0
    BY <1>1
  <2> QED BY <1>1, <1>3, <2>1, <2>2 DEF StreamInv, PanesNumbered
<1>8. OpenIsSilent'
  BY <1>1, <1>3 DEF OpenIsSilent
<1>9. LastPaneIsWhole'
  <2> SUFFICES ASSUME NEW w \in Windows, NEW j \in Jobs,
                      j <= jobs', Closed(j, w)', Held(j, w)' # {}
               PROVE  \E i \in DOMAIN table[w] :
                          /\ table[w][i].job = j /\ table[w][i].of = Held(j, w)
                          /\ \A k \in DOMAIN table[w] : i < k => table[w][k].job # j
    BY <1>1 DEF LastPaneIsWhole, Held
  <2>1. Held(j, w)' = Held(j, w) /\ Held(j, w) # {}
    BY <1>1 DEF Held
  <2>2. Closed(j, w)
    BY <1>1 DEF Closed
  <2>3. j <= jobs
    <3>1. ~ (j > jobs)
      BY <2>1 DEF StreamInv, JobsInOrder, Held
    <3> QED BY <1>1, <1>2, <3>1
  <2> QED BY <2>1, <2>2, <2>3 DEF StreamInv, LastPaneIsWhole
<1> QED BY <1>4, <1>5, <1>6, <1>7, <1>8, <1>9 DEF StreamInv

\* The batch side does not touch the stream.
LEMMA BatchKeeps ==
    ASSUME StreamInv, UNCHANGED streamVars,
           bars' \in [Windows -> SUBSET Trades], edge' \in 0..MaxEdge
    PROVE  StreamInv'
<1>1. /\ running' = running /\ jobs' = jobs /\ watermark' = watermark /\ accepted' = accepted
      /\ dropped' = dropped /\ fired' = fired /\ table' = table
  BY DEF streamVars
<1>2. TypeOK' /\ TableOK'
  BY <1>1 DEF StreamInv, TypeOK, TableOK
<1>3. PanesHold' /\ LastPaneIsWhole'
  BY <1>1 DEF StreamInv, PanesHold, LastPaneIsWhole, Held, Closed
<1>4. JobsInOrder' /\ PanesNumbered' /\ OpenIsSilent'
  BY <1>1 DEF StreamInv, JobsInOrder, PanesNumbered, OpenIsSilent
<1> QED BY <1>2, <1>3, <1>4 DEF StreamInv

LEMMA Initially == Init => StreamInv
<1> SUFFICES ASSUME Init PROVE StreamInv
  OBVIOUS
<1>1. /\ running = FALSE /\ jobs = 0 /\ watermark = 0 /\ dropped = {}
      /\ \A j \in Jobs : accepted[j] = {}
      /\ \A w \in Windows : fired[w] = 0 /\ table[w] = << >> /\ bars[w] = {}
      /\ edge = 0
      /\ \A w \in Windows : DOMAIN table[w] = {} /\ Len(table[w]) = 0
  BY DEF Init
<1>2. TypeOK /\ TableOK
  <2>0. running \in BOOLEAN
    BY <1>1
  <2>1. jobs \in 0..MaxJobs /\ watermark \in 0..Horizon /\ dropped \subseteq Messages
         /\ edge \in 0..MaxEdge
    BY EndFacts, StreamingAssumption, <1>1
  <2>2. /\ accepted \in [Jobs -> SUBSET Messages] /\ fired \in [Windows -> Nat]
        /\ bars \in [Windows -> SUBSET Trades] /\ table \in [Windows -> Seq(Panes)]
        /\ DOMAIN table = Windows
    BY DEF Init
  <2> QED BY <1>1, <2>0, <2>1, <2>2 DEF TypeOK, TableOK
<1>3. JobsInOrder /\ PanesHold /\ PanesNumbered /\ OpenIsSilent /\ LastPaneIsWhole
  BY <1>1 DEF JobsInOrder, PanesHold, PanesNumbered, OpenIsSilent, LastPaneIsWhole, Held
<1> QED BY <1>2, <1>3 DEF StreamInv

LEMMA Preserved == StreamInv /\ [Next]_vars => StreamInv'
<1> SUFFICES ASSUME StreamInv, [Next]_vars PROVE StreamInv'
  OBVIOUS
<1>0. TypeOK /\ TableOK /\ JobsInOrder
  BY DEF StreamInv
<1>1. CASE StartJob
  BY <1>1, StartJobKeeps
<1>2. CASE Advance
  BY <1>0, <1>2, AdvanceFires, FiresKeeps
<1>3. CASE Drain
  BY <1>0, <1>3, DrainFires, FiresKeeps
<1>4. CASE \E m \in Messages : Receive(m)
  BY <1>0, <1>4, ReceiveFires, FiresKeeps
<1>5. ASSUME NEW new \in SUBSET Trades, BuildBars(new) PROVE StreamInv'
  <2>1. bars \in [Windows -> SUBSET Trades]
    BY <1>0 DEF TypeOK
  <2>2. UNCHANGED streamVars /\ bars' \in [Windows -> SUBSET Trades] /\ edge' \in 0..MaxEdge
    BY <1>0, <1>5, <2>1 DEF BuildBars, WithLanded, TypeOK
  <2> QED BY <2>2, BatchKeeps
<1>6. CASE LookbackMovesOn
  <2>1. edge' \in 0..MaxEdge
    BY <1>0, <1>6, StreamingAssumption DEF LookbackMovesOn, TypeOK
  <2>2. UNCHANGED streamVars /\ bars' \in [Windows -> SUBSET Trades]
    BY <1>0, <1>6 DEF LookbackMovesOn, TypeOK
  <2> QED BY <2>1, <2>2, BatchKeeps
<1>7. CASE UNCHANGED vars
  <2>1. UNCHANGED streamVars /\ bars' \in [Windows -> SUBSET Trades] /\ edge' \in 0..MaxEdge
    BY <1>0, <1>7 DEF vars, batchVars, TypeOK
  <2> QED BY <2>1, BatchKeeps
<1> QED BY <1>1, <1>2, <1>3, <1>4, <1>5, <1>6, <1>7 DEF Next

LEMMA Invariance == Spec => []StreamInv
BY Initially, Preserved, PTL DEF Spec

-----------------------------------------------------------------------------
(* What the reconciliation reads of a window. *)

\* The rows of a window's table are its panes.
LEMMA RowFacts ==
    ASSUME StreamInv, NEW w \in Windows
    PROVE  /\ Len(table[w]) \in Nat /\ DOMAIN table[w] = 1..Len(table[w])
           /\ \A k \in DOMAIN table[w] : table[w][k].index \in Nat
           /\ table[w] # << >> => DOMAIN table[w] # {}
<1>1. table[w] \in Seq(Panes)
  BY DEF StreamInv, TableOK
<1>2. ASSUME NEW S, NEW q \in Seq(S)
      PROVE  /\ Len(q) \in Nat /\ DOMAIN q = 1..Len(q) /\ \A k \in DOMAIN q : q[k] \in S
             /\ q # << >> => DOMAIN q # {}
  OBVIOUS
<1>3. \A p \in Panes : p.index \in Nat
  BY DEF Panes
<1> HIDE DEF Panes
<1> QED BY <1>1, <1>2, <1>3

\* Final is the pane that is last by index and position, and there is one.
LEMMA FinalIsLast ==
    ASSUME StreamInv, NEW w \in Windows, DOMAIN table[w] # {}
    PROVE  \E i \in DOMAIN table[w] :
              /\ Final(w) = table[w][i].of
              /\ \A k \in DOMAIN table[w] :
                    \/ table[w][k].index < table[w][i].index
                    \/ table[w][k].index = table[w][i].index /\ k <= i
<1> DEFINE q == table[w]
           n == Len(q)
           Indexes == {q[k].index : k \in DOMAIN q}
           IsLast(i) == \A k \in DOMAIN q :
                           \/ q[k].index < q[i].index
                           \/ q[k].index = q[i].index /\ k <= i
<1>2. n \in Nat /\ DOMAIN q = 1..n /\ \A k \in DOMAIN q : q[k].index \in Nat
  BY RowFacts
<1>3. \A k \in DOMAIN q : q[k].index < k
  BY DEF StreamInv, PanesNumbered
<1>4. \E i \in DOMAIN q : IsLast(i)
  <2>1. Indexes \in SUBSET (0..n) /\ Indexes # {}
    <3>1. \A k \in DOMAIN q : q[k].index \in 0..n
      BY <1>2, <1>3
    <3> QED BY <3>1
  <2>2. PICK x \in Indexes : \A y \in Indexes : y <= x
    <3> HIDE DEF Indexes
    <3> QED BY <1>2, <2>1, Greatest
  <2> DEFINE At == {k \in DOMAIN q : q[k].index = x}
  <2>3. At \in SUBSET (0..n) /\ At # {}
    BY <1>2, <2>2
  <2>4. PICK i \in At : \A k \in At : k <= i
    <3> HIDE DEF At
    <3> QED BY <1>2, <2>3, Greatest
  <2>5. i \in DOMAIN q /\ q[i].index = x /\ x \in Nat
    BY <1>2, <2>4
  <2>6. IsLast(i)
    <3> SUFFICES ASSUME NEW k \in DOMAIN q
                 PROVE  q[k].index < x \/ (q[k].index = x /\ k <= i)
      BY <2>5
    <3>1. q[k].index <= x /\ q[k].index \in Nat
      BY <1>2, <2>2
    <3>2. q[k].index = x => k \in At
      OBVIOUS
    <3> HIDE DEF At
    <3> QED BY <2>4, <2>5, <3>1, <3>2
  <2> QED BY <2>5, <2>6
<1> DEFINE last == CHOOSE i \in DOMAIN q : IsLast(i)
<1>5. last \in DOMAIN q /\ IsLast(last)
  <2> HIDE DEF IsLast, q
  <2> QED BY <1>4
<1>6. Final(w) = q[last].of
  <2>1. q # << >>
    OBVIOUS
  <2> QED BY <2>1 DEF Final
<1> HIDE DEF last
<1> QED BY <1>5, <1>6

LEMMA FinalIsTaken ==
    ASSUME StreamInv, NEW w \in Windows
    PROVE  /\ Final(w) \subseteq Taken(w)
           /\ Taken(w) \subseteq Messages
           /\ table[w] # << >> => \E j \in Jobs, i \in DOMAIN table[w] :
                 /\ table[w][i].job = j /\ j <= jobs /\ Held(j, w) # {}
<1>1. \A i \in DOMAIN table[w] : \E j \in Jobs :
          /\ table[w][i].job = j /\ j <= jobs /\ Held(j, w) # {}
          /\ table[w][i].of \subseteq Held(j, w)
  BY DEF StreamInv, TypeOK, PanesHold
<1>2. \A j \in Jobs : Held(j, w) \subseteq Taken(w)
  BY DEF Taken
<1>3. Taken(w) \subseteq Messages
  BY DEF Taken, Held, StreamInv, TypeOK
<1>4. table[w] # << >> => DOMAIN table[w] # {}
  BY RowFacts
<1>5. Final(w) \subseteq Taken(w)
  <2>1. CASE table[w] = << >>
    BY <2>1 DEF Final
  <2>2. CASE table[w] # << >>
    BY <1>1, <1>2, <1>4, <2>2, FinalIsLast
  <2> QED BY <2>1, <2>2
<1> QED BY <1>1, <1>3, <1>4, <1>5

\* Of a window that one job took and has closed, the last pane is the whole.
LEMMA FinalOfClosed ==
    ASSUME StreamInv, NEW w \in Windows, ~Split(w),
           \A j \in Jobs : j <= jobs /\ Held(j, w) # {} => Closed(j, w)
    PROVE  Final(w) = Taken(w)
<1>1. \A i \in DOMAIN table[w] :
          /\ table[w][i].job \in Jobs /\ Held(table[w][i].job, w) # {}
  BY DEF StreamInv, TypeOK, PanesHold
<1>2. CASE \A j \in Jobs : Held(j, w) = {}
  <2>1. Taken(w) = {}
    BY <1>2 DEF Taken
  <2> QED BY <2>1, FinalIsTaken
<1>3. ASSUME NEW j \in Jobs, Held(j, w) # {}
      PROVE  Final(w) = Taken(w)
  <2>1. \A k \in Jobs : k # j => Held(k, w) = {}
    BY <1>3 DEF Split
  <2>2. Taken(w) = Held(j, w)
    BY <2>1 DEF Taken
  <2>3. j <= jobs
    <3>1. ~ (j > jobs)
      BY <1>3 DEF StreamInv, JobsInOrder, Held
    <3> QED BY <3>1 DEF StreamInv, TypeOK, Jobs
  <2>4. PICK a \in DOMAIN table[w] :
            /\ table[w][a].of = Held(j, w)
            /\ \A k \in DOMAIN table[w] : a < k => table[w][k].job # j
    BY <1>3, <2>3 DEF StreamInv, LastPaneIsWhole
  <2>5. \A k \in DOMAIN table[w] : table[w][k].job = j
    BY <1>1, <2>1
  <2>6. PICK i \in DOMAIN table[w] :
            /\ Final(w) = table[w][i].of
            /\ \A k \in DOMAIN table[w] :
                  \/ table[w][k].index < table[w][i].index
                  \/ table[w][k].index = table[w][i].index /\ k <= i
    BY FinalIsLast
  <2>7. i = a
    <3>1. /\ DOMAIN table[w] \subseteq Nat
          /\ \A k \in DOMAIN table[w] : table[w][k].index \in Nat
      BY RowFacts
    <3>2. ~ (a < i)
      BY <2>4, <2>5
    <3>3. i < a => table[w][i].index < table[w][a].index
      BY <2>5 DEF StreamInv, PanesNumbered
    <3>4. ~ (i < a)
      BY <2>6, <3>1, <3>3
    <3> QED BY <3>1, <3>2, <3>4
  <2> QED BY <2>2, <2>4, <2>6, <2>7
<1> QED BY <1>2, <1>3

-----------------------------------------------------------------------------
(* The properties. *)

LEMMA WholeFollows == StreamInv => FinalIsWhole
<1> SUFFICES ASSUME StreamInv, NEW w \in Windows,
                    ~running \/ End(w) <= watermark, ~Split(w)
             PROVE  Final(w) = Taken(w)
  BY DEF FinalIsWhole
<1> QED BY FinalOfClosed DEF Closed

LEMMA LateFollows == StreamInv => LateIsLate
<1> SUFFICES ASSUME StreamInv, NEW w \in Windows, Reason(w) = "late_data_dropped", ~Split(w),
                    \A t \in bars[w] : \E m \in Taken(w) : m.trade = t
             PROVE  FALSE
  BY DEF LateIsLate
<1>1. table[w] # << >> /\ StreamCount(w) < BatchCount(w)
  BY DEF Reason, Streamed
<1>2. PICK j \in Jobs, i \in DOMAIN table[w] :
          table[w][i].job = j /\ j <= jobs /\ Held(j, w) # {}
  BY <1>1, FinalIsTaken
<1>3. Closed(j, w)
  <2>1. CASE running /\ j = jobs
    <3>1. ~ (watermark < End(w))
      BY <1>2, <2>1 DEF StreamInv, OpenIsSilent
    <3>2. watermark \in Nat /\ End(w) \in Nat
      BY EndFacts DEF StreamInv, TypeOK
    <3> QED BY <3>1, <3>2 DEF Closed
  <2>2. CASE ~running
    BY <2>2 DEF Closed
  <2>3. CASE j # jobs
    BY <1>2, <2>3 DEF Closed, Jobs, StreamInv, TypeOK
  <2> QED BY <2>1, <2>2, <2>3
<1>4. \A k \in Jobs : k <= jobs /\ Held(k, w) # {} => Closed(k, w)
  BY <1>2, <1>3 DEF Split
<1>5. Final(w) = Taken(w)
  BY <1>4, FinalOfClosed
<1> DEFINE f == [t \in bars[w] |-> CHOOSE m \in Taken(w) : m.trade = t]
<1>6. \A t \in bars[w] : f[t] \in Taken(w) /\ f[t].trade = t
  OBVIOUS
<1>7. f \in Injection(bars[w], Final(w))
  <2>1. f = [t \in bars[w] |-> f[t]]
    OBVIOUS
  <2> HIDE DEF f
  <2> QED BY <1>5, <1>6, <2>1 DEF Injection, IsInjective
<1>8. IsFiniteSet(Final(w))
  BY Finite, FinalIsTaken, FS_Subset
<1>9. BatchCount(w) <= StreamCount(w)
  BY <1>7, <1>8, FS_Injection DEF BatchCount, StreamCount
<1>10. BatchCount(w) \in Nat /\ StreamCount(w) \in Nat
  <2>1. IsFiniteSet(bars[w])
    BY <1>7, <1>8, FS_Injection
  <2> QED BY <1>8, <2>1, FS_CardinalityType DEF BatchCount, StreamCount
<1> QED BY <1>1, <1>9, <1>10

LEMMA CauseFollows == StreamInv => BrokenHasCause
<1> SUFFICES ASSUME StreamInv, NEW w \in Windows, Broken(w), ~Doubled(w), ~Ahead(w)
             PROVE  FALSE
  BY DEF BrokenHasCause
<1>1. \A m \in Taken(w) : m.trade \in bars[w]
  BY DEF Ahead
<1>2. CASE Reason(w) = "missing_from_batch"
  <2>1. table[w] # << >> /\ bars[w] = {}
    BY <1>2 DEF Reason, Streamed, Built
  <2>2. PICK j \in Jobs : Held(j, w) # {}
    BY <2>1, FinalIsTaken
  <2> QED BY <1>1, <2>1, <2>2 DEF Taken
<1>3. CASE Reason(w) = "over_count"
  <2>1. StreamCount(w) > BatchCount(w)
    BY <1>3 DEF Reason
  <2> DEFINE f == [m \in Final(w) |-> m.trade]
  <2>2. f \in Injection(Final(w), bars[w])
    BY <1>1, FinalIsTaken DEF Injection, IsInjective, Doubled
  <2>3. IsFiniteSet(bars[w])
    BY Finite, FS_Subset DEF StreamInv, TypeOK
  <2>4. StreamCount(w) <= BatchCount(w) /\ IsFiniteSet(Final(w))
    <3> HIDE DEF f
    <3> QED BY <2>2, <2>3, FS_Injection DEF StreamCount, BatchCount
  <2>5. StreamCount(w) \in Nat /\ BatchCount(w) \in Nat
    BY <2>3, <2>4, FS_CardinalityType DEF StreamCount, BatchCount
  <2> QED BY <2>1, <2>4, <2>5
<1> QED BY <1>2, <1>3 DEF Broken

\* The shape of the state holds for every exchange and number of bursts.
THEOREM StreamingTypeCorrect == Spec => []TypeOK
<1>1. StreamInv => TypeOK
  BY DEF StreamInv
<1> QED BY <1>1, Invariance, PTL

\* A closed window's last pane holds all that its job took: the accumulating
\* panes of the pipeline, read by the reconciliation as its final answer.
THEOREM LastPaneIsFinal == Spec => []FinalIsWhole
BY Invariance, WholeFollows, PTL

\* What the reconciliation puts down to lateness did come too late.
THEOREM LatenessIsReal == Spec => []LateIsLate
BY Invariance, LateFollows, PTL

\* A verdict of BROKEN comes from a replay or from the batch's delay.
THEOREM BrokenIsExplained == Spec => []BrokenHasCause
BY Invariance, CauseFollows, PTL
=============================================================================
