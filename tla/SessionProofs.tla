---------------------------- MODULE SessionProofs ----------------------------
(***************************************************************************)
(* Proofs about Session, for every timeout and every backoff: the shape of *)
(* its state, that nothing crosses from one connection to the next, that   *)
(* reconnects are counted, that the watchdog is neither late nor wrong, and*)
(* that every wait is as long as the attempts that ended in a row have     *)
(* earned.                                                                 *)
(***************************************************************************)
EXTENDS Session, LeastNumber, TLAPS

\* What the watchdog goes by is the age of this connection's last heartbeat.
BeatIsHeard == last # NoBeat => last = quiet

\* A watchdog asleep wakes before a heartbeat is older than timeout and nap.
WakesInTime == watchdog = "asleep" /\ last # NoBeat => last + nap <= 3 * HalfTimeout

SessionInv ==
    /\ TypeOK
    /\ CleanSlate
    /\ ReconnectsAreCounted
    /\ BeatIsHeard
    /\ WakesInTime

-----------------------------------------------------------------------------
\* The longest sleep is a number of ticks.
LEMMA MaxRestIsNat == (3 * MaxBackoff) \div 2 \in Nat
<1>1. MaxBackoff \in Nat
  BY SessionAssumption
<1> QED BY <1>1

\* However long a sleep is drawn, it is a length that the type allows.
LEMMA JitterInRange ==
    ASSUME TypeOK
    PROVE  Jittered \subseteq 0..((3 * MaxBackoff) \div 2)
<1>1. backoff \in Nat /\ backoff <= MaxBackoff /\ MaxBackoff \in Nat
  BY SessionAssumption DEF TypeOK
<1>2. ASSUME NEW r \in Jittered PROVE r \in 0..((3 * MaxBackoff) \div 2)
  BY <1>1 DEF Jittered
<1> QED BY <1>2

\* The end of a connection leaves a state of the right shape, with nothing of
\* the connection in it unless the loop is over.
LEMMA EndKeeps ==
    ASSUME SessionInv, phase \in {"connecting", "open"},
           NEW raised \in BOOLEAN, End(raised)
    PROVE  /\ phase' \in {"resting", "exited"}
           /\ watchdog' = "none" /\ nap' = 0
           /\ rest' \in 0..((3 * MaxBackoff) \div 2)
           /\ last' \in Ages \union {NoBeat} /\ derived' \in BOOLEAN
           /\ uncounted' \in 0..1
           /\ phase' = "resting" => last' = NoBeat /\ ~derived' /\ uncounted' = 0
           /\ last' \in {last, NoBeat}
<1>1. Jittered \subseteq 0..((3 * MaxBackoff) \div 2)
  BY JitterInRange DEF SessionInv
<1>2. 0 \in 0..((3 * MaxBackoff) \div 2)
  BY MaxRestIsNat
<1>3. uncounted = 1 /\ last \in Ages \union {NoBeat} /\ derived \in BOOLEAN
  BY DEF SessionInv, ReconnectsAreCounted, TypeOK
<1>4. CASE stopping /\ (raised \/ watchdog = "failed")
  BY <1>2, <1>3, <1>4 DEF End, handlerVars
<1>5. CASE ~(stopping /\ (raised \/ watchdog = "failed"))
  <2>1. last' = NoBeat /\ derived' = FALSE /\ uncounted' = 0
    BY <1>3, <1>5 DEF End, OnDisconnect
  <2>2. /\ watchdog' = "none" /\ nap' = 0
        /\ \/ phase' = "exited" /\ rest' = 0
           \/ phase' = "resting" /\ rest' \in Jittered
    BY <1>5 DEF End
  <2>3. rest' \in 0..((3 * MaxBackoff) \div 2)
    BY <1>1, <1>2, <2>2
  <2>4. last' \in Ages \union {NoBeat} /\ last' \in {last, NoBeat} /\ uncounted' \in 0..1
    BY <2>1
  <2> QED BY <2>1, <2>2, <2>3, <2>4
<1> QED BY <1>4, <1>5

-----------------------------------------------------------------------------
\* The loop starts in a state of the invariant.
LEMMA SessionInit == Init => SessionInv
<1> SUFFICES ASSUME Init PROVE SessionInv
  OBVIOUS
<1>1. 0 \in 0..((3 * MaxBackoff) \div 2)
  BY MaxRestIsNat
<1>2. 0 \in Ages
  BY SessionAssumption DEF Ages, Horizon
<1>3. 0 \in 0..HalfTimeout /\ 0 \in 0..MaxFailures /\ InitialBackoff \in InitialBackoff..MaxBackoff
  BY SessionAssumption
<1>4. TypeOK
  <2>1. /\ rest \in 0..((3 * MaxBackoff) \div 2) /\ nap \in 0..HalfTimeout /\ quiet \in Ages
        /\ failures \in 0..MaxFailures /\ backoff \in InitialBackoff..MaxBackoff
    BY <1>1, <1>2, <1>3 DEF Init
  <2>2. uncounted \in 0..1 /\ last \in Ages \union {NoBeat}
    BY DEF Init
  <2>3. watchdog = "none" /\ phase = "connecting" /\ stopping \in BOOLEAN /\ derived \in BOOLEAN
    BY DEF Init
  <2> QED BY <2>1, <2>2, <2>3 DEF TypeOK
<1> QED BY <1>4 DEF Init, SessionInv, CleanSlate, ReconnectsAreCounted, BeatIsHeard,
                    WakesInTime, NoBeat

\* Time ages the heartbeat and shortens the nap by the same tick.
LEMMA TickKeeps == ASSUME SessionInv, Tick PROVE SessionInv'
<1> USE DEF SessionInv
<1>1. HalfTimeout \in Nat /\ HalfTimeout > 0 /\ Horizon \in Nat /\ Horizon > 3 * HalfTimeout
  BY SessionAssumption DEF Horizon
<1>2. /\ rest \in 0..((3 * MaxBackoff) \div 2) /\ nap \in 0..HalfTimeout
      /\ quiet \in Ages /\ last \in Ages \union {NoBeat}
  BY DEF TypeOK
<1>3. rest' \in 0..((3 * MaxBackoff) \div 2)
  <2>1. rest' = Larger(rest - 1, 0)
    BY DEF Tick
  <2> QED BY <1>2, <2>1, MaxRestIsNat DEF Larger
<1>4. nap' \in 0..HalfTimeout
  BY <1>1, <1>2 DEF Tick, Larger
<1>5. quiet' \in Ages /\ last' \in Ages \union {NoBeat}
  BY <1>1, <1>2 DEF Tick, Smaller, Ages, NoBeat
<1>6. TypeOK'
  BY <1>3, <1>4, <1>5 DEF Tick, TypeOK
<1>7. last' # NoBeat <=> last # NoBeat
  BY <1>1, <1>2 DEF Tick, Smaller, Ages, NoBeat
<1>8. CleanSlate' /\ ReconnectsAreCounted'
  BY <1>7 DEF Tick, CleanSlate, ReconnectsAreCounted
<1>9. BeatIsHeard'
  BY <1>7 DEF Tick, BeatIsHeard
<1>10. WakesInTime'
  <2> SUFFICES ASSUME watchdog' = "asleep", last' # NoBeat
               PROVE  last' + nap' <= 3 * HalfTimeout
    BY DEF WakesInTime
  <2>1. watchdog = "asleep" /\ last # NoBeat /\ nap > 0 /\ last \in Ages
    BY <1>2, <1>7 DEF Tick, NothingDue
  <2>2. last + nap <= 3 * HalfTimeout
    BY <2>1 DEF WakesInTime
  <2>3. nap \in Nat /\ last \in Nat /\ HalfTimeout \in Nat
    BY <1>1, <1>2, <2>1 DEF Ages
  <2>4. nap' = nap - 1
    BY <2>1, <2>3 DEF Tick, Larger
  <2>5. last' <= last + 1 /\ last' \in Nat
    BY <1>1, <2>1, <2>3 DEF Tick, Smaller
  <2>6. \A a, b, n \in Nat, timeout \in Nat :
            a + n <= 3 * timeout /\ b <= a + 1 => b + (n - 1) <= 3 * timeout
    OBVIOUS
  <2> QED BY <2>2, <2>3, <2>4, <2>5, <2>6
<1> QED BY <1>6, <1>8, <1>9, <1>10

\* A connection begins with a nap and without a heartbeat.
LEMMA ConnectKeeps == ASSUME SessionInv, Connect PROVE SessionInv'
<1> USE DEF SessionInv
<1>1. InitialBackoff \in InitialBackoff..MaxBackoff /\ HalfTimeout \in 0..HalfTimeout
  BY SessionAssumption
<1>2. 0 \in Ages /\ 0 \in 0..MaxFailures /\ 0 \in 0..HalfTimeout
  BY SessionAssumption DEF Ages, Horizon
<1>3. last = NoBeat /\ last' = NoBeat /\ uncounted' = 1
  BY DEF Connect, handlerVars, CleanSlate, ReconnectsAreCounted
<1>4. TypeOK'
  BY <1>1, <1>2 DEF Connect, Subscribe, handlerVars, TypeOK
<1>5. CleanSlate' /\ ReconnectsAreCounted' /\ BeatIsHeard' /\ WakesInTime'
  BY <1>3 DEF Connect, CleanSlate, ReconnectsAreCounted, BeatIsHeard, WakesInTime
<1> QED BY <1>4, <1>5

\* A step that ends the connection, whatever made it end.
LEMMA EndingKeeps ==
    ASSUME SessionInv, phase \in {"connecting", "open"},
           NEW raised \in BOOLEAN, End(raised),
           UNCHANGED <<stopping, backoff, quiet>>
    PROVE  SessionInv'
<1>0. failures' \in 0..MaxFailures
  <2>1. failures' = Smaller(failures + 1, MaxFailures)
    BY DEF End, CountFailure
  <2> QED BY <2>1, SessionAssumption DEF SessionInv, TypeOK, Smaller
<1>1. /\ phase' \in {"resting", "exited"}
      /\ watchdog' = "none" /\ nap' = 0
      /\ rest' \in 0..((3 * MaxBackoff) \div 2)
      /\ last' \in Ages \union {NoBeat} /\ derived' \in BOOLEAN
      /\ uncounted' \in 0..1
      /\ phase' = "resting" => last' = NoBeat /\ ~derived' /\ uncounted' = 0
      /\ last' \in {last, NoBeat}
  BY EndKeeps
<1>2. 0 \in 0..HalfTimeout
  BY SessionAssumption
<1>3. TypeOK'
  BY <1>0, <1>1, <1>2 DEF SessionInv, TypeOK
<1>4. CleanSlate' /\ ReconnectsAreCounted' /\ WakesInTime'
  BY <1>1 DEF CleanSlate, ReconnectsAreCounted, WakesInTime
<1>5. BeatIsHeard'
  BY <1>1 DEF SessionInv, BeatIsHeard
<1> QED BY <1>3, <1>4, <1>5 DEF SessionInv

\* An attempt that fails ends like a connection.
LEMMA ConnectFailsKeeps == ASSUME SessionInv, ConnectFails PROVE SessionInv'
  BY EndingKeeps DEF ConnectFails

\* The end of the socket, with or without an error.
LEMMA CloseKeeps == ASSUME SessionInv, Close PROVE SessionInv'
<1>1. PICK raised \in BOOLEAN : End(raised)
  BY DEF Close
<1> QED BY <1>1, EndingKeeps DEF Close

\* After the sleep an attempt begins, or the loop exits.
LEMMA RestEndsKeeps == ASSUME SessionInv, RestEnds PROVE SessionInv'
<1> USE DEF SessionInv
<1>1. backoff' \in InitialBackoff..MaxBackoff
  BY SessionAssumption DEF RestEnds, Doubled, Smaller, TypeOK
<1>2. uncounted = 0 /\ last = NoBeat /\ ~derived
  BY DEF RestEnds, ReconnectsAreCounted, CleanSlate
<1>3. uncounted' \in 0..1 /\ (phase' = "connecting" => uncounted' = 1)
  BY <1>2 DEF RestEnds
<1>4. phase' \in {"connecting", "exited"} /\ watchdog' = "none" /\ watchdog = "none"
  BY DEF RestEnds, TypeOK
<1>5. TypeOK'
  BY <1>1, <1>3, <1>4 DEF RestEnds, historyVars, TypeOK
<1>6. CleanSlate' /\ ReconnectsAreCounted' /\ BeatIsHeard' /\ WakesInTime'
  BY <1>2, <1>3, <1>4 DEF RestEnds, CleanSlate, ReconnectsAreCounted, BeatIsHeard, WakesInTime
<1> QED BY <1>5, <1>6

\* A message handled: only a heartbeat touches what the watchdog goes by.
LEMMA HandleKeeps ==
    ASSUME SessionInv, phase = "open", UNCHANGED stopping,
           NEW kind \in {"heartbeat", "data", "ignored", "error"}, Handle(kind)
    PROVE  SessionInv'
<1>1. CASE kind = "heartbeat"
  <2>1. last' = 0 /\ quiet' = 0 /\ UNCHANGED <<taskVars, derived, uncounted, failures>>
    BY <1>1 DEF Handle
  <2>2. 0 \in Ages /\ nap \in 0..HalfTimeout /\ HalfTimeout \in Nat
    BY SessionAssumption DEF Ages, Horizon, SessionInv, TypeOK
  <2>3. TypeOK'
    BY <2>1, <2>2 DEF SessionInv, TypeOK, taskVars
  <2>4. CleanSlate' /\ ReconnectsAreCounted' /\ BeatIsHeard'
    BY <2>1 DEF SessionInv, CleanSlate, ReconnectsAreCounted, BeatIsHeard, taskVars
  <2>5. WakesInTime'
    BY <2>1, <2>2 DEF WakesInTime, taskVars
  <2> QED BY <2>3, <2>4, <2>5 DEF SessionInv
<1>2. CASE kind = "data"
  <2>1. derived' = TRUE /\ UNCHANGED <<taskVars, last, uncounted, historyVars>>
    BY <1>2 DEF Handle
  <2> QED BY <2>1 DEF SessionInv, TypeOK, CleanSlate, ReconnectsAreCounted, BeatIsHeard,
                      WakesInTime, taskVars, historyVars
<1>3. CASE kind = "ignored"
  <2>1. UNCHANGED <<taskVars, handlerVars, historyVars>>
    BY <1>3 DEF Handle
  <2> QED BY <2>1 DEF SessionInv, TypeOK, CleanSlate, ReconnectsAreCounted, BeatIsHeard,
                      WakesInTime, taskVars, handlerVars, historyVars
<1>4. CASE kind = "error"
  <2>1. End(TRUE) /\ UNCHANGED <<backoff, quiet>>
    BY <1>4 DEF Handle
  <2> QED BY <2>1, EndingKeeps
<1> QED BY <1>1, <1>2, <1>3, <1>4

\* A message, handled or taken as the occasion to stop.
LEMMA MessageKeeps == ASSUME SessionInv, Message PROVE SessionInv'
<1>1. PICK kind \in {"heartbeat", "data", "ignored", "error"} : Read(kind)
  BY DEF Message
<1>2. phase = "open" /\ UNCHANGED stopping
  BY DEF Message
<1>3. CASE stopping
  <2>1. End(FALSE) /\ UNCHANGED <<backoff, quiet>>
    BY <1>1, <1>3 DEF Read
  <2> QED BY <1>2, <2>1, EndingKeeps
<1>4. CASE ~stopping
  BY <1>1, <1>2, <1>4, HandleKeeps DEF Read
<1> QED BY <1>3, <1>4

\* The watchdog's look: it fails, finishes, or naps before the age is due.
LEMMA WakeKeeps == ASSUME SessionInv, Wake PROVE SessionInv'
<1>1. UNCHANGED <<phase, backoff, rest, stopping, handlerVars, historyVars>>
  BY DEF Wake
<1>2. watchdog = "asleep" /\ watchdog' \in {"asleep", "finished", "failed"}
  BY DEF Wake
<1>3. nap' \in 0..HalfTimeout
  BY SessionAssumption DEF Wake, Nap
<1>4. TypeOK'
  BY <1>1, <1>2, <1>3 DEF SessionInv, TypeOK, handlerVars, historyVars
<1>5. CleanSlate' /\ ReconnectsAreCounted' /\ BeatIsHeard'
  BY <1>1 DEF SessionInv, CleanSlate, ReconnectsAreCounted, BeatIsHeard, handlerVars, historyVars
<1>6. WakesInTime'
  <2> SUFFICES ASSUME watchdog' = "asleep", last' # NoBeat
               PROVE  last' + nap' <= 3 * HalfTimeout
    BY DEF WakesInTime
  <2>1. last' = last /\ ~Stalled /\ nap' = HalfTimeout
    BY <1>1 DEF Wake, Nap, handlerVars
  <2>2. last <= HeartbeatTimeout /\ last \in Ages
    BY <2>1, SessionAssumption DEF Stalled, SessionInv, TypeOK, Ages, HeartbeatTimeout, Horizon
  <2> QED BY <2>1, <2>2, SessionAssumption DEF HeartbeatTimeout, Ages
<1> QED BY <1>4, <1>5, <1>6 DEF SessionInv

\* Every step keeps the invariant, action by action.
LEMMA SessionStep == SessionInv /\ [Next]_vars => SessionInv'
<1> SUFFICES ASSUME SessionInv, [Next]_vars PROVE SessionInv'
  OBVIOUS
<1>1. CASE Tick BY <1>1, TickKeeps
<1>2. CASE Stop
  BY <1>2 DEF Stop, SessionInv, TypeOK, CleanSlate, ReconnectsAreCounted, BeatIsHeard,
              WakesInTime, taskVars, handlerVars, historyVars
<1>3. CASE Connect BY <1>3, ConnectKeeps
<1>4. CASE ConnectFails BY <1>4, ConnectFailsKeeps
<1>5. CASE RestEnds BY <1>5, RestEndsKeeps
<1>6. CASE Message BY <1>6, MessageKeeps
<1>7. CASE Close BY <1>7, CloseKeeps
<1>8. CASE Wake BY <1>8, WakeKeeps
<1>9. CASE UNCHANGED vars
  BY <1>9 DEF vars, SessionInv, TypeOK, CleanSlate, ReconnectsAreCounted, BeatIsHeard,
              WakesInTime, taskVars, handlerVars, historyVars
<1> QED BY <1>1, <1>2, <1>3, <1>4, <1>5, <1>6, <1>7, <1>8, <1>9 DEF Next

\* The invariant holds in every state, for every timeout and backoff.
LEMMA SessionInvariance == Spec => []SessionInv
  BY SessionInit, SessionStep, PTL DEF Spec

-----------------------------------------------------------------------------
\* The state of the connection loop keeps its shape; in particular there is
\* never a watchdog without an open socket.
THEOREM SessionTypeCorrect == Spec => []TypeOK
<1>1. SessionInv => TypeOK
  BY DEF SessionInv
<1> QED BY <1>1, SessionInvariance, PTL

\* Nothing of a connection is left when the next one begins.
THEOREM NothingCrosses == Spec => []CleanSlate
<1>1. SessionInv => CleanSlate
  BY DEF SessionInv
<1> QED BY <1>1, SessionInvariance, PTL

\* websocket_reconnects_total counts what it says.
THEOREM ReconnectCounted == Spec => []ReconnectsAreCounted
<1>1. SessionInv => ReconnectsAreCounted
  BY DEF SessionInv
<1> QED BY <1>1, SessionInvariance, PTL

\* A watchdog that lives is never later than one timeout and one nap, for every
\* timeout.
THEOREM WatchdogInTime == Spec => []StallSeenInTime
<1>1. SessionInv => StallSeenInTime
  BY SessionAssumption DEF SessionInv, TypeOK, BeatIsHeard, WakesInTime, StallSeenInTime,
                           HeartbeatTimeout, Ages
<1> QED BY <1>1, SessionInvariance, PTL

\* A watchdog never fails on a connection that has had its heartbeats.
THEOREM WatchdogRight == Spec => StallIsReal
<1> DEFINE Judged == watchdog # "failed" /\ watchdog' = "failed" => quiet > HeartbeatTimeout
<1>1. SessionInv /\ [Next]_vars => [Judged]_vars
  <2> SUFFICES ASSUME SessionInv, [Next]_vars, watchdog # "failed", watchdog' = "failed"
               PROVE  quiet > HeartbeatTimeout
    OBVIOUS
  <2>1. CASE Wake
    <3>1. Stalled
      BY <2>1 DEF Wake
    <3> QED BY <3>1 DEF Stalled, SessionInv, BeatIsHeard
  <2>2. CASE Message \/ Close \/ ConnectFails
    BY <2>2 DEF Message, Close, ConnectFails, Read, Handle, End, taskVars
  <2>3. CASE Tick \/ Stop \/ Connect \/ RestEnds \/ UNCHANGED vars
    BY <2>3 DEF Tick, Stop, Connect, RestEnds, vars, taskVars
  <2> QED BY <2>1, <2>2, <2>3 DEF Next
<1> QED BY <1>1, SessionInvariance, PTL DEF Spec, StallIsReal

-----------------------------------------------------------------------------
(* The backoff. *)

\* The doubling is what it says, for as many attempts as are counted.
LEMMA GrowthDoubles ==
    /\ Growth \in [0..MaxFailures -> Nat] /\ Growth[0] = InitialBackoff
    /\ \A n \in 1..MaxFailures :
          Growth[n] = IF n = 1 THEN InitialBackoff ELSE 2 * Growth[n - 1]
<1> DEFINE Doubles(f) == f = [n \in 0..MaxFailures |-> IF n <= 1 THEN InitialBackoff
                                                       ELSE 2 * f[n - 1]]
           step == [n \in 1..MaxFailures |-> [x \in Nat |-> IF n = 1 THEN x ELSE 2 * x]]
<1>1. MaxFailures \in Nat /\ InitialBackoff \in Nat
  BY SessionAssumption
<1>2. step \in [1..MaxFailures -> [Nat -> Nat]]
  OBVIOUS
<1>3. PICK f \in [0..MaxFailures -> Nat] : Follows(f, MaxFailures, InitialBackoff, step)
  <2> HIDE DEF step
  <2> QED BY <1>1, <1>2, Recursion
<1>4. Doubles(f)
  <2>1. f[0] = InitialBackoff
    BY <1>3 DEF Follows
  <2>2. ASSUME NEW n \in 1..MaxFailures
        PROVE  f[n] = IF n = 1 THEN f[n - 1] ELSE 2 * f[n - 1]
    <3>1. f[n] = step[n][f[n - 1]]
      BY <1>3 DEF Follows
    <3>2. n - 1 \in 0..MaxFailures /\ f[n - 1] \in Nat
      BY <1>1
    <3> QED BY <3>1, <3>2
  <2>3. ASSUME NEW n \in 0..MaxFailures
        PROVE  f[n] = IF n <= 1 THEN InitialBackoff ELSE 2 * f[n - 1]
    <3>1. CASE n = 0
      BY <2>1, <3>1
    <3>2. CASE n = 1
      <4>1. n \in 1..MaxFailures /\ n - 1 = 0
        BY <3>2
      <4> QED BY <2>1, <2>2, <3>2, <4>1
    <3>3. CASE n > 1
      <4>1. n \in 1..MaxFailures /\ n # 1 /\ ~(n <= 1)
        BY <3>3
      <4> QED BY <2>2, <4>1
    <3> QED BY <1>1, <3>1, <3>2, <3>3
  <2> QED BY <2>3
<1>5. Doubles(Growth)
  <2>1. \E g : Doubles(g)
    BY <1>4
  <2> QED BY <2>1, Zenon DEF Growth
<1>6. Growth[0] = InitialBackoff
  BY <1>1, <1>5
<1>7. ASSUME NEW n \in 1..MaxFailures
      PROVE  Growth[n] = IF n = 1 THEN InitialBackoff ELSE 2 * Growth[n - 1]
  <2>1. n \in 0..MaxFailures /\ (n <= 1 <=> n = 1)
    BY <1>1
  <2> QED BY <1>5, <2>1
<1>8. \A n \in 0..MaxFailures : Growth[n] \in Nat
  <2> DEFINE G == {m \in 0..MaxFailures : Growth[m] \in Nat}
  <2>1. 0 \in G
    BY <1>1, <1>6
  <2>2. ASSUME NEW n \in 1..MaxFailures, n - 1 \in G PROVE n \in G
    BY <1>1, <1>7, <2>2
  <2> HIDE DEF G
  <2>3. \A n \in 0..MaxFailures : n \in G
    BY <1>1, <2>1, <2>2, Induct
  <2> QED BY <2>3 DEF G
<1> QED BY <1>5, <1>6, <1>7, <1>8

\* What n attempts that ended in a row have earned: Earned is Wait(failures).
Wait(n) == Smaller(Growth[n], MaxBackoff)

\* One more attempt, counted up to the bound.
OneMore == Smaller(failures + 1, MaxFailures)

\* The backoff is what the attempts have earned, the one under way included: it
\* may still end before it subscribes.
BackoffEarned ==
    /\ phase = "connecting" => backoff = Wait(OneMore)
    /\ phase = "open" => backoff = InitialBackoff /\ failures = 0
    /\ phase = "resting" => backoff = Wait(failures) /\ (failures > 0 \/ failures = MaxFailures)

\* The first wait is the first backoff, and one more attempt doubles a wait up to
\* the cap.
LEMMA WaitDoubles ==
    /\ \A n \in 0..MaxFailures : Wait(n) \in Nat
    /\ Wait(Smaller(1, MaxFailures)) = InitialBackoff
    /\ \A n \in 0..MaxFailures :
          n > 0 \/ n = MaxFailures =>
              Wait(Smaller(n + 1, MaxFailures)) = Smaller(2 * Wait(n), MaxBackoff)
<1>1. /\ MaxFailures \in Nat /\ InitialBackoff \in Nat /\ MaxBackoff \in Nat
      /\ InitialBackoff <= MaxBackoff /\ MaxBackoff <= Growth[MaxFailures]
  BY SessionAssumption
<1>2. \A n \in 0..MaxFailures : Growth[n] \in Nat
  BY GrowthDoubles
<1>3. Wait(Smaller(1, MaxFailures)) = InitialBackoff
  <2>1. CASE MaxFailures = 0
    BY <1>1, <2>1, GrowthDoubles DEF Wait, Smaller
  <2>2. CASE MaxFailures > 0
    <3>1. 1 \in 1..MaxFailures /\ Smaller(1, MaxFailures) = 1
      BY <1>1, <2>2 DEF Smaller
    <3>2. Growth[1] = InitialBackoff
      BY <3>1, GrowthDoubles
    <3> QED BY <1>1, <3>1, <3>2 DEF Wait, Smaller
  <2> QED BY <1>1, <2>1, <2>2
<1>4. ASSUME NEW n \in 0..MaxFailures, n > 0 \/ n = MaxFailures
      PROVE  Wait(Smaller(n + 1, MaxFailures)) = Smaller(2 * Wait(n), MaxBackoff)
  <2>1. CASE n = MaxFailures
    <3>1. Smaller(n + 1, MaxFailures) = n
      BY <1>1, <2>1 DEF Smaller
    <3>2. Wait(n) = MaxBackoff
      BY <1>1, <1>2, <2>1 DEF Wait, Smaller
    <3> QED BY <1>1, <3>1, <3>2 DEF Smaller
  <2>2. CASE n < MaxFailures
    <3>1. Smaller(n + 1, MaxFailures) = n + 1 /\ n + 1 \in 1..MaxFailures /\ n + 1 # 1
      BY <1>1, <1>4, <2>2 DEF Smaller
    <3>2. Growth[n + 1] = 2 * Growth[n]
      BY <3>1, GrowthDoubles
    <3> QED BY <1>1, <1>2, <3>1, <3>2 DEF Wait, Smaller
  <2> QED BY <1>1, <2>1, <2>2
<1> QED BY <1>1, <1>2, <1>3, <1>4 DEF Wait, Smaller

\* Before the connection ends, or the attempt to make one, the backoff is what one
\* more attempt that ended earns.
LEMMA NextIsEarned ==
    ASSUME BackoffEarned, phase \in {"connecting", "open"}
    PROVE  backoff = Wait(OneMore)
<1>1. CASE phase = "connecting"
  BY <1>1 DEF BackoffEarned
<1>2. CASE phase = "open"
  <2>1. backoff = InitialBackoff /\ OneMore = Smaller(1, MaxFailures)
    BY <1>2 DEF BackoffEarned, OneMore
  <2> QED BY <2>1, WaitDoubles
<1> QED BY <1>1, <1>2

\* The end of a connection draws the wait that is earned.
LEMMA EndDraws ==
    ASSUME SessionInv, BackoffEarned, phase \in {"connecting", "open"},
           NEW raised \in BOOLEAN, End(raised), UNCHANGED backoff
    PROVE  /\ BackoffEarned'
           /\ phase' = "resting" =>
                rest' \in (Wait(failures') \div 2)..((3 * Wait(failures')) \div 2)
<1>1. backoff' = Wait(failures') /\ failures' = OneMore /\ phase' \in {"resting", "exited"}
  BY NextIsEarned DEF End, CountFailure, OneMore
<1>2. failures' > 0 \/ failures' = MaxFailures
  BY <1>1, SessionAssumption DEF SessionInv, TypeOK, OneMore, Smaller
<1>3. BackoffEarned'
  BY <1>1, <1>2 DEF BackoffEarned
<1>4. phase' = "resting" => rest' \in (backoff \div 2)..((3 * backoff) \div 2)
  BY DEF End, Jittered
<1> QED BY <1>1, <1>3, <1>4

\* A message leaves the loop where it is, or ends the connection.
LEMMA MessageEnds ==
    ASSUME Message
    PROVE  /\ phase = "open" /\ UNCHANGED backoff
           /\ \/ \E raised \in BOOLEAN : End(raised)
              \/ UNCHANGED <<phase, failures>>
<1>1. PICK kind \in {"heartbeat", "data", "ignored", "error"} : Read(kind)
  BY DEF Message
<1> QED BY <1>1 DEF Message, Read, Handle, taskVars, historyVars

\* A step from outside the sleep into it draws the wait that is earned.
Draws == phase # "resting" /\ phase' = "resting" =>
             rest' \in (Wait(failures') \div 2)..((3 * Wait(failures')) \div 2)

LEMMA EarnedStep ==
    ASSUME SessionInv, BackoffEarned, [Next]_vars
    PROVE  BackoffEarned' /\ Draws
<1>1. ASSUME phase \in {"connecting", "open"}, UNCHANGED backoff,
             NEW raised \in BOOLEAN, End(raised)
      PROVE  BackoffEarned' /\ Draws
  BY <1>1, EndDraws DEF Draws
<1>2. ASSUME UNCHANGED <<phase, backoff, failures>>
      PROVE  BackoffEarned' /\ Draws
  BY <1>2 DEF BackoffEarned, Draws, OneMore
<1>3. CASE Connect
  <2>1. phase' = "open" /\ backoff' = InitialBackoff /\ failures' = 0
    BY <1>3 DEF Connect, Subscribe
  <2> QED BY <2>1 DEF BackoffEarned, Draws
<1>4. CASE ConnectFails
  BY <1>1, <1>4 DEF ConnectFails
<1>5. CASE RestEnds
  <2>1. /\ phase' \in {"connecting", "exited"} /\ UNCHANGED failures
        /\ backoff' = Smaller(2 * backoff, MaxBackoff)
        /\ backoff = Wait(failures) /\ (failures > 0 \/ failures = MaxFailures)
    BY <1>5 DEF RestEnds, Doubled, historyVars, BackoffEarned
  <2>2. failures \in 0..MaxFailures
    BY DEF SessionInv, TypeOK
  <2>3. backoff' = Wait(OneMore)
    BY <2>1, <2>2, WaitDoubles DEF OneMore
  <2>4. OneMore' = OneMore
    BY <2>1 DEF OneMore
  <2> QED BY <2>1, <2>3, <2>4 DEF BackoffEarned, Draws
<1>6. CASE Message
  BY <1>1, <1>2, <1>6, MessageEnds
<1>7. CASE Close
  BY <1>1, <1>7 DEF Close
<1>8. CASE Tick \/ Stop \/ Wake \/ UNCHANGED vars
  BY <1>2, <1>8 DEF Tick, Stop, Wake, vars, taskVars, historyVars
<1> QED BY <1>3, <1>4, <1>5, <1>6, <1>7, <1>8 DEF Next

\* run(): every wait is what the attempts that ended since the last subscription
\* have earned, neither less nor more, for every first backoff and every cap.
THEOREM WaitsAreEarned == Spec => WaitIsEarned
<1>1. Init => BackoffEarned
  <2> SUFFICES ASSUME Init PROVE BackoffEarned
    OBVIOUS
  <2>1. phase = "connecting" /\ backoff = InitialBackoff /\ OneMore = Smaller(1, MaxFailures)
    BY DEF Init, OneMore
  <2> QED BY <2>1, WaitDoubles DEF BackoffEarned
<1>2. SessionInv /\ BackoffEarned /\ [Next]_vars => BackoffEarned' /\ Draws
  BY EarnedStep
<1>3. Draws => [phase # "resting" /\ phase' = "resting" =>
                    rest' \in (Earned' \div 2)..((3 * Earned') \div 2)]_vars
  BY DEF Draws, Earned, Wait
<1> QED BY <1>1, <1>2, <1>3, SessionInvariance, PTL DEF Spec, WaitIsEarned
=============================================================================
