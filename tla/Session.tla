------------------------------- MODULE Session -------------------------------
(***************************************************************************)
(* The connection loop of the consumer: WebSocketConsumer of               *)
(* ingest/src/consumer/ws_client.py, the part of MessageHandler's state    *)
(* its watchdog and its resets touch, and the shutdown signal.             *)
(*                                                                         *)
(* One asyncio loop runs two tasks: run(), which connects, reads the       *)
(* socket and backs off, and during a connection _watchdog(), which sleeps *)
(* and looks at the age of the last heartbeat.  A task gives way only at   *)
(* an await, so each action is one task from an await to its next.  Time   *)
(* is counted in ticks; a timer that is due fires before time goes on.     *)
(***************************************************************************)
EXTENDS Integers

CONSTANTS
    HalfTimeout,     \* heartbeat_timeout_s / 2, in ticks: the watchdog's nap
    InitialBackoff,  \* backoff_initial_s, in ticks
    MaxBackoff,      \* backoff_max_s, in ticks
    MaxFailures      \* bound: attempts that end in a row are counted up to here,
                     \* and so many reach the cap of the backoff

NoBeat == -1  \* `None`: no heartbeat was heard in this connection
HeartbeatTimeout == 2 * HalfTimeout
Horizon == 3 * HalfTimeout + 1  \* bound: ages are counted up to here
Ages == 0..Horizon

\* InitialBackoff for the first attempt that ends, doubled for each one after it.
Growth[n \in 0..MaxFailures] == IF n <= 1 THEN InitialBackoff ELSE 2 * Growth[n - 1]

ASSUME SessionAssumption ==
    /\ HalfTimeout \in Nat /\ HalfTimeout > 0
    /\ InitialBackoff \in Nat /\ MaxBackoff \in Nat /\ MaxFailures \in Nat
    /\ 0 < InitialBackoff /\ InitialBackoff <= MaxBackoff
    /\ MaxBackoff <= Growth[MaxFailures]

VARIABLES
    phase,      \* where run() is: connecting, open (reading), resting, exited
    stopping,   \* _stopping: the shutdown signal came
    backoff,    \* run()'s `backoff`
    rest,       \* what is left of run()'s sleep
    watchdog,   \* the _watchdog task: none, asleep, finished, failed (it raised)
    nap,        \* what is left of the watchdog's sleep
    last,       \* the age of MessageHandler.last_heartbeat_at, or NoBeat
    derived,    \* MessageHandler holds books or trade ids
    uncounted,  \* attempts begun minus websocket_reconnects_total
    quiet,      \* history: age of this connection's last heartbeat, or its own
    failures    \* history: attempts that ended since the last subscription

taskVars == <<phase, backoff, rest, watchdog, nap>>
handlerVars == <<last, derived, uncounted>>
historyVars == <<quiet, failures>>
vars == <<taskVars, stopping, handlerVars, historyVars>>

Smaller(a, b) == IF a < b THEN a ELSE b
Larger(a, b) == IF a < b THEN b ELSE a

Init ==
    /\ phase = "connecting"
    /\ stopping = FALSE
    /\ backoff = InitialBackoff
    /\ rest = 0
    /\ watchdog = "none"
    /\ nap = 0
    /\ last = NoBeat
    /\ derived = FALSE
    /\ uncounted = 1
    /\ quiet = 0
    /\ failures = 0

-----------------------------------------------------------------------------
(* Time and the signal. *)

\* No timer is due, so the event loop has nothing to do before the next tick.
NothingDue ==
    /\ watchdog = "asleep" => nap > 0
    /\ phase = "resting" => rest > 0

Tick ==
    /\ phase # "exited"
    /\ NothingDue
    /\ rest' = Larger(rest - 1, 0)
    /\ nap' = Larger(nap - 1, 0)
    /\ last' = IF last = NoBeat THEN NoBeat ELSE Smaller(last + 1, Horizon)
    /\ quiet' = Smaller(quiet + 1, Horizon)
    /\ UNCHANGED <<phase, stopping, backoff, watchdog, derived, uncounted, failures>>

\* SIGTERM or SIGINT: WebSocketConsumer.stop().  It wakes neither task.
Stop ==
    /\ phase # "exited"
    /\ stopping' = TRUE
    /\ UNCHANGED <<taskVars, handlerVars, historyVars>>

-----------------------------------------------------------------------------
(* The end of a connection, or of an attempt to make one. *)

\* Faults: what the disconnect forgets to forget.
OnDisconnectKeepsBeat == derived' = FALSE /\ UNCHANGED last
OnDisconnectKeepsBooks == last' = NoBeat /\ UNCHANGED derived

\* MessageHandler.on_disconnect
OnDisconnect == last' = NoBeat /\ derived' = FALSE

\* backoff * (0.5 + random.random())
Jittered == (backoff \div 2)..((3 * backoff) \div 2)

CountFailure == failures' = Smaller(failures + 1, MaxFailures)

\* Fault: reconnects are counted only where the exception is handled.
EndCountsRaised(raised) ==
    /\ watchdog' = "none" /\ nap' = 0
    /\ CountFailure
    /\ OnDisconnect
    /\ uncounted' = IF raised THEN uncounted - 1 ELSE uncounted
    /\ IF stopping THEN phase' = "exited" /\ rest' = 0
                   ELSE phase' = "resting" /\ rest' \in Jittered

\* Cancelling the watchdog and awaiting it re-raises what it failed with.  An
\* exception breaks the loop at once when stopping; otherwise the handler is
\* reset and the reconnect counted, and the loop stops or goes to sleep.
End(raised) ==
    /\ watchdog' = "none" /\ nap' = 0
    /\ CountFailure
    /\ IF stopping /\ (raised \/ watchdog = "failed")
       THEN phase' = "exited" /\ rest' = 0 /\ UNCHANGED handlerVars
       ELSE /\ OnDisconnect
            /\ uncounted' = uncounted - 1
            /\ IF stopping THEN phase' = "exited" /\ rest' = 0
                           ELSE phase' = "resting" /\ rest' \in Jittered

-----------------------------------------------------------------------------
(* run() *)

\* Fault: a subscription does not reset the backoff.
SubscribeKeepsBackoff == UNCHANGED backoff

Subscribe == backoff' = InitialBackoff

\* Connected and subscribed.  The watchdog's first test is of _stopping.
Connect ==
    /\ phase = "connecting"
    /\ phase' = "open"
    /\ Subscribe
    /\ watchdog' = IF stopping THEN "finished" ELSE "asleep"
    /\ nap' = IF stopping THEN 0 ELSE HalfTimeout
    /\ quiet' = 0
    /\ failures' = 0
    /\ UNCHANGED <<stopping, rest, handlerVars>>

ConnectFails ==
    /\ phase = "connecting"
    /\ End(TRUE)
    /\ UNCHANGED <<stopping, backoff, quiet>>

\* Faults of the doubling: the backoff stays as it is; it is not capped.
DoubledNever == backoff
DoubledUncapped == 2 * backoff

Doubled == Smaller(2 * backoff, MaxBackoff)

RestEnds ==
    /\ phase = "resting"
    /\ rest = 0
    /\ backoff' = Doubled
    /\ phase' = IF stopping THEN "exited" ELSE "connecting"
    /\ uncounted' = IF stopping THEN uncounted ELSE uncounted + 1
    /\ UNCHANGED <<stopping, rest, watchdog, nap, last, derived, historyVars>>

-----------------------------------------------------------------------------
(* _consume(): one message, or the end of the socket. *)

\* MessageHandler.handle: a heartbeat is remembered; trades and books are
\* derived state.  Logging an `error` message raises, as its `extra` has a
\* key that a log record reserves.
Handle(kind) ==
    CASE kind = "heartbeat" ->
            /\ last' = 0 /\ quiet' = 0
            /\ UNCHANGED <<taskVars, derived, uncounted, failures>>
      [] kind = "data" ->
            /\ derived' = TRUE
            /\ UNCHANGED <<taskVars, last, uncounted, historyVars>>
      [] kind = "ignored" ->
            UNCHANGED <<taskVars, handlerVars, historyVars>>
      [] kind = "error" ->
            End(TRUE) /\ UNCHANGED <<backoff, quiet>>

\* Fault: _stopping is tested by run() alone.
ReadToTheEnd(kind) == Handle(kind)

Read(kind) ==
    IF stopping THEN End(FALSE) /\ UNCHANGED <<backoff, quiet>>
                ELSE Handle(kind)

Message ==
    /\ phase = "open"
    /\ \E kind \in {"heartbeat", "data", "ignored", "error"} : Read(kind)
    /\ UNCHANGED stopping

\* The socket closes, normally or with an error.
Close ==
    /\ phase = "open"
    /\ \E raised \in BOOLEAN : End(raised)
    /\ UNCHANGED <<stopping, backoff, quiet>>

-----------------------------------------------------------------------------
(* _watchdog() *)

\* Fault: a nap as long as the timeout.
FullNap == HeartbeatTimeout
Nap == HalfTimeout

Stalled == last # NoBeat /\ last > HeartbeatTimeout

\* Nobody awaits the task before _consume ends, so a failure is not seen by
\* the reader and the task is not restarted.
Wake ==
    /\ watchdog = "asleep"
    /\ nap = 0
    /\ \/ /\ Stalled
          /\ watchdog' = "failed"
          /\ UNCHANGED nap
       \/ /\ ~Stalled
          /\ watchdog' = IF stopping THEN "finished" ELSE "asleep"
          /\ nap' = IF stopping THEN 0 ELSE Nap
    /\ UNCHANGED <<phase, backoff, rest, stopping, handlerVars, historyVars>>

-----------------------------------------------------------------------------
Next ==
    \/ Tick \/ Stop
    \/ Connect \/ ConnectFails \/ RestEnds
    \/ Message \/ Close
    \/ Wake

Spec == Init /\ [][Next]_vars

\* Timers fire and an attempt ends one way or the other (the client has a
\* timeout for it).  Of an open socket nothing is promised.
TimerSpec ==
    /\ Spec
    /\ WF_vars(Tick) /\ WF_vars(Wake) /\ WF_vars(RestEnds)
    /\ WF_vars(Connect \/ ConnectFails)

\* And an open socket is not silent for ever.
FairSpec == TimerSpec /\ WF_vars(Message \/ Close)

-----------------------------------------------------------------------------
(* Properties. *)

\* The shape of the state; a watchdog exists only while a socket is open.
TypeOK ==
    /\ phase \in {"connecting", "open", "resting", "exited"}
    /\ stopping \in BOOLEAN /\ derived \in BOOLEAN
    /\ backoff \in InitialBackoff..MaxBackoff
    /\ rest \in 0..((3 * MaxBackoff) \div 2)
    /\ watchdog \in {"none", "asleep", "finished", "failed"}
    /\ watchdog # "none" <=> phase = "open"
    /\ nap \in 0..HalfTimeout
    /\ last \in Ages \union {NoBeat}
    /\ uncounted \in 0..1
    /\ quiet \in Ages
    /\ failures \in 0..MaxFailures

\* A stall is seen in time: while its watchdog lives, a connection that has
\* heard a heartbeat has not gone without one for longer than the timeout and
\* one nap.
StallSeenInTime == watchdog = "asleep" /\ last # NoBeat => quiet <= HeartbeatTimeout + HalfTimeout

\* The watchdog judges a connection by its own heartbeats: it fails only when
\* this connection has been without one for longer than the timeout.
StallIsReal ==
    [][watchdog # "failed" /\ watchdog' = "failed" => quiet > HeartbeatTimeout]_vars

\* A connection begins with nothing left of the one before, whichever way that
\* one ended: no heartbeat, no book, no trade id.
CleanSlate == phase \in {"connecting", "resting"} => last = NoBeat /\ ~derived

\* The wait before an attempt is what the attempts that ended in a row have earned,
\* give or take the jitter, and neither less nor more: an outage backs off, up to
\* the cap, and the first wait after a connection that subscribed starts afresh.
Earned == Smaller(Growth[failures], MaxBackoff)
WaitIsEarned ==
    [][phase # "resting" /\ phase' = "resting" =>
           rest' \in (Earned' \div 2)..((3 * Earned') \div 2)]_vars

\* websocket_reconnects_total counts every attempt but the one under way, and
\* the last one when shutdown interrupts it with an exception.
ReconnectsAreCounted ==
    /\ phase \in {"connecting", "open"} => uncounted = 1
    /\ phase = "resting" => uncounted = 0

\* Shutdown terminates run() if the feed does not fall silent.
StopIsHonoured == stopping ~> phase = "exited"

\* What the runbook says of a stall the watchdog has seen: it forces a
\* reconnect (unless shutdown comes first).
StallForcesReconnect == watchdog = "failed" /\ ~stopping ~> phase # "open" \/ stopping
=============================================================================
