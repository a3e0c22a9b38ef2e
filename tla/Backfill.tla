------------------------------ MODULE Backfill ------------------------------
(***************************************************************************)
(* scripts/backfill_trades.py, run by an operator for one hole of one      *)
(* product's topic.  What the script asks the exchange for is history and  *)
(* does not change while it runs, so that all its pages are one step; its  *)
(* publishing is a step per trade.                                         *)
(***************************************************************************)
EXTENDS Integers, FiniteSetsExt

CONSTANTS
    MaxTrade,  \* bound: trades the exchange makes
    PageSize,  \* PAGE_SIZE
    Withheld   \* trades that the exchange's API does not return

TradeIds == 1..MaxTrade

ASSUME BackfillAssumption ==
    /\ MaxTrade \in Nat
    /\ PageSize \in Nat /\ PageSize > 0
    /\ Withheld \subseteq TradeIds

VARIABLES
    made,       \* exchange: the trades 1..made have happened
    script,     \* the script: its state, the ids it wants, those the API lacks, those to send
    backfilled  \* the topic: what backfills have put on it

backfillVars == <<script, backfilled>>

BackfillInit ==
    /\ script = [state |-> "idle", wanted |-> {}, missing |-> {},
                 pending |-> {}]
    /\ backfilled = {}

\* fetch_page: the newest trades with an id lower than the cursor.
Page(cursor) ==
    LET older == {t \in (1..made) \ Withheld : t < cursor}
    IN {t \in older : Cardinality({u \in older : u > t}) < PageSize}

Wanted(after, before) == (after + 1)..(before - 1)

\* Faults: the cursor skips a trade; the walk ends one page early.
CollectedSkips(after, before) ==
    LET walk[cursor \in Int] ==
          IF Page(cursor) = {} THEN {}
          ELSE Page(cursor) \union
               (IF Min(Page(cursor)) <= after THEN {} ELSE walk[Min(Page(cursor)) - 1])
    IN walk[before + PageSize] \intersect Wanted(after, before)
CollectedEndsEarly(after, before) ==
    LET walk[cursor \in Int] ==
          IF Page(cursor) = {} THEN {}
          ELSE Page(cursor) \union
               (IF Min(Page(cursor)) <= before THEN {} ELSE walk[Min(Page(cursor))])
    IN walk[before + PageSize] \intersect Wanted(after, before)

\* The walk back through the pages.  That it also ends as soon as it has all
\* does not change what it collects.
Collected(after, before) ==
    LET walk[cursor \in Int] ==
          IF Page(cursor) = {} THEN {}
          ELSE Page(cursor) \union
               (IF Min(Page(cursor)) <= after THEN {} ELSE walk[Min(Page(cursor))])
    IN walk[before + PageSize] \intersect Wanted(after, before)

\* main up to the first publish, for "last trade_id we already hold" and
\* "first trade_id after the gap".  A dry run does no more than this.
RunBackfill(after, before) ==
    /\ script.state # "publishing"
    /\ script' = [state |-> "publishing",
                  wanted |-> Wanted(after, before),
                  missing |-> Wanted(after, before) \ Collected(after, before),
                  pending |-> Collected(after, before)]
    /\ UNCHANGED backfilled

\* A published trade reaches the topic: ascending, as there is one ordering key.
BackfillSends ==
    /\ script.state = "publishing"
    /\ \E t \in script.pending :
          /\ \A u \in script.pending : t <= u
          /\ backfilled' = backfilled \union {t}
          /\ script' = [script EXCEPT !.pending = @ \ {t}]

\* With a warning if something is missing.  The exit status is 0 either way.
Ended == IF script.missing = {} THEN "complete" ELSE "warned"

\* Fault: the script does not wait for the futures.
BackfillEndsAtOnce ==
    /\ script.state = "publishing"
    /\ script' = [script EXCEPT !.state = Ended, !.missing = {}, !.pending = {}]
    /\ UNCHANGED backfilled

\* Every future has its result.
BackfillEnds ==
    /\ script.state = "publishing"
    /\ script.pending = {}
    /\ script' = [script EXCEPT !.state = Ended, !.missing = {}]
    /\ UNCHANGED backfilled

\* A request or a future raises, or a future has no result in time: the script
\* dies and with it what its client has not sent.
BackfillRaises ==
    /\ script.state = "publishing"
    /\ script' = [state |-> "raised", wanted |-> {}, missing |-> {}, pending |-> {}]
    /\ UNCHANGED backfilled
=============================================================================
