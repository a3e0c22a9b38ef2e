------------------------------ MODULE OrderBook ------------------------------
(***************************************************************************)
(* The level 2 order book: ingest/src/consumer/book.py, the snapshot and   *)
(* l2update handlers of ingest/src/consumer/ws_client.py, and the exchange *)
(* whose book is being reconstructed.  The exchange sends its whole book   *)
(* once per connection and from then on only changes; the feed may lose    *)
(* changes, and l2update messages carry nothing to notice it by.           *)
(*                                                                         *)
(* One product: BookSet keeps the books of the products apart and resets   *)
(* all of them together.                                                   *)
(***************************************************************************)
EXTENDS Integers, Sequences, SequencesExt

CONSTANTS
    MaxPrice,  \* prices are 1..MaxPrice
    MaxSize,   \* sizes are 1..MaxSize
    MaxBatch,  \* bound: changes in one l2update
    MaxWire,   \* bound: l2updates in flight
    MaxDrops,  \* bound: times the feed loses changes after one snapshot
    NoBook     \* what is served when no book is

Prices == 1..MaxPrice
Changes == [side : {"buy", "sell"}, price : Prices, size : 0..MaxSize]
Batches == UNION {[1..n -> Changes] : n \in 1..MaxBatch}

\* One side of a book: the size resting at each price where there is any.
Levels == UNION {[P -> 1..MaxSize] : P \in SUBSET Prices}
Books == [bids : Levels, asks : Levels]
NoLevels == << >>
EmptyBook == [bids |-> NoLevels, asks |-> NoLevels]

ASSUME OrderBookAssumption ==
    /\ MaxPrice \in Nat /\ MaxSize \in Nat /\ MaxWire \in Nat
    /\ MaxBatch \in Nat /\ MaxDrops \in Nat
    /\ NoBook \notin Books

VARIABLES
    market,        \* exchange: its book
    snapshotSent,  \* exchange: this connection was sent its snapshot
    dropped,       \* feed: times it lost changes since that snapshot
    wire,          \* messages in flight; `after` is the exchange's book when sent
    connected,     \* the socket is open
    book,          \* OrderBook._bids and ._asks
    ready,         \* OrderBook._ready
    alarm          \* the last update's quote() raised CrossedBookError

vars == <<market, snapshotSent, dropped, wire, connected, book, ready, alarm>>

-----------------------------------------------------------------------------
(* book.py *)

\* Fault: a level of size zero is kept.
SetKeepsZero(levels, price, size) ==
    [p \in DOMAIN levels \union {price} |-> IF p = price THEN size ELSE levels[p]]

\* Fault: the size is taken for a difference.
SetAddsSize(levels, price, size) ==
    IF size = 0 THEN Restrict(levels, DOMAIN levels \ {price})
    ELSE [p \in DOMAIN levels \union {price} |->
            IF p # price THEN levels[p]
            ELSE IF p \in DOMAIN levels THEN levels[p] + size ELSE size]

\* OrderBook._set: size zero removes the level.
Set(levels, price, size) ==
    IF size = 0 THEN Restrict(levels, DOMAIN levels \ {price})
    ELSE [p \in DOMAIN levels \union {price} |-> IF p = price THEN size ELSE levels[p]]

ApplyChange(b, c) ==
    IF c.side = "buy" THEN [b EXCEPT !.bids = Set(@, c.price, c.size)]
    ELSE [b EXCEPT !.asks = Set(@, c.price, c.size)]

\* The exchange's own bookkeeping, which _set has to reproduce.
Amend(b, c) ==
    LET levels == IF c.side = "buy" THEN b.bids ELSE b.asks
        kept == {p \in DOMAIN levels : p # c.price}
        new == IF c.size = 0 THEN kept ELSE kept \union {c.price}
        amended == [p \in new |-> IF p = c.price THEN c.size ELSE levels[p]]
    IN  IF c.side = "buy" THEN [bids |-> amended, asks |-> b.asks]
        ELSE [bids |-> b.bids, asks |-> amended]

\* The books that a sequence of changes leads through, and the last of them: by
\* _set, and by the exchange's bookkeeping.
Applying(b, changes) ==
    LET after[n \in 0..Len(changes)] ==
          IF n = 0 THEN b ELSE ApplyChange(after[n - 1], changes[n])
    IN  after
Applied(b, changes) == Applying(b, changes)[Len(changes)]

Amending(b, changes) ==
    LET after[n \in 0..Len(changes)] ==
          IF n = 0 THEN b ELSE Amend(after[n - 1], changes[n])
    IN  after
Amended(b, changes) == Amending(b, changes)[Len(changes)]

\* Some bid is at or above some ask: best_bid() >= best_ask() in quote().
IsCrossed(b) == \E p \in DOMAIN b.bids, q \in DOMAIN b.asks : p >= q

-----------------------------------------------------------------------------
Init ==
    /\ market = EmptyBook
    /\ snapshotSent = FALSE
    /\ dropped = 0
    /\ wire = << >>
    /\ connected = FALSE
    /\ book = EmptyBook
    /\ ready = FALSE
    /\ alarm = FALSE

(* The exchange and the feed.  An exchange matches what crosses, so its book is
   not crossed between batches; a change it announces changes something. *)

InFlight == Cardinality({i \in DOMAIN wire : wire[i].type = "l2update"})

\* The change reaches the wire.
Update ==
    /\ connected
    /\ InFlight < MaxWire
    /\ \E changes \in Batches :
        /\ LET after == Amending(market, changes)
           IN  \A n \in DOMAIN changes : after[n] # after[n - 1]
        /\ market' = Amended(market, changes)
        /\ ~IsCrossed(market')
        /\ wire' = Append(wire, [type |-> "l2update", changes |-> changes, after |-> market'])
    /\ UNCHANGED <<snapshotSent, dropped, connected, book, ready, alarm>>

\* Changes of which nothing is heard: lost by the feed, several messages of them
\* perhaps, or made while nobody is connected.
DropUpdate ==
    /\ market' \in Books \ {market}
    /\ ~IsCrossed(market')
    /\ IF snapshotSent THEN dropped < MaxDrops /\ dropped' = dropped + 1
                       ELSE UNCHANGED dropped
    /\ UNCHANGED <<snapshotSent, wire, connected, book, ready, alarm>>

Snapshot ==
    /\ connected
    /\ ~snapshotSent
    /\ wire' = Append(wire, [type |-> "snapshot", changes |-> << >>, after |-> market])
    /\ snapshotSent' = TRUE
    /\ UNCHANGED <<market, dropped, connected, book, ready, alarm>>

-----------------------------------------------------------------------------
(* ws_client.py *)

\* OrderBook.apply_snapshot replaces all state.
ApplySnapshot(levels) == book' = levels /\ ready' = TRUE

\* MessageHandler._handle_snapshot.
HandleSnapshot(m) == ApplySnapshot(m.after) /\ UNCHANGED alarm

\* Fault: changes are applied to a book that is not ready.
ApplyUpdatesUnready(changes) == book' = Applied(book, changes)

\* OrderBook.apply_updates drops what comes before the snapshot.
ApplyUpdates(changes) ==
    book' = IF ready THEN Applied(book, changes) ELSE book

\* Fault: quote() is checked after each change of a batch.
HandleUpdateChecksEach(m) ==
    /\ ApplyUpdates(m.changes)
    /\ alarm' = (ready /\ \E n \in DOMAIN m.changes :
                    IsCrossed(Applying(book, m.changes)[n]))
    /\ UNCHANGED ready

\* MessageHandler._handle_l2update: quote() checks the book after the batch.
HandleUpdate(m) ==
    /\ ApplyUpdates(m.changes)
    /\ alarm' = (ready /\ IsCrossed(book'))
    /\ UNCHANGED ready

Receive ==
    /\ connected
    /\ wire # << >>
    /\ wire' = Tail(wire)
    /\ \/ Head(wire).type = "snapshot" /\ HandleSnapshot(Head(wire))
       \/ Head(wire).type = "l2update" /\ HandleUpdate(Head(wire))
    /\ UNCHANGED <<market, snapshotSent, dropped, connected>>

Connect ==
    /\ ~connected
    /\ connected' = TRUE
    /\ UNCHANGED <<market, snapshotSent, dropped, wire, book, ready, alarm>>

\* Fault: nothing is reset.
ResetForgotten == UNCHANGED <<book, ready>>

\* OrderBook.reset, for every book by MessageHandler.on_disconnect.
Reset == book' = EmptyBook /\ ready' = FALSE

Disconnect ==
    /\ connected
    /\ connected' = FALSE
    /\ wire' = << >>
    /\ snapshotSent' = FALSE
    /\ dropped' = 0
    /\ Reset
    /\ alarm' = FALSE
    /\ UNCHANGED market

Next == Update \/ DropUpdate \/ Snapshot \/ Receive \/ Connect \/ Disconnect

Spec == Init /\ [][Next]_vars

\* The reader keeps reading and the market keeps moving.
FairSpec == Spec /\ WF_vars(Receive) /\ SF_vars(Update)

-----------------------------------------------------------------------------
(* Properties. *)

\* The shape of the state of book.py; a message's `after` is a book.
TypeOK ==
    /\ market \in Books /\ book \in Books
    /\ {snapshotSent, connected, ready, alarm} \subseteq BOOLEAN
    /\ dropped \in 0..MaxDrops
    /\ wire \in Seq([type : {"snapshot"}, changes : {<< >>}, after : Books]
                    \union [type : {"l2update"}, changes : Batches, after : Books])

\* The book once the messages in flight have been handled.
Pending ==
    LET after[i \in 0..Len(wire)] ==
          IF i = 0 THEN book ELSE Applied(after[i - 1], wire[i].changes)
    IN  after[Len(wire)]

\* A ready book that missed no change is, with what is in flight, the exchange's
\* book, level by level and size by size; so no stale or phantom level survives
\* an update, a snapshot or a reconnect.
BookIsMarket == ready /\ dropped = 0 => Pending = market

\* CrossedBookError is never a market condition: it is raised only when a change
\* was lost since the snapshot.
NoFalseAlarm == alarm => dropped > 0

\* Quotes are withheld: a book that is not ready holds no level, and a ready one
\* was built from a snapshot of the connection that is open now.
UnusableBeforeSnapshot ==
    /\ ~ready => book = EmptyBook
    /\ ready => connected /\ snapshotSent /\ \A i \in DOMAIN wire : wire[i].type # "snapshot"

\* As long as no change is lost, the book implements the promise of BookReplica.
Promised == ready /\ dropped = 0
Replica == INSTANCE BookReplica WITH
    truth <- market,
    served <- IF Promised THEN book ELSE NoBook,
    behind <- IF Promised THEN [i \in DOMAIN wire |-> wire[i].after] ELSE << >>
ReplicaSpec == Replica!Spec

\* What ADR 0007 says of a book that has drifted from the exchange's: sooner or
\* later it is seen to be crossed (or it is mended, or the connection ends).
Drifted == ready /\ Pending # market
DriftIsNoticed == Drifted ~> (alarm \/ ~Drifted)
=============================================================================
