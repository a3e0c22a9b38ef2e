--------------------------- MODULE OrderBookProofs ---------------------------
(***************************************************************************)
(* Proofs about OrderBook, for every number of prices, sizes, changes in a *)
(* batch, messages in flight and losses: a book that lost nothing is the   *)
(* exchange's book, is never crossed, and follows the exchange's books one *)
(* by one.                                                                 *)
(*                                                                         *)
(* The invariant is a chain: each message in flight, if it finds a book it *)
(* can be applied to, leads from the book before it to the exchange's book *)
(* at the time it was sent, and the last of these is the market's.         *)
(***************************************************************************)
EXTENDS OrderBook, LeastNumber, SequenceTheorems, TLAPS

\* One snapshot per connection, and no losses are told before it.
SnapshotOnce ==
    /\ ~snapshotSent => dropped = 0 /\ \A i \in DOMAIN wire : wire[i].type # "snapshot"
    /\ snapshotSent => ready \/ \E i \in DOMAIN wire : wire[i].type = "snapshot"
    /\ \A i, k \in DOMAIN wire :
          wire[i].type = "snapshot" /\ wire[k].type = "snapshot" => i = k

\* The exchange's books are not crossed.
Uncrossed ==
    ~IsCrossed(market) /\ \A i \in DOMAIN wire : ~IsCrossed(wire[i].after)

\* The book that message i of q is applied to, and whether there is one; b is the
\* book before them all.
Before(b, q, i) == IF i = 1 THEN b ELSE q[i - 1].after
Loaded(have, q, i) == have \/ \E k \in 1..(i - 1) : q[k].type = "snapshot"

Chain ==
    dropped = 0 /\ snapshotSent =>
        /\ \A i \in DOMAIN wire :
              Loaded(ready, wire, i) =>
                wire[i].after = Amended(Before(book, wire, i), wire[i].changes)
        /\ market = Before(book, wire, Len(wire) + 1)

BookInv ==
    /\ TypeOK /\ SnapshotOnce /\ UnusableBeforeSnapshot
    /\ Uncrossed /\ Chain /\ NoFalseAlarm

-----------------------------------------------------------------------------
(* The book as a data structure. *)

\* Setting a level gives a side of a book again, whatever was there.
LEMMA LevelsOf ==
    ASSUME NEW f, f \in Levels
    PROVE  DOMAIN f \subseteq Prices /\ \A p \in DOMAIN f : f[p] \in 1..MaxSize
  BY DEF Levels

LEMMA LevelsBy ==
    ASSUME NEW P \in SUBSET Prices, NEW f \in [P -> 1..MaxSize]
    PROVE  f \in Levels
  BY DEF Levels

\* What the exchange makes of one side of its book.
Side(levels, price, size) ==
    LET kept == {p \in DOMAIN levels : p # price}
        new == IF size = 0 THEN kept ELSE kept \union {price}
    IN  [p \in new |-> IF p = price THEN size ELSE levels[p]]

\* _set does to one side what the exchange means by a change.
LEMMA SetSets ==
    ASSUME NEW f \in Levels, NEW price \in Prices, NEW size \in 0..MaxSize
    PROVE  Set(f, price, size) = Side(f, price, size) /\ Side(f, price, size) \in Levels
<1> DEFINE kept == {p \in DOMAIN f : p # price}
           new == IF size = 0 THEN kept ELSE kept \union {price}
           g == [p \in new |-> IF p = price THEN size ELSE f[p]]
<1>1. DOMAIN f \subseteq Prices /\ \A p \in DOMAIN f : f[p] \in 1..MaxSize
  BY LevelsOf
<1>2. new \subseteq Prices
  BY <1>1
<1>3. \A p \in new : (IF p = price THEN size ELSE f[p]) \in 1..MaxSize
  BY <1>1, OrderBookAssumption
<1>4. g \in [new -> 1..MaxSize]
  BY <1>3
<1>5. g \in Levels
  <2> HIDE DEF new, g
  <2> QED BY <1>2, <1>4, LevelsBy
<1>6. Set(f, price, size) = g
  <2>1. CASE size = 0
    <3>1. DOMAIN f \ {price} = kept /\ new = kept
      BY <2>1
    <3>2. \A p \in kept : p # price
      OBVIOUS
    <3> QED BY <2>1, <3>1, <3>2 DEF Set, Restrict
  <2>2. CASE size # 0
    <3>1. DOMAIN f \union {price} = new
      BY <2>2
    <3> HIDE DEF new
    <3> QED BY <2>2, <3>1 DEF Set
  <2> QED BY <2>1, <2>2
<1>7. Side(f, price, size) = g
  BY DEF Side
<1> HIDE DEF g
<1> QED BY <1>5, <1>6, <1>7

\* A change applied to a book is the exchange's change of it, and gives a book.
LEMMA ChangeIsAmendment ==
    ASSUME NEW b \in Books, NEW c \in Changes
    PROVE  ApplyChange(b, c) = Amend(b, c) /\ Amend(b, c) \in Books
<1>1. /\ b.bids \in Levels /\ b.asks \in Levels /\ b = [bids |-> b.bids, asks |-> b.asks]
      /\ c.price \in Prices /\ c.size \in 0..MaxSize /\ c.side \in {"buy", "sell"}
  BY DEF Books, Changes
<1> DEFINE levels == IF c.side = "buy" THEN b.bids ELSE b.asks
           amended == Side(levels, c.price, c.size)
<1>2. Set(levels, c.price, c.size) = amended /\ amended \in Levels
  <2>1. levels \in Levels
    BY <1>1
  <2> HIDE DEF levels
  <2> QED BY <1>1, <2>1, SetSets
<1>3. Amend(b, c) = IF c.side = "buy" THEN [bids |-> amended, asks |-> b.asks]
                    ELSE [bids |-> b.bids, asks |-> amended]
  BY DEF Amend, Side
<1> HIDE DEF amended
<1>4. ApplyChange(b, c) = IF c.side = "buy" THEN [bids |-> amended, asks |-> b.asks]
                          ELSE [bids |-> b.bids, asks |-> amended]
  BY <1>1, <1>2 DEF ApplyChange
<1> QED BY <1>1, <1>2, <1>3, <1>4 DEF Books

\* A batch leads through books, and through the exchange's.
LEMMA BatchIsAmendment ==
    ASSUME NEW b \in Books, NEW changes \in Seq(Changes)
    PROVE  Applied(b, changes) = Amended(b, changes) /\ Amended(b, changes) \in Books
<1> DEFINE n == Len(changes)
           Amends(f) == f = [i \in 0..n |-> IF i = 0 THEN b ELSE Amend(f[i - 1], changes[i])]
           Applies(f) == f = [i \in 0..n |-> IF i = 0 THEN b ELSE ApplyChange(f[i - 1], changes[i])]
           step == [i \in 1..n |-> [x \in Books |-> Amend(x, changes[i])]]
<1>1. n \in Nat /\ \A i \in 1..n : changes[i] \in Changes
  OBVIOUS
<1>2. step \in [1..n -> [Books -> Books]]
  <2>1. \A i \in 1..n : \A x \in Books : Amend(x, changes[i]) \in Books
    BY <1>1, ChangeIsAmendment
  <2> QED BY <2>1
<1>3. PICK f \in [0..n -> Books] : Follows(f, n, b, step)
  <2> HIDE DEF n, step
  <2> QED BY <1>1, <1>2, Recursion
<1>4. f[0] = b /\ \A i \in 1..n : f[i - 1] \in Books /\ f[i] = Amend(f[i - 1], changes[i])
  BY <1>1, <1>3 DEF Follows
<1>5. Amends(f) /\ Applies(f)
  <2>1. \A i \in 0..n : i # 0 => i \in 1..n
    BY <1>1
  <2>2. \A i \in 1..n : ApplyChange(f[i - 1], changes[i]) = Amend(f[i - 1], changes[i])
    BY <1>1, <1>4, ChangeIsAmendment
  <2>3. f = [i \in 0..n |-> f[i]]
    BY <1>3
  <2> HIDE DEF n, step
  <2> QED BY <1>3, <1>4, <2>1, <2>2, <2>3
\* Whatever is defined by either recursion is f.
<1>6. ASSUME NEW g, Amends(g) \/ Applies(g) PROVE g[n] = f[n]
  <2> DEFINE G == {i \in 0..n : g[i] = f[i]}
  <2>1. g[0] = b
    BY <1>1, <1>6
  <2>2. 0 \in G
    BY <1>1, <1>4, <2>1
  <2>3. ASSUME NEW i \in 1..n, i - 1 \in G PROVE i \in G
    <3>1. i \in 0..n /\ i # 0 /\ g[i - 1] = f[i - 1]
      BY <1>1, <2>3
    <3>2. g[i] = Amend(f[i - 1], changes[i]) \/ g[i] = ApplyChange(f[i - 1], changes[i])
      <4> HIDE DEF n
      <4> QED BY <1>6, <3>1
    <3>3. ApplyChange(f[i - 1], changes[i]) = Amend(f[i - 1], changes[i])
      BY <1>1, <1>4, ChangeIsAmendment
    <3> HIDE DEF n
    <3> QED BY <1>4, <3>1, <3>2, <3>3
  <2> HIDE DEF G, n
  <2>4. \A i \in 0..n : i \in G
    BY <1>1, <2>2, <2>3, Induct
  <2> QED BY <1>1, <2>4 DEF G
<1>7. Amends(Amending(b, changes))
  <2>1. \E g : Amends(g)
    BY <1>5
  <2> QED BY <2>1, Zenon DEF Amending
<1>8. Applies(Applying(b, changes))
  <2>1. \E g : Applies(g)
    BY <1>5
  <2> QED BY <2>1, Zenon DEF Applying
<1>9. n \in 0..n
  BY <1>1
<1> HIDE DEF n, Amends, Applies
<1> QED BY <1>3, <1>6, <1>7, <1>8, <1>9 DEF Applied, Amended, n

\* No changes, no change.
LEMMA NoChange ==
    ASSUME NEW b \in Books
    PROVE  Applied(b, << >>) = b
<1> DEFINE f == [i \in 0..0 |-> IF i = 0 THEN b ELSE 0]
           Applies(g) == g = [i \in 0..Len(<< >>) |-> IF i = 0 THEN b
                                                      ELSE ApplyChange(g[i - 1], << >>[i])]
<1>1. \E g : Applies(g)
  <2>1. Applies(f)
    OBVIOUS
  <2> QED BY <2>1
<1>2. Applies(Applying(b, << >>))
  BY <1>1, Zenon DEF Applying
<1>3. Applying(b, << >>)[0] = b
  BY <1>2
<1> QED BY <1>3 DEF Applied

\* A batch is a sequence of changes.
LEMMA BatchesAreSequences == Batches \subseteq Seq(Changes)
  BY DEF Batches

-----------------------------------------------------------------------------
(* The messages in flight. *)

Messages ==
    [type : {"snapshot"}, changes : {<< >>}, after : Books]
      \union [type : {"l2update"}, changes : Batches, after : Books]

LEMMA MessageFacts ==
    /\ \A m \in Messages : /\ m.type \in {"snapshot", "l2update"} /\ m.after \in Books
                           /\ m.changes \in Seq(Changes)
                           /\ m.type = "snapshot" => m.changes = << >>
    /\ \A b \in Books : [type |-> "snapshot", changes |-> << >>, after |-> b] \in Messages
    /\ \A c \in Batches, b \in Books :
          [type |-> "l2update", changes |-> c, after |-> b] \in Messages
<1>1. << >> \in Seq(Changes)
  OBVIOUS
<1> QED BY <1>1, BatchesAreSequences DEF Messages

LEMMA Sent ==
    ASSUME NEW q \in Seq(Messages), NEW m \in Messages
    PROVE  /\ Append(q, m) \in Seq(Messages)
           /\ Len(q) \in Nat /\ DOMAIN q = 1..Len(q)
           /\ Len(Append(q, m)) = Len(q) + 1
           /\ DOMAIN Append(q, m) = 1..(Len(q) + 1)
           /\ \A i \in 1..Len(q) : Append(q, m)[i] = q[i]
           /\ Append(q, m)[Len(q) + 1] = m
  OBVIOUS

LEMMA Taken ==
    ASSUME NEW q \in Seq(Messages), q # << >>
    PROVE  /\ Tail(q) \in Seq(Messages) /\ Head(q) \in Messages /\ Head(q) = q[1]
           /\ Len(q) \in Nat /\ Len(q) >= 1 /\ DOMAIN q = 1..Len(q)
           /\ Len(Tail(q)) = Len(q) - 1
           /\ DOMAIN Tail(q) = 1..(Len(q) - 1)
           /\ \A i \in 1..(Len(q) - 1) : Tail(q)[i] = q[i + 1]
  OBVIOUS

\* What TypeOK says of the messages.
LEMMA WireFacts ==
    ASSUME TypeOK
    PROVE  /\ wire \in Seq(Messages) /\ Len(wire) \in Nat /\ DOMAIN wire = 1..Len(wire)
           /\ \A i \in DOMAIN wire : wire[i] \in Messages
           /\ market \in Books /\ book \in Books
<1>1. wire \in Seq(Messages)
  BY DEF TypeOK, Messages
<1>2. ASSUME NEW q \in Seq(Messages)
      PROVE  Len(q) \in Nat /\ DOMAIN q = 1..Len(q) /\ \A i \in DOMAIN q : q[i] \in Messages
  OBVIOUS
<1> QED BY <1>1, <1>2 DEF TypeOK

\* An empty book is a book, and is not crossed.
LEMMA EmptyFacts == EmptyBook \in Books /\ ~IsCrossed(EmptyBook)
<1>1. NoLevels \in Levels /\ DOMAIN NoLevels = {}
  <2>1. NoLevels \in [{} -> 1..MaxSize] /\ DOMAIN NoLevels = {}
    BY DEF NoLevels
  <2>2. {} \in SUBSET Prices
    OBVIOUS
  <2> QED BY <2>1, <2>2, LevelsBy
<1> QED BY <1>1 DEF EmptyBook, Books, IsCrossed

-----------------------------------------------------------------------------
(* The steps keep the invariant. *)

\* A message sent is the last, and carries the exchange's book of then.
LEMMA SendKeeps ==
    ASSUME BookInv, NEW m \in Messages, wire' = Append(wire, m), m.after = market',
           market' \in Books, ~IsCrossed(market'),
           snapshotSent' \in BOOLEAN, UNCHANGED <<dropped, connected, book, ready, alarm>>,
           \/ /\ m.type = "l2update" /\ snapshotSent' = snapshotSent
              /\ market' = Amended(market, m.changes)
           \/ m.type = "snapshot" /\ snapshotSent' /\ ~snapshotSent /\ market' = market
    PROVE  BookInv'
<1> DEFINE n == Len(wire)
<1>1. /\ wire \in Seq(Messages) /\ n \in Nat /\ DOMAIN wire = 1..n
      /\ wire' \in Seq(Messages) /\ DOMAIN wire' = 1..(n + 1) /\ Len(wire') = n + 1
      /\ \A i \in 1..n : wire'[i] = wire[i]
      /\ wire'[n + 1] = m
  BY WireFacts, Sent DEF BookInv
<1> HIDE DEF n
<1>2. \A i \in DOMAIN wire' : i \in 1..n \/ i = n + 1
  BY <1>1
<1>3. TypeOK'
  BY <1>1 DEF BookInv, TypeOK, Messages
<1>4. ~ready \/ m.type = "l2update"
  BY DEF BookInv, UnusableBeforeSnapshot
<1>5. UnusableBeforeSnapshot'
  BY <1>1, <1>2, <1>4 DEF BookInv, UnusableBeforeSnapshot
<1>6. SnapshotOnce'
  <2>1. m.type = "snapshot" => \A i \in 1..n : wire[i].type # "snapshot"
    BY <1>1 DEF BookInv, SnapshotOnce
  <2>2. ~snapshotSent' => dropped = 0 /\ \A i \in DOMAIN wire' : wire'[i].type # "snapshot"
    BY <1>1, <1>2 DEF BookInv, SnapshotOnce
  <2>3. snapshotSent' => ready \/ \E i \in DOMAIN wire' : wire'[i].type = "snapshot"
    <3>1. CASE m.type = "snapshot"
      <4>1. n + 1 \in DOMAIN wire' /\ wire'[n + 1].type = "snapshot"
        BY <1>1, <3>1
      <4> QED BY <4>1
    <3>2. CASE snapshotSent
      <4>1. ready \/ \E i \in 1..n : wire[i].type = "snapshot"
        BY <1>1, <3>2 DEF BookInv, SnapshotOnce
      <4>2. \A i \in 1..n : i \in DOMAIN wire' /\ wire'[i] = wire[i]
        BY <1>1
      <4> QED BY <4>1, <4>2
    <3> QED BY <3>1, <3>2
  <2>4. \A i, k \in DOMAIN wire' :
            wire'[i].type = "snapshot" /\ wire'[k].type = "snapshot" => i = k
    <3> SUFFICES ASSUME NEW i \in DOMAIN wire', NEW k \in DOMAIN wire',
                        wire'[i].type = "snapshot", wire'[k].type = "snapshot"
                 PROVE  i = k
      OBVIOUS
    <3>1. CASE i \in 1..n /\ k \in 1..n
      BY <1>1, <3>1 DEF BookInv, SnapshotOnce
    <3>2. CASE i = n + 1 /\ k \in 1..n
      BY <1>1, <2>1, <3>2
    <3>3. CASE i \in 1..n /\ k = n + 1
      BY <1>1, <2>1, <3>3
    <3> QED BY <1>2, <3>1, <3>2, <3>3
  <2> QED BY <2>2, <2>3, <2>4 DEF SnapshotOnce
<1>7. Uncrossed'
  BY <1>1, <1>2 DEF BookInv, Uncrossed
<1>8. Chain'
  <2> SUFFICES ASSUME dropped = 0, snapshotSent'
               PROVE  /\ \A i \in DOMAIN wire' :
                            Loaded(ready', wire', i) =>
                                wire'[i].after = Amended(Before(book', wire', i), wire'[i].changes)
                      /\ market' = Before(book', wire', n + 2)
    BY <1>1 DEF Chain, Before
  <2>1. market' = Before(book', wire', n + 2)
    <3>1. n + 2 # 1 /\ (n + 2) - 1 = n + 1
      BY <1>1
    <3> QED BY <1>1, <3>1 DEF Before
  <2>2. \A i \in 1..(n + 1) : /\ Before(book', wire', i) = Before(book, wire, i)
                              /\ Loaded(ready', wire', i) = Loaded(ready, wire, i)
    <3> TAKE i \in 1..(n + 1)
    <3>1. i = 1 \/ i - 1 \in 1..n
      BY <1>1
    <3>2. Before(book', wire', i) = Before(book, wire, i)
      BY <1>1, <3>1 DEF Before
    <3>3. \A k \in 1..(i - 1) : wire'[k] = wire[k]
      BY <1>1
    <3> QED BY <3>2, <3>3 DEF Loaded
  <2>3. CASE m.type = "snapshot"
    <3>1. \A i \in 1..(n + 1) : ~Loaded(ready, wire, i)
      BY <1>1, <1>4, <2>3 DEF Loaded, BookInv, SnapshotOnce
    <3> QED BY <1>1, <2>1, <2>2, <3>1
  <2>4. CASE m.type = "l2update"
    <3>1. /\ snapshotSent /\ market' = Amended(market, m.changes)
      BY <2>4
    <3>2. /\ market = Before(book, wire, n + 1)
          /\ \A i \in 1..n : Loaded(ready, wire, i) =>
                               wire[i].after = Amended(Before(book, wire, i), wire[i].changes)
      BY <1>1, <3>1 DEF BookInv, Chain, n
    <3>3. wire'[n + 1].after = Amended(Before(book, wire, n + 1), wire'[n + 1].changes)
      BY <1>1, <3>1, <3>2
    <3>4. \A i \in 1..n : i \in 1..(n + 1)
      BY <1>1
    <3> QED BY <1>1, <1>2, <2>1, <2>2, <3>2, <3>3, <3>4
  <2> QED BY <2>3, <2>4
<1>9. NoFalseAlarm'
  BY DEF BookInv, NoFalseAlarm
<1> QED BY <1>3, <1>5, <1>6, <1>7, <1>8, <1>9 DEF BookInv

LEMMA UpdateKeeps ==
    ASSUME BookInv, Update
    PROVE  BookInv'
<1>1. PICK changes \in Batches :
          /\ market' = Amended(market, changes) /\ ~IsCrossed(market')
          /\ wire' = Append(wire, [type |-> "l2update", changes |-> changes, after |-> market'])
          /\ UNCHANGED <<snapshotSent, dropped, connected, book, ready, alarm>>
  BY DEF Update
<1> DEFINE m == [type |-> "l2update", changes |-> changes, after |-> market']
<1>2. market' \in Books
  BY <1>1, WireFacts, BatchIsAmendment, BatchesAreSequences DEF BookInv
<1>3. m \in Messages
  BY <1>2, MessageFacts
<1>4. m.type = "l2update" /\ m.after = market' /\ m.changes = changes
  OBVIOUS
<1>5. snapshotSent \in BOOLEAN
  BY DEF BookInv, TypeOK
<1> HIDE DEF m
<1>6. wire' = Append(wire, m)
  BY <1>1 DEF m
<1> QED BY <1>1, <1>2, <1>3, <1>4, <1>5, <1>6, SendKeeps

LEMMA SnapshotKeeps ==
    ASSUME BookInv, Snapshot
    PROVE  BookInv'
<1> DEFINE m == [type |-> "snapshot", changes |-> << >>, after |-> market]
<1>1. /\ wire' = Append(wire, m) /\ ~snapshotSent /\ snapshotSent' /\ snapshotSent' \in BOOLEAN
      /\ UNCHANGED <<market, dropped, connected, book, ready, alarm>>
  BY DEF Snapshot
<1>2. market' \in Books /\ ~IsCrossed(market') /\ m \in Messages
  BY <1>1, WireFacts, MessageFacts DEF BookInv, Uncrossed
<1>3. m.type = "snapshot" /\ m.after = market'
  BY <1>1
<1> HIDE DEF m
<1> QED BY <1>1, <1>2, <1>3, SendKeeps

\* Losses are told after a snapshot, and then nothing is promised.
LEMMA DropUpdateKeeps ==
    ASSUME BookInv, DropUpdate
    PROVE  BookInv'
<1>1. /\ market' \in Books /\ ~IsCrossed(market')
      /\ UNCHANGED <<snapshotSent, wire, connected, book, ready, alarm>>
      /\ dropped \in 0..MaxDrops /\ MaxDrops \in Nat
      /\ IF snapshotSent THEN dropped < MaxDrops /\ dropped' = dropped + 1
                         ELSE dropped' = dropped
  BY OrderBookAssumption DEF DropUpdate, BookInv, TypeOK
<1>2. dropped' \in 0..MaxDrops
  BY <1>1
<1>3. dropped' = 0 => ~snapshotSent
  BY <1>1
<1>4. TypeOK'
  BY <1>1, <1>2 DEF BookInv, TypeOK
<1>5. SnapshotOnce' /\ UnusableBeforeSnapshot'
  BY <1>1 DEF BookInv, SnapshotOnce, UnusableBeforeSnapshot
<1>6. Uncrossed'
  BY <1>1 DEF BookInv, Uncrossed
<1>7. Chain'
  BY <1>1, <1>3 DEF Chain
<1>8. NoFalseAlarm'
  BY <1>1, <1>2 DEF BookInv, NoFalseAlarm
<1> QED BY <1>4, <1>5, <1>6, <1>7, <1>8 DEF BookInv

\* What handling the first message makes of the book: the exchange's book of when
\* it was sent, if nothing was lost.
LEMMA ReceiveDelivers ==
    ASSUME BookInv, Receive
    PROVE  /\ wire[1].type = "snapshot" \/ wire[1].type = "l2update"
           /\ wire[1].type = "snapshot" =>
                /\ snapshotSent /\ ~ready
                /\ \A i \in 1..(Len(wire) - 1) : wire[i + 1].type # "snapshot"
           /\ book' \in Books /\ ready' \in BOOLEAN /\ alarm' \in BOOLEAN
           /\ ready' = (ready \/ wire[1].type = "snapshot")
           /\ ~ready' => book' = book
           /\ dropped = 0 /\ snapshotSent /\ ready' => book' = wire[1].after
           /\ alarm' => alarm \/ (ready /\ ready' /\ IsCrossed(book'))
<1> DEFINE n == Len(wire)
           m == wire[1]
<1>1. /\ wire \in Seq(Messages) /\ n \in Nat /\ n >= 1 /\ DOMAIN wire = 1..n
      /\ Head(wire) = m /\ m \in Messages /\ wire' = Tail(wire)
      /\ wire' \in Seq(Messages) /\ Len(wire') = n - 1 /\ DOMAIN wire' = 1..(n - 1)
      /\ \A i \in 1..(n - 1) : wire'[i] = wire[i + 1]
  BY WireFacts, Taken DEF BookInv, Receive
<1>2. /\ UNCHANGED <<market, snapshotSent, dropped, connected>> /\ connected
      /\ \/ m.type = "snapshot" /\ HandleSnapshot(m)
         \/ m.type = "l2update" /\ HandleUpdate(m)
  BY <1>1 DEF Receive
<1>3. /\ market \in Books /\ book \in Books /\ m.after \in Books
      /\ m.changes \in Seq(Changes) /\ ready \in BOOLEAN /\ alarm \in BOOLEAN
  BY <1>1, WireFacts, MessageFacts DEF BookInv, TypeOK
<1>4. \A i \in 1..(n - 1) : i + 1 \in 1..n /\ i + 1 # 1
  BY <1>1
<1>5. 1 \in 1..n
  BY <1>1
<1> HIDE DEF n, m
<1>6. dropped = 0 /\ snapshotSent =>
        /\ \A i \in 1..n : Loaded(ready, wire, i) =>
                             wire[i].after = Amended(Before(book, wire, i), wire[i].changes)
        /\ market = Before(book, wire, n + 1)
  BY <1>1 DEF BookInv, Chain, n
<1>7. dropped = 0 /\ snapshotSent /\ ready => Applied(book, m.changes) = m.after
  <2> SUFFICES ASSUME dropped = 0, snapshotSent, ready PROVE Applied(book, m.changes) = m.after
    OBVIOUS
  <2>1. Loaded(ready, wire, 1) /\ Before(book, wire, 1) = book
    BY DEF Loaded, Before
  <2>2. m.after = Amended(book, m.changes)
    BY <1>5, <1>6, <2>1 DEF m
  <2> QED BY <1>3, <2>2, BatchIsAmendment
<1>8. m.type = "snapshot" =>
        snapshotSent /\ ~ready /\ \A i \in 1..(n - 1) : wire[i + 1].type # "snapshot"
  <2> SUFFICES ASSUME m.type = "snapshot"
               PROVE  snapshotSent /\ ~ready /\ \A i \in 1..(n - 1) : wire[i + 1].type # "snapshot"
    OBVIOUS
  <2>1. \A i \in 1..n : wire[i].type = "snapshot" => i = 1
    BY <1>1, <1>5 DEF BookInv, SnapshotOnce, m
  <2> QED BY <1>1, <1>4, <1>5, <2>1 DEF BookInv, SnapshotOnce, UnusableBeforeSnapshot, m
\* What there is of the book after the step.
<1>9. /\ book' \in Books /\ ready' \in BOOLEAN /\ alarm' \in BOOLEAN
      /\ ready' = (ready \/ m.type = "snapshot")
      /\ ~ready' => book' = book
      /\ dropped = 0 /\ snapshotSent /\ ready' => book' = m.after
      /\ alarm' => alarm \/ (ready /\ ready' /\ IsCrossed(book'))
  <2>1. CASE m.type = "snapshot" /\ HandleSnapshot(m)
    BY <1>3, <2>1 DEF HandleSnapshot, ApplySnapshot
  <2>2. CASE m.type = "l2update" /\ HandleUpdate(m)
    <3>1. Applied(book, m.changes) \in Books
      BY <1>3, BatchIsAmendment
    <3>2. /\ book' = IF ready THEN Applied(book, m.changes) ELSE book
          /\ alarm' = (ready /\ IsCrossed(book')) /\ ready' = ready
          /\ m.type # "snapshot"
      BY <2>2 DEF HandleUpdate, ApplyUpdates
    <3>3. alarm' \in BOOLEAN
      BY <3>2
    <3> QED BY <1>3, <1>7, <3>1, <3>2, <3>3
  <2> QED BY <1>2, <2>1, <2>2
<1> QED BY <1>2, <1>8, <1>9 DEF m, n

\* What TypeOK and Chain say when a message is received: those left are one place
\* nearer.
LEMMA ReceiveFacts ==
    ASSUME BookInv, Receive
    PROVE  /\ wire \in Seq(Messages) /\ wire # << >> /\ Len(wire) \in Nat /\ Len(wire) >= 1
           /\ DOMAIN wire = 1..Len(wire) /\ wire[1] \in Messages /\ Head(wire) = wire[1]
           /\ wire' = Tail(wire) /\ wire' \in Seq(Messages)
           /\ Len(wire') = Len(wire) - 1 /\ DOMAIN wire' = 1..(Len(wire) - 1)
           /\ \A i \in 1..(Len(wire) - 1) : wire'[i] = wire[i + 1]
           /\ UNCHANGED <<market, snapshotSent, dropped, connected>> /\ connected
  BY WireFacts, Taken DEF BookInv, Receive

LEMMA ReceiveKeeps ==
    ASSUME BookInv, Receive
    PROVE  BookInv'
<1> DEFINE n == Len(wire)
           m == wire[1]
<1>1. /\ wire \in Seq(Messages) /\ n \in Nat /\ n >= 1 /\ DOMAIN wire = 1..n
      /\ wire' = Tail(wire)
      /\ wire' \in Seq(Messages) /\ Len(wire') = n - 1 /\ DOMAIN wire' = 1..(n - 1)
      /\ \A i \in 1..(n - 1) : wire'[i] = wire[i + 1]
  BY ReceiveFacts
<1>2. UNCHANGED <<market, snapshotSent, dropped, connected>> /\ connected
  BY ReceiveFacts
<1>3. \A i \in 1..(n - 1) : i + 1 \in 1..n /\ i + 1 # 1
  BY <1>1
<1>4. 1 \in 1..n
  BY <1>1
<1>5. /\ m.type = "snapshot" \/ m.type = "l2update"
      /\ m.type = "snapshot" =>
            snapshotSent /\ ~ready /\ \A i \in 1..(n - 1) : wire[i + 1].type # "snapshot"
  BY ReceiveDelivers
<1>6. /\ book' \in Books /\ ready' \in BOOLEAN /\ alarm' \in BOOLEAN
      /\ ready' = (ready \/ m.type = "snapshot")
      /\ ~ready' => book' = book
      /\ dropped = 0 /\ snapshotSent /\ ready' => book' = m.after
      /\ alarm' => alarm \/ (ready /\ ready' /\ IsCrossed(book'))
  BY ReceiveDelivers
<1> HIDE DEF n, m
<1>7. dropped = 0 /\ snapshotSent =>
        /\ \A i \in 1..n : Loaded(ready, wire, i) =>
                wire[i].after = Amended(Before(book, wire, i), wire[i].changes)
        /\ market = Before(book, wire, n + 1)
  BY <1>1 DEF BookInv, Chain, n
<1>8. TypeOK'
  BY <1>1, <1>2, <1>6 DEF BookInv, TypeOK, Messages
<1>9. UnusableBeforeSnapshot'
  <2>1. ready => snapshotSent /\ \A i \in 1..n : wire[i].type # "snapshot"
    BY <1>1 DEF BookInv, UnusableBeforeSnapshot
  <2>2. ready' => snapshotSent' /\ \A i \in DOMAIN wire' : wire'[i].type # "snapshot"
    BY <1>1, <1>2, <1>3, <1>5, <1>6, <2>1
  <2> QED BY <1>2, <1>6, <2>2 DEF BookInv, UnusableBeforeSnapshot
<1>10. SnapshotOnce'
  <2>1. ~snapshotSent' => dropped' = 0 /\ \A i \in DOMAIN wire' : wire'[i].type # "snapshot"
    BY <1>1, <1>2, <1>3 DEF BookInv, SnapshotOnce
  <2>2. snapshotSent' => ready' \/ \E i \in DOMAIN wire' : wire'[i].type = "snapshot"
    <3> SUFFICES ASSUME snapshotSent, ~ready, m.type # "snapshot"
                 PROVE  \E i \in DOMAIN wire' : wire'[i].type = "snapshot"
      BY <1>2, <1>6
    <3>1. PICK i \in 1..n : wire[i].type = "snapshot"
      BY <1>1 DEF BookInv, SnapshotOnce
    <3>2. i - 1 \in 1..(n - 1) /\ (i - 1) + 1 = i
      BY <1>1, <3>1 DEF m
    <3>3. wire'[i - 1] = wire[i]
      BY <1>1, <3>2
    <3> QED BY <1>1, <3>1, <3>2, <3>3
  <2>3. \A i, k \in DOMAIN wire' :
            wire'[i].type = "snapshot" /\ wire'[k].type = "snapshot" => i = k
    <3> SUFFICES ASSUME NEW i \in 1..(n - 1), NEW k \in 1..(n - 1),
                        wire[i + 1].type = "snapshot", wire[k + 1].type = "snapshot"
                 PROVE  i = k
      BY <1>1
    <3>1. i + 1 = k + 1
      BY <1>1, <1>3 DEF BookInv, SnapshotOnce
    <3> QED BY <1>1, <3>1
  <2> QED BY <2>1, <2>2, <2>3 DEF SnapshotOnce
<1>11. Uncrossed'
  BY <1>1, <1>2, <1>3 DEF BookInv, Uncrossed
<1>12. Chain'
  <2> SUFFICES ASSUME dropped = 0, snapshotSent
               PROVE  /\ \A i \in DOMAIN wire' :
                            Loaded(ready', wire', i) =>
                                wire'[i].after = Amended(Before(book', wire', i), wire'[i].changes)
                      /\ market' = Before(book', wire', Len(wire') + 1)
    BY <1>2 DEF Chain
  <2>1. ready' => \A i \in 1..n : Before(book', wire', i) = Before(book, wire, i + 1)
    <3> SUFFICES ASSUME ready', NEW i \in 1..n
                 PROVE  Before(book', wire', i) = Before(book, wire, i + 1)
      OBVIOUS
    <3>1. i + 1 # 1 /\ (i + 1) - 1 = i
      BY <1>1
    <3>2. CASE i = 1
      BY <1>6, <3>1, <3>2 DEF Before, m
    <3>3. CASE i # 1
      <4>1. i - 1 \in 1..(n - 1) /\ (i - 1) + 1 = i
        BY <1>1, <3>3
      <4>2. wire'[i - 1] = wire[i]
        BY <1>1, <4>1
      <4> QED BY <3>1, <3>3, <4>2 DEF Before
    <3> QED BY <3>2, <3>3
  \* With or without a book, what comes after the first two messages is as before.
  <2>2. \A i \in 2..n : Before(book', wire', i) = Before(book, wire, i + 1)
    <3> TAKE i \in 2..n
    <3>1. i # 1 /\ i + 1 # 1 /\ (i + 1) - 1 = i /\ i - 1 \in 1..(n - 1) /\ (i - 1) + 1 = i
      BY <1>1
    <3>2. wire'[i - 1] = wire[i]
      BY <1>1, <3>1
    <3> QED BY <3>1, <3>2 DEF Before
  <2>3. \A i \in 1..(n - 1) : Loaded(ready', wire', i) =>
            Loaded(ready, wire, i + 1) /\ Before(book', wire', i) = Before(book, wire, i + 1)
    <3> SUFFICES ASSUME NEW i \in 1..(n - 1), Loaded(ready', wire', i)
                 PROVE  /\ Loaded(ready, wire, i + 1)
                        /\ Before(book', wire', i) = Before(book, wire, i + 1)
      OBVIOUS
    <3>1. i \in 1..n /\ (i + 1) - 1 = i /\ 1 \in 1..i
      BY <1>1
    <3>2. CASE ready'
      BY <1>6, <2>1, <3>1, <3>2 DEF Loaded, m
    <3>3. CASE ~ready'
      <4>1. PICK k \in 1..(i - 1) : wire'[k].type = "snapshot"
        BY <3>3 DEF Loaded
      <4>2. k \in 1..(n - 1) /\ k + 1 \in 1..i /\ i \in 2..n
        BY <1>1
      <4>3. wire[k + 1].type = "snapshot"
        BY <1>1, <4>1, <4>2
      <4> QED BY <2>2, <3>1, <4>2, <4>3 DEF Loaded
    <3> QED BY <3>2, <3>3
  <2>4. \A i \in DOMAIN wire' :
            Loaded(ready', wire', i) =>
                                wire'[i].after = Amended(Before(book', wire', i), wire'[i].changes)
    BY <1>1, <1>3, <1>7, <2>3
  <2>5. market' = Before(book', wire', n)
    <3>1. CASE n = 1
      <4>1. ready'
        <5>1. ready \/ \E i \in 1..n : wire[i].type = "snapshot"
          BY <1>1 DEF BookInv, SnapshotOnce
        <5>2. \A i \in 1..n : i = 1
          BY <3>1
        <5>3. ready \/ m.type = "snapshot"
          BY <5>1, <5>2 DEF m
        <5> QED BY <1>6, <5>3
      <4>2. n \in 1..n
        BY <1>1
      <4> QED BY <1>2, <1>7, <2>1, <4>1, <4>2
    <3>2. CASE n # 1
      <4>1. n \in 2..n
        BY <1>1, <3>2
      <4> QED BY <1>2, <1>7, <2>2, <4>1
    <3> QED BY <3>1, <3>2
  <2>6. Len(wire') + 1 = n
    BY <1>1
  <2> QED BY <2>4, <2>5, <2>6
<1>13. NoFalseAlarm'
  <2> SUFFICES ASSUME alarm', ~(dropped > 0) PROVE FALSE
    BY <1>2 DEF NoFalseAlarm
  <2>1. dropped = 0
    BY DEF BookInv, TypeOK
  <2>2. ready /\ ready' /\ IsCrossed(book')
    BY <1>6 DEF BookInv, NoFalseAlarm
  <2>3. snapshotSent
    BY <2>2 DEF BookInv, UnusableBeforeSnapshot
  <2>4. book' = m.after
    BY <1>6, <2>1, <2>2, <2>3
  <2> QED BY <1>1, <1>4, <2>2, <2>4 DEF BookInv, Uncrossed, m
<1> QED BY <1>8, <1>9, <1>10, <1>11, <1>12, <1>13 DEF BookInv

LEMMA ConnectKeeps ==
    ASSUME BookInv, Connect
    PROVE  BookInv'
<1>1. UNCHANGED <<market, snapshotSent, dropped, wire, book, ready, alarm>> /\ connected'
      /\ connected' \in BOOLEAN
  BY DEF Connect
<1>2. TypeOK'
  BY <1>1 DEF BookInv, TypeOK
<1>3. SnapshotOnce' /\ UnusableBeforeSnapshot' /\ NoFalseAlarm'
  BY <1>1 DEF BookInv, SnapshotOnce, UnusableBeforeSnapshot, NoFalseAlarm
<1>4. Uncrossed' /\ Chain'
  BY <1>1 DEF BookInv, Uncrossed, Chain
<1> QED BY <1>2, <1>3, <1>4 DEF BookInv

\* Nothing in flight, no book, no losses told: as it was before the connection.
LEMMA EmptyKeeps ==
    ASSUME market \in Books, ~IsCrossed(market), connected \in BOOLEAN, wire = << >>,
           ~snapshotSent, snapshotSent \in BOOLEAN, dropped = 0,
           book = EmptyBook, ready = FALSE, alarm = FALSE
    PROVE  BookInv
<1>1. DOMAIN wire = {} /\ dropped \in 0..MaxDrops /\ wire \in Seq(Messages)
  BY OrderBookAssumption
<1>2. TypeOK
  BY <1>1, EmptyFacts, Zenon DEF TypeOK, Messages
<1>3. SnapshotOnce /\ UnusableBeforeSnapshot /\ Uncrossed /\ Chain /\ NoFalseAlarm
  BY <1>1 DEF SnapshotOnce, UnusableBeforeSnapshot, Uncrossed, Chain, NoFalseAlarm
<1> QED BY <1>2, <1>3 DEF BookInv

LEMMA DisconnectKeeps ==
    ASSUME BookInv, Disconnect
    PROVE  BookInv'
<1>1. /\ market' \in Books /\ ~IsCrossed(market') /\ connected' \in BOOLEAN /\ wire' = << >>
      /\ ~snapshotSent' /\ snapshotSent' \in BOOLEAN /\ dropped' = 0
      /\ book' = EmptyBook /\ ready' = FALSE /\ alarm' = FALSE
  BY DEF BookInv, TypeOK, Uncrossed, Disconnect, Reset
<1>2. DOMAIN wire' = {} /\ dropped' \in 0..MaxDrops /\ wire' \in Seq(Messages)
  BY <1>1, OrderBookAssumption
<1>3. TypeOK'
  BY <1>1, <1>2, EmptyFacts, Zenon DEF TypeOK, Messages
<1>4. SnapshotOnce' /\ UnusableBeforeSnapshot' /\ Uncrossed' /\ Chain' /\ NoFalseAlarm'
  BY <1>1, <1>2 DEF SnapshotOnce, UnusableBeforeSnapshot, Uncrossed, Chain, NoFalseAlarm
<1> QED BY <1>3, <1>4 DEF BookInv

LEMMA Invariance == Spec => []BookInv
<1>1. ASSUME Init PROVE BookInv
  BY <1>1, EmptyFacts, EmptyKeeps DEF Init
<1>2. ASSUME BookInv, [Next]_vars PROVE BookInv'
  <2>1. CASE UNCHANGED vars
    <3>1. UNCHANGED <<market, snapshotSent, dropped, wire, connected, book, ready, alarm>>
      BY <2>1 DEF vars
    <3>2. TypeOK'
      BY <1>2, <3>1 DEF BookInv, TypeOK
    <3>3. SnapshotOnce' /\ UnusableBeforeSnapshot' /\ NoFalseAlarm'
      BY <1>2, <3>1 DEF BookInv, SnapshotOnce, UnusableBeforeSnapshot, NoFalseAlarm
    <3>4. Uncrossed' /\ Chain'
      BY <1>2, <3>1 DEF BookInv, Uncrossed, Chain
    <3> QED BY <3>2, <3>3, <3>4 DEF BookInv
  <2>2. CASE Next
    BY <1>2, <2>2, UpdateKeeps, DropUpdateKeeps, SnapshotKeeps, ReceiveKeeps, ConnectKeeps,
       DisconnectKeeps DEF Next
  <2> QED BY <1>2, <2>1, <2>2
<1> QED BY <1>1, <1>2, PTL DEF Spec

-----------------------------------------------------------------------------
(* The theorems. *)

\* The book, the exchange's book and every message have the shape they should.
THEOREM BookTypeCorrect == Spec => []TypeOK
<1>1. BookInv => TypeOK
  BY DEF BookInv
<1> QED BY <1>1, Invariance, PTL

\* OrderBook.apply_updates and reset: a book that is not ready is empty, and one
\* that is comes from a snapshot of this connection.
THEOREM QuotesAreWithheld == Spec => []UnusableBeforeSnapshot
<1>1. BookInv => UnusableBeforeSnapshot
  BY DEF BookInv
<1> QED BY <1>1, Invariance, PTL

\* OrderBook.quote raises CrossedBookError only when a change was lost.
THEOREM AlarmMeansLoss == Spec => []NoFalseAlarm
<1>1. BookInv => NoFalseAlarm
  BY DEF BookInv
<1> QED BY <1>1, Invariance, PTL

\* With what is in flight, a ready book that lost nothing ends at the market.
LEMMA PendingIsMarket ==
    ASSUME BookInv, ready, dropped = 0
    PROVE  Pending = market
<1> DEFINE n == Len(wire)
           Handles(f) == f = [i \in 0..n |-> IF i = 0 THEN book
                                             ELSE Applied(f[i - 1], wire[i].changes)]
           after == [i \in 0..n |-> Before(book, wire, i + 1)]
<1>1. n \in Nat /\ DOMAIN wire = 1..n /\ \A i \in 1..n : wire[i] \in Messages
  BY WireFacts DEF BookInv
<1>2. \A i \in 1..n : wire[i].after \in Books /\ wire[i].changes \in Seq(Changes)
  BY <1>1, MessageFacts
<1>3. book \in Books
  BY DEF BookInv, TypeOK
<1> HIDE DEF n
<1>4. /\ \A i \in 1..n : wire[i].after = Amended(Before(book, wire, i), wire[i].changes)
      /\ market = Before(book, wire, n + 1)
  BY <1>1 DEF BookInv, UnusableBeforeSnapshot, Chain, Loaded, n
<1>5. \A i \in 1..n : /\ i # 0 /\ i - 1 \in 0..n /\ (i - 1) + 1 = i /\ i + 1 # 1
                      /\ (i + 1) - 1 = i /\ i \in 0..n
                      /\ i # 1 => i - 1 \in 1..n
  BY <1>1
<1>6. \A i \in 1..n : Before(book, wire, i) \in Books
  BY <1>2, <1>3, <1>5 DEF Before
<1>7. \A i \in 1..n : Before(book, wire, i + 1) = Applied(Before(book, wire, i), wire[i].changes)
  <2> TAKE i \in 1..n
  <2>1. Before(book, wire, i + 1) = wire[i].after
    BY <1>5 DEF Before
  <2> QED BY <1>2, <1>4, <1>6, <2>1, BatchIsAmendment
<1>8. Before(book, wire, 0 + 1) = book
  BY DEF Before
<1>9. Handles(after)
  <2>1. \A i \in 0..n : after[i] = IF i = 0 THEN book ELSE Applied(after[i - 1], wire[i].changes)
    <3> SUFFICES ASSUME NEW i \in 0..n, i # 0
                 PROVE  after[i] = Applied(after[i - 1], wire[i].changes)
      BY <1>8
    <3>1. i \in 1..n
      BY <1>1
    <3> QED BY <1>5, <1>7, <3>1
  <2> QED BY <2>1
\* Pending follows the same recursion, and so does the same.
<1>10. ASSUME NEW f, Handles(f) PROVE f[n] = after[n]
  <2> DEFINE G == {i \in 0..n : f[i] = after[i]}
  <2>1. 0 \in G
    BY <1>1, <1>8, <1>10
  <2>2. ASSUME NEW i \in 1..n, i - 1 \in G PROVE i \in G
    <3>1. /\ f[i] = Applied(f[i - 1], wire[i].changes)
          /\ after[i] = Applied(after[i - 1], wire[i].changes)
      <4>1. i \in 0..n /\ i # 0
        BY <1>5
      <4> HIDE DEF after
      <4> QED BY <1>9, <1>10, <4>1
    <3> HIDE DEF after
    <3> QED BY <1>5, <2>2, <3>1
  <2> HIDE DEF G
  <2>3. n \in G
    <3>1. \A i \in 0..n : i \in G
      BY <1>1, <2>1, <2>2, Induct
    <3> QED BY <1>1, <3>1
  <2> QED BY <2>3 DEF G
<1>11. \E f : Handles(f) /\ Pending = f[n]
  <2> DEFINE f == CHOOSE f : Handles(f)
  <2>1. Pending = f[n]
    BY Zenon DEF Pending, n
  <2>2. Handles(f)
    <3> HIDE DEF after
    <3> QED BY <1>9
  <2> HIDE DEF f
  <2> QED BY <2>1, <2>2
<1>12. after[n] = market
  BY <1>1, <1>4
<1> QED BY <1>10, <1>11, <1>12

\* MessageHandler's book, once it has handled what is in flight, is the exchange's
\* book, level by level and size by size, if no change was lost since its snapshot.
THEOREM BookFollowsMarket == Spec => []BookIsMarket
<1>1. BookInv => BookIsMarket
  BY PendingIsMarket DEF BookIsMarket
<1> QED BY <1>1, Invariance, PTL

-----------------------------------------------------------------------------
(* The refinement: BookReplica. *)

\* The exchange's books that messages in flight carry.
Afters(q) == [i \in DOMAIN q |-> q[i].after]

LEMMA AftersOf ==
    ASSUME NEW q \in Seq(Messages)
    PROVE  /\ Afters(q) \in Seq(Books) /\ Len(Afters(q)) = Len(q) /\ Len(q) \in Nat
           /\ \A i \in 1..Len(q) : Afters(q)[i] = q[i].after
<1> DEFINE n == Len(q)
<1>1. n \in Nat /\ DOMAIN q = 1..n /\ \A i \in 1..n : q[i] \in Messages
  OBVIOUS
<1> HIDE DEF n
<1>2. \A i \in 1..n : q[i].after \in Books
  BY <1>1, MessageFacts
<1>3. Afters(q) = [i \in 1..n |-> q[i].after]
  BY <1>1 DEF Afters
<1>4. Afters(q) \in [1..n -> Books]
  BY <1>2, <1>3
<1>5. \A f \in [1..n -> Books] : f \in Seq(Books) /\ Len(f) = n
  BY <1>1
<1> QED BY <1>1, <1>3, <1>4, <1>5 DEF n

\* A book sent is put behind the others, and one received taken from their front.
LEMMA AftersSent ==
    ASSUME NEW q \in Seq(Messages), NEW m \in Messages
    PROVE  Afters(Append(q, m)) = Append(Afters(q), m.after)
<1> DEFINE n == Len(q)
           s == Afters(Append(q, m))
           t == Append(Afters(q), m.after)
<1>1. /\ n \in Nat /\ Append(q, m) \in Seq(Messages) /\ Len(Append(q, m)) = n + 1
      /\ \A i \in 1..n : Append(q, m)[i] = q[i]
      /\ Append(q, m)[n + 1] = m
  BY Sent
<1>2. /\ Afters(q) \in Seq(Books) /\ Len(Afters(q)) = n /\ m.after \in Books
      /\ \A i \in 1..n : Afters(q)[i] = q[i].after
  BY AftersOf, MessageFacts
<1>3. s \in Seq(Books) /\ Len(s) = n + 1 /\ \A i \in 1..(n + 1) : s[i] = Append(q, m)[i].after
  BY <1>1, AftersOf
<1>4. /\ t \in Seq(Books) /\ Len(t) = n + 1 /\ t[n + 1] = m.after
      /\ \A i \in 1..n : t[i] = Afters(q)[i]
  BY <1>2, AppendProperties
<1> HIDE DEF n, s, t
<1>5. \A i \in 1..(n + 1) : i = n + 1 \/ i \in 1..n
  BY <1>1
<1>6. \A i \in 1..(n + 1) : s[i] = t[i]
  BY <1>1, <1>2, <1>3, <1>4, <1>5
<1>7. s = t
  BY <1>3, <1>4, <1>6, SeqEqual
<1> QED BY <1>7 DEF s, t

LEMMA AftersTaken ==
    ASSUME NEW q \in Seq(Messages), q # << >>
    PROVE  /\ Afters(q) # << >> /\ Head(Afters(q)) = q[1].after
           /\ Afters(Tail(q)) = Tail(Afters(q))
<1> DEFINE n == Len(q)
           s == Afters(Tail(q))
           t == Tail(Afters(q))
<1>1. /\ n \in Nat /\ n >= 1 /\ Tail(q) \in Seq(Messages) /\ Len(Tail(q)) = n - 1
      /\ \A i \in 1..(n - 1) : Tail(q)[i] = q[i + 1]
  BY Taken
<1>2. /\ Afters(q) \in Seq(Books) /\ Len(Afters(q)) = n
      /\ \A i \in 1..n : Afters(q)[i] = q[i].after
  BY AftersOf
<1>3. Afters(q) # << >> /\ Head(Afters(q)) = Afters(q)[1]
  BY <1>1, <1>2
<1>4. s \in Seq(Books) /\ Len(s) = n - 1 /\ \A i \in 1..(n - 1) : s[i] = Tail(q)[i].after
  BY <1>1, AftersOf
<1>5. t \in Seq(Books) /\ Len(t) = n - 1 /\ \A i \in 1..(n - 1) : t[i] = Afters(q)[i + 1]
  BY <1>2, <1>3, HeadTailProperties
<1> HIDE DEF n, s, t
<1>6. \A i \in 1..(n - 1) : s[i] = t[i]
  <2>1. \A i \in 1..(n - 1) : i + 1 \in 1..n
    BY <1>1
  <2> QED BY <1>1, <1>2, <1>4, <1>5, <2>1
<1>7. s = t
  BY <1>4, <1>5, <1>6, SeqEqual
<1>8. 1 \in 1..n
  BY <1>1
<1> QED BY <1>2, <1>3, <1>7, <1>8 DEF s, t

\* A step of the replica that OrderBook implements, or none.
Step == [Replica!Next]_(Replica!vars)

\* What is served, and what is still to come, before and after a step.
LEMMA ServedFacts ==
    ASSUME BookInv, BookInv'
    PROVE  /\ book # NoBook /\ book' # NoBook /\ market \in Books /\ market' \in Books
           /\ Promised => ready /\ snapshotSent /\ dropped = 0
           /\ Promised' => ready' /\ snapshotSent' /\ dropped' = 0
  BY OrderBookAssumption DEF BookInv, TypeOK, UnusableBeforeSnapshot, Promised

LEMMA UpdateMoves ==
    ASSUME BookInv, BookInv', Update
    PROVE  Step
<1>1. PICK changes \in Batches :
          /\ wire' = Append(wire, [type |-> "l2update", changes |-> changes, after |-> market'])
          /\ UNCHANGED <<snapshotSent, dropped, connected, book, ready, alarm>>
  BY DEF Update
<1> DEFINE m == [type |-> "l2update", changes |-> changes, after |-> market']
<1>2. m \in Messages /\ m.after = market' /\ wire \in Seq(Messages)
  BY ServedFacts, MessageFacts, WireFacts DEF BookInv
<1> HIDE DEF m
<1>3. Afters(wire') = Append(Afters(wire), market')
  BY <1>1, <1>2, AftersSent DEF m
<1>4. Promised' = Promised /\ book' = book
  BY <1>1 DEF Promised
<1>5. Replica!Move(market')
  <2>1. CASE Promised
    BY <1>3, <1>4, <2>1, ServedFacts DEF Replica!Move, Afters
  <2>2. CASE ~Promised
    BY <1>4, <2>2 DEF Replica!Move
  <2> QED BY <2>1, <2>2
<1> QED BY <1>5, ServedFacts DEF Step, Replica!Next

\* Nothing is promised after the step.
LEMMA Withdraws ==
    ASSUME BookInv, BookInv', ~Promised'
    PROVE  Step
<1>1. Replica!Withdraw
  BY ServedFacts DEF Replica!Withdraw
<1> QED BY <1>1 DEF Step, Replica!Next

LEMMA ReceiveFollows ==
    ASSUME BookInv, BookInv', Receive
    PROVE  Step
<1>1. /\ wire \in Seq(Messages) /\ wire # << >> /\ wire' = Tail(wire)
      /\ wire' \in Seq(Messages) /\ Len(wire') \in Nat
      /\ UNCHANGED <<market, snapshotSent, dropped, connected>>
  BY ReceiveFacts, WireFacts, AftersOf
<1>2. /\ dropped = 0 /\ snapshotSent /\ ready' => book' = wire[1].after
      /\ book' \in Books
  BY ReceiveDelivers
<1>3. CASE Promised /\ Promised'
  <2>1. book' = Head(Afters(wire)) /\ Afters(wire') = Tail(Afters(wire)) /\ Afters(wire) # << >>
    BY <1>1, <1>2, <1>3, ServedFacts, AftersTaken
  <2>2. Replica!Follow
    BY <1>1, <1>3, <2>1, ServedFacts DEF Replica!Follow, Afters
  <2> QED BY <2>2 DEF Step, Replica!Next
<1>4. CASE ~Promised /\ Promised'
  <2>1. /\ Afters(wire') \in Seq(Books) /\ Len(Afters(wire')) = Len(wire')
        /\ \A i \in 1..Len(wire') : Afters(wire')[i] = wire'[i].after
    BY <1>1, AftersOf
  <2>2. market' = Before(book', wire', Len(wire') + 1)
    BY <1>4, ServedFacts DEF BookInv, Chain
  <2>3. market = IF Afters(wire') = << >> THEN book' ELSE Afters(wire')[Len(Afters(wire'))]
    <3>1. CASE Len(wire') = 0
      <4>1. Afters(wire') = << >>
        BY <2>1, <3>1
      <4> QED BY <1>1, <2>2, <3>1, <4>1 DEF Before
    <3>2. CASE Len(wire') # 0
      <4>1. Afters(wire') # << >> /\ Len(wire') \in 1..Len(wire') /\ Len(wire') + 1 # 1
            /\ (Len(wire') + 1) - 1 = Len(wire')
        BY <1>1, <2>1, <3>2
      <4> QED BY <1>1, <2>1, <2>2, <4>1 DEF Before
    <3> QED BY <3>1, <3>2
  <2>4. book' \in Books
    BY <1>2
  <2>5. /\ (IF Promised THEN book ELSE NoBook)' = book'
        /\ (IF Promised THEN [i \in DOMAIN wire |-> wire[i].after] ELSE << >>)' = Afters(wire')
    BY <1>4 DEF Afters
  <2>6. Replica!Next
    BY <1>1, <1>4, <2>1, <2>3, <2>4, <2>5 DEF Replica!Next, Replica!Load
  <2> QED BY <2>6 DEF Step
<1>5. CASE ~Promised'
  BY <1>5, Withdraws
<1> QED BY <1>3, <1>4, <1>5

LEMMA EveryStep ==
    ASSUME BookInv, BookInv', [Next]_vars
    PROVE  Step
<1>1. CASE Update
  BY <1>1, UpdateMoves
<1>2. CASE DropUpdate
  <2>1. ~Promised'
    BY <1>2, OrderBookAssumption DEF DropUpdate, BookInv, TypeOK, UnusableBeforeSnapshot, Promised
  <2> QED BY <2>1, Withdraws
<1>3. CASE Snapshot
  <2>1. ~Promised'
    BY <1>3 DEF Snapshot, BookInv, UnusableBeforeSnapshot, Promised
  <2> QED BY <2>1, Withdraws
<1>4. CASE Receive
  BY <1>4, ReceiveFollows
<1>5. CASE Connect \/ UNCHANGED vars
  <2>1. UNCHANGED <<market, dropped, wire, book, ready>>
    BY <1>5 DEF Connect, vars
  <2> QED BY <2>1 DEF Step, Replica!vars, Promised
<1>6. CASE Disconnect
  <2>1. ~Promised'
    BY <1>6 DEF Disconnect, Reset, Promised
  <2> QED BY <2>1, Withdraws
<1> QED BY <1>1, <1>2, <1>3, <1>4, <1>5, <1>6 DEF Next

\* As long as no change is lost, the book keeps the promise of a replica: it is
\* one the exchange really had, and follows the exchange's books one by one.
THEOREM BookIsReplica == Spec => ReplicaSpec
<1>1. Init => Replica!Init
  BY EmptyFacts DEF Init, Replica!Init, Promised
<1>2. BookInv /\ BookInv' /\ [Next]_vars => Step
  BY EveryStep
<1> QED BY <1>1, <1>2, Invariance, PTL DEF Spec, ReplicaSpec, Replica!Spec, Step
=============================================================================
