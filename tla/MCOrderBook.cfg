\* Two prices are enough for a touch to cross; batches of two changes cross
\* on the way and not at the end.
CONSTANTS
  MaxPrice = 2
  MaxSize = 2
  MaxWire = 1
  MaxBatch = 2
  MaxDrops = 1
  NoBook = NoBook
SPECIFICATION Spec
INVARIANTS TypeOK BookIsMarket NoFalseAlarm UnusableBeforeSnapshot
PROPERTIES ReplicaSpec
