\* ADR 0007: "a book that has drifted will eventually produce bid >= ask".
CONSTANTS
  MaxPrice = 2
  MaxSize = 1
  MaxWire = 1
  MaxBatch = 1
  MaxDrops = 1
  NoBook = NoBook
SPECIFICATION FairSpec
PROPERTIES DriftIsNoticed
