------------------------------- MODULE MCTape -------------------------------
\* Instances of Tape: a lookback of one day stands for lookback_days = 3, and
\* builds differ in nothing but their names.
EXTENDS Tape, TLC

Interchangeable == Permutations(Builds)
=============================================================================
