----------------------------- MODULE BookReplica -----------------------------
(***************************************************************************)
(* What an order book consumer promises: the book it serves is a book the  *)
(* exchange really had, it moves through the exchange's books in order and *)
(* skips none, and when it cannot promise this it serves nothing.          *)
(***************************************************************************)
EXTENDS Sequences

CONSTANTS
    Books,    \* the books the exchange can have
    NoBook    \* serving nothing

VARIABLES
    truth,    \* the exchange's book now
    served,   \* the book served
    behind    \* the exchange's books since the one served, oldest first

vars == <<truth, served, behind>>

Init == truth \in Books /\ served = NoBook /\ behind = << >>

\* The exchange's book becomes b.
Move(b) ==
    /\ truth' = b
    /\ behind' = IF served = NoBook THEN behind ELSE Append(behind, b)
    /\ UNCHANGED served

\* The consumer takes up a book b from which the listed ones lead to the truth.
Load(b, newer) ==
    /\ served = NoBook
    /\ truth = IF newer = << >> THEN b ELSE newer[Len(newer)]
    /\ served' = b
    /\ behind' = newer
    /\ UNCHANGED truth

Follow ==
    /\ served # NoBook
    /\ behind # << >>
    /\ served' = Head(behind)
    /\ behind' = Tail(behind)
    /\ UNCHANGED truth

\* The promise is withdrawn, possibly because a move of the exchange was lost.
Withdraw ==
    /\ truth' \in Books
    /\ served' = NoBook
    /\ behind' = << >>

\* `newer` is read off the next state, not enumerated.
Next ==
    \/ Move(truth') /\ truth' \in Books
    \/ Load(served', behind') /\ served' \in Books /\ behind' \in Seq(Books)
    \/ Follow
    \/ Withdraw

Spec == Init /\ [][Next]_vars
=============================================================================
