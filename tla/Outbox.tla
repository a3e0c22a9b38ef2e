------------------------------- MODULE Outbox -------------------------------
(***************************************************************************)
(* What publishing to an ordered topic promises: a message handed over is  *)
(* sent, or counted as an error, or waits; the topic gets the messages in  *)
(* the order they were handed over in; only the end of the process makes   *)
(* it forget messages, and then it forgets its count with them.            *)
(***************************************************************************)
EXTENDS Integers, SequencesExt

VARIABLES
    waiting,  \* messages handed over whose fate is open
    sent,     \* the messages of the topic, oldest first
    errors    \* messages this process has given up and counted

vars == <<waiting, sent, errors>>

Init == waiting = {} /\ sent = << >> /\ errors = 0

Newest(m) == \A n \in waiting \union Range(sent) : n < m

Accept(m) == Newest(m) /\ waiting' = waiting \union {m} /\ UNCHANGED <<sent, errors>>

\* A message that finds the topic closed is given up at once.
Refuse == errors' = errors + 1 /\ UNCHANGED <<waiting, sent>>

Ascending(q) == \A i, k \in DOMAIN q : i < k => q[i] < q[k]

\* Some waiting messages reach the topic, in order.  Those of them that are
\* known to have reached it wait no more.
Settle(reached) ==
    /\ reached # << >> /\ Range(reached) \subseteq waiting
    /\ sent' = sent \o reached /\ Ascending(sent')
    /\ waiting' \subseteq waiting /\ waiting \ waiting' \subseteq Range(reached)
    /\ UNCHANGED errors

GiveUp(m) == waiting' = waiting \ {m} /\ errors' = errors + 1 /\ UNCHANGED sent

Crash == waiting' = {} /\ errors' = 0 /\ UNCHANGED sent

\* The messages accepted or sent are read off the next state, not enumerated.
Next ==
    \/ \E m \in waiting' \ waiting : Accept(m)
    \/ Refuse
    \/ Settle(SubSeq(sent', Len(sent) + 1, Len(sent')))
    \/ \E m \in waiting : GiveUp(m)
    \/ Crash

Spec == Init /\ [][Next]_vars
=============================================================================
