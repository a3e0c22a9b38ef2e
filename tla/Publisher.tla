------------------------------ MODULE Publisher ------------------------------
(***************************************************************************)
(* PubSubPublisher of ingest/src/consumer/publisher.py for one topic and   *)
(* one ordering key, with as much of the Pub/Sub client as it relies on.   *)
(*                                                                         *)
(* The client sends the messages of a key in order and in batches.  When a *)
(* batch fails the key is paused: what was queued behind it fails too, and *)
(* a publish fails at once until resume_publish.  Each failed future calls *)
(* _on_done in the client's thread: after the pause, or just before it, as *)
(* the client fails the batch's futures and pauses the key in two steps.   *)
(***************************************************************************)
EXTENDS Integers, SequencesExt

CONSTANT MaxFailures  \* bound: batches that fail

ASSUME PublisherAssumption == MaxFailures \in Nat

VARIABLES
    inflight,  \* client: messages published and neither sent nor failed
    failing,   \* client: a batch has failed, its key is not yet paused
    paused,    \* client: the ordering key is paused
    due,       \* client: failed messages whose callback has not run
    stopped,   \* client: stop() was called
    errors,    \* PubSubPublisher.errors_total
    refused,   \* history: messages refused since the key was last paused
    failures,  \* batches that have failed
    live       \* the topic: what this publisher has put on it, oldest first

clientVars == <<inflight, failing, paused, due, stopped, errors, refused>>
publisherVars == <<clientVars, failures, live>>

\* PubSubPublisher.__init__
NewClient ==
    /\ inflight = << >> /\ due = << >>
    /\ failing = FALSE /\ paused = FALSE /\ stopped = FALSE
    /\ errors = 0 /\ refused = 0

PublisherInit == NewClient /\ failures = 0 /\ live = << >>

\* The process is gone, and with it what its client had not sent.
ClientIsGone ==
    /\ inflight' = << >> /\ due' = << >>
    /\ failing' = FALSE /\ paused' = FALSE /\ stopped' = FALSE
    /\ errors' = 0 /\ refused' = 0
    /\ UNCHANGED <<failures, live>>

\* Faults of the callback: the key stays paused; an error is counted only if
\* resume_publish did not raise.
OnDoneForgetsToResume == errors' = errors + 1 /\ UNCHANGED paused
OnDoneResumesFirst ==
    /\ errors' = IF paused /\ ~stopped THEN errors + 1 ELSE errors
    /\ paused' = (paused /\ stopped)

\* _on_done of a failed future.  resume_publish raises on a stopped client and
\* on a key that is not paused; concurrent.futures logs what a callback raises.
OnDone == errors' = errors + 1 /\ paused' = (paused /\ stopped)

\* Fault: the message is queued although the key is paused.
PublishQueuesAnyway(m) ==
    /\ inflight' = Append(inflight, m)
    /\ UNCHANGED <<failing, paused, due, stopped, errors, refused, failures, live>>

\* publish: on a paused key the future has already failed when the callback is
\* added, so that the callback runs here and now.
Publish(m) ==
    \/ /\ ~paused
       /\ inflight' = Append(inflight, m)
       /\ UNCHANGED <<failing, paused, due, stopped, errors, refused, failures, live>>
    \/ /\ paused
       /\ OnDone
       /\ refused' = refused + 1
       /\ UNCHANGED <<inflight, failing, due, stopped, failures, live>>

\* flush: the client's stop().  It commits the batches and does not wait.
StopClient ==
    /\ stopped' = TRUE
    /\ UNCHANGED <<inflight, failing, paused, due, errors, refused, failures, live>>

-----------------------------------------------------------------------------
(* The client's threads. *)

\* A batch of the first k messages is acknowledged.
Send(k) ==
    /\ ~failing
    /\ live' = live \o SubSeq(inflight, 1, k)
    /\ inflight' = SubSeq(inflight, k + 1, Len(inflight))
    /\ UNCHANGED <<failing, paused, due, stopped, errors, refused, failures>>

\* A batch fails, though it may have reached the topic.
Fail(k) ==
    /\ ~failing
    /\ failures < MaxFailures
    /\ failures' = failures + 1
    /\ failing' = TRUE
    /\ due' = due \o SubSeq(inflight, 1, k)
    /\ inflight' = SubSeq(inflight, k + 1, Len(inflight))
    /\ live' \in {live, live \o SubSeq(inflight, 1, k)}
    /\ UNCHANGED <<paused, stopped, errors, refused>>

\* The key is paused, and what was queued behind the failed batch is cancelled.
Pause ==
    /\ failing
    /\ failing' = FALSE
    /\ paused' = TRUE
    /\ refused' = 0
    /\ due' = due \o inflight
    /\ inflight' = << >>
    /\ UNCHANGED <<stopped, errors, failures, live>>

RunCallback ==
    /\ due # << >>
    /\ OnDone
    /\ due' = Tail(due)
    /\ UNCHANGED <<inflight, failing, stopped, refused, failures, live>>

ClientStep ==
    \/ \E k \in 1..Len(inflight) : Send(k) \/ Fail(k)
    \/ Pause
    \/ RunCallback
=============================================================================
