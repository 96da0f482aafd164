----------------------------- MODULE EventStream -----------------------------
(***************************************************************************)
(* What SerialBatchEventUploader promises its callers, without batches in  *)
(* flight, failures and retries: events are confirmed in the order they    *)
(* were enqueued, none twice, and one is only given up for a reason the    *)
(* source names: it cannot be serialized, the queue is full, its batch     *)
(* used up the failures it may have, or the uploader is closed.            *)
(***************************************************************************)
EXTENDS Integers, Sequences, FiniteSets, SequencesExt, Filtering

CONSTANTS
  Events,             \* the events callers enqueue, all different
  MaxBatch, MaxQueue, \* maxBatchSize, maxQueueSize
  MaxFailures,        \* maxConsecutiveFailures; 0: none
  Unserializable      \* the events that takeBatch drops

VARIABLES
  queue,     \* enqueued, not confirmed, not given up
  confirmed, \* what send() succeeded for, in that order
  accepted,  \* every event that was enqueued
  failures,  \* failed attempts for the head of the queue in a row
  open

streamVars == <<queue, confirmed, accepted, failures, open>>

Init == queue = <<>> /\ confirmed = <<>> /\ accepted = {} /\ failures = 0 /\ open = TRUE

Without(s, D) == Filter(s, LAMBDA e : e \notin D)

\* t is s, where events that cannot be serialized may be missing.
Cleaned(t, s) == \E D \in SUBSET Unserializable : t = Without(s, D)

\* Only what does not fit into a full queue is given up, and the new events stay.
Enqueue(events) ==
  /\ open /\ IsInjective(events) /\ ToSet(events) \cap accepted = {}
  /\ accepted' = accepted \cup ToSet(events)
  /\ \E D \in SUBSET ToSet(queue) :
     /\ D # {} => Cardinality(D) <= Len(queue) + Len(events) - MaxQueue
     /\ Cleaned(queue', Without(queue, D) \o events)
  /\ UNCHANGED <<confirmed, failures, open>>

Rest(n) == SubSeq(queue, n + 1, Len(queue))

Confirm(n) ==
  /\ confirmed' = confirmed \o SubSeq(queue, 1, n)
  /\ Cleaned(queue', Rest(n))
  /\ failures' = 0
  /\ UNCHANGED <<accepted, open>>

\* The last failure a batch may have.
GiveUp(n) ==
  /\ MaxFailures > 0 /\ failures + 1 >= MaxFailures
  /\ Cleaned(queue', Rest(n))
  /\ failures' = 0
  /\ UNCHANGED <<confirmed, accepted, open>>

\* A failed attempt changes nothing else.
Retry == failures' = failures + 1 /\ UNCHANGED <<queue, confirmed, accepted, open>>

Clean ==
  /\ Cleaned(queue', queue) /\ failures' \in {0, failures}
  /\ UNCHANGED <<confirmed, accepted, open>>

\* The batch that is being sent may still be confirmed, or fail.
Close ==
  /\ open /\ open' = FALSE
  /\ \E n \in 0..MaxBatch : queue' = SubSeq(queue, 1, n)
  /\ UNCHANGED <<confirmed, accepted, failures>>

Abandon ==
  /\ ~open /\ queue' = <<>> /\ failures' \in 0..(failures + 1)
  /\ UNCHANGED <<confirmed, accepted, open>>

Next ==
  \/ \E n \in 1..MaxQueue : \E events \in [1..n -> Events] : Enqueue(events)
  \/ \E n \in 1..MaxBatch : n <= Len(queue) /\ (Confirm(n) \/ GiveUp(n))
  \/ Retry \/ Clean \/ Close \/ Abandon

Spec == Init /\ [][Next]_streamVars
=============================================================================
