---------------------------- MODULE EventUploader ----------------------------
(***************************************************************************)
(* cli/transports/SerialBatchEventUploader.ts.  An action is what runs     *)
(* between two awaits: a call of enqueue, flush or close, with the drain   *)
(* loop it starts up to its first await, or the drain loop from the end of *)
(* send() or of its sleep to the next.  The server is the caller's send(). *)
(***************************************************************************)
EXTENDS Integers, Sequences, FiniteSets, SequencesExt, Filtering

CONSTANTS
  MaxEvents,    \* bound: events enqueued
  MaxFlushes,   \* bound: calls of flush
  MaxBatch,     \* maxBatchSize
  MaxBytes,     \* maxBatchBytes; 0: undefined
  MaxQueue,     \* maxQueueSize
  MaxFailures,  \* maxConsecutiveFailures; 0: undefined
  Size,         \* the bytes of each event; 0: it cannot be serialized
  Closes        \* may close() be called?

Events == 1..MaxEvents

ASSUME UploaderConstants ==
  /\ MaxEvents \in Nat /\ MaxFlushes \in Nat /\ MaxBytes \in Nat /\ MaxFailures \in Nat
  /\ MaxBatch \in Nat \ {0} /\ MaxQueue \in Nat \ {0}
  /\ Size \in [Events -> Nat] /\ Closes \in BOOLEAN

VARIABLES
  pending,   \* the buffer
  at,        \* the drain loop: idle, sending or sleeping
  batch,     \* what it is sending
  failures,  \* its consecutive failures (0 if they do not count)
  closed,
  waiting,   \* the flush() calls that have not resolved
  flushes,   \* the flush() calls made
  enqueued,  \* the events enqueued: 1..enqueued
  confirmed, \* the batches send() succeeded for, one after the other
  received   \* what the server has, also of requests that failed for the client

drain == <<pending, at, batch, failures>>
server == <<confirmed, received>>
vars == <<drain, closed, waiting, flushes, enqueued, server>>

\* What an uploader still has to send.
Unsent == ToSet(pending) \cup ToSet(batch)
Flush == [call : 1..MaxFlushes, needs : SUBSET Events, late : BOOLEAN]

TypeOK ==
  /\ pending \in Seq(Events) /\ batch \in Seq(Events) /\ Len(batch) <= MaxBatch
  /\ at \in {"idle", "sending", "sleeping"}
  /\ failures \in 0..MaxFailures /\ closed \in BOOLEAN
  /\ waiting \subseteq Flush /\ flushes \in 0..MaxFlushes /\ enqueued \in 0..MaxEvents
  /\ confirmed \in Seq(Events) /\ received \subseteq Events

Init ==
  /\ pending = <<>> /\ at = "idle" /\ batch = <<>> /\ failures = 0
  /\ closed = FALSE /\ waiting = {} /\ flushes = 0 /\ enqueued = 0
  /\ confirmed = <<>> /\ received = {}

-----------------------------------------------------------------------------
(* takeBatch and the drain loop                                            *)

\* Without a byte limit takeBatch does not serialize.
Sendable(e) == MaxBytes = 0 \/ Size[e] > 0
Bytes(s) == FoldLeft(LAMBDA sum, e : sum + Size[e], 0, s)

\* Does takeBatch go on to the j-th event of q?  taken: the batch so far.
Taken(q, j) == Filter(SubSeq(q, 1, j - 1), Sendable)
\* Fault (TypeOK): the count is tested after the item is added.
ScansOneMore(q, j) ==
  LET taken == Taken(q, j)
  IN /\ Len(taken) <= MaxBatch
     /\ \/ MaxBytes = 0 \/ taken = <<>> \/ ~Sendable(q[j])
        \/ Bytes(taken) + Size[q[j]] <= MaxBytes

Scans(q, j) ==
  LET taken == Taken(q, j)
  IN /\ Len(taken) < MaxBatch
     /\ \/ MaxBytes = 0 \/ taken = <<>> \/ ~Sendable(q[j])
        \/ Bytes(taken) + Size[q[j]] <= MaxBytes

\* How far takeBatch goes: the batch is what can be sent before that.
Cut(q) == CHOOSE c \in 0..Len(q) : /\ \A j \in 1..c : Scans(q, j)
                                   /\ c = Len(q) \/ ~Scans(q, c + 1)
Batch(q) == Taken(q, Cut(q) + 1)
Remaining(q) == SubSeq(q, Cut(q) + 1, Len(q))

\* Fault (FlushesEnd): what cannot be serialized stays in the queue.
DrainPoisoned(q, fails, calls) ==
  IF ~closed /\ q # <<>> /\ Sendable(q[1])
  THEN /\ batch' = Batch(q) /\ pending' = Remaining(q)
       /\ at' = "sending" /\ failures' = fails
       /\ waiting' = calls
  ELSE /\ batch' = <<>> /\ pending' = q
       /\ at' = "idle" /\ failures' = 0
       /\ waiting' = IF q = <<>> THEN {} ELSE calls

\* Fault (FlushMeansSent): flush() resolves when the buffer is empty, whatever is
\* in flight.
DrainResolvesEarly(q, fails, calls) ==
  IF ~closed /\ Batch(q) # <<>>
  THEN /\ batch' = Batch(q) /\ pending' = Remaining(q)
       /\ at' = "sending" /\ failures' = fails
       /\ waiting' = IF Remaining(q) = <<>> THEN {} ELSE calls
  ELSE /\ batch' = <<>> /\ pending' = IF closed THEN q ELSE <<>>
       /\ at' = "idle" /\ failures' = 0
       /\ waiting' = IF closed /\ q # <<>> THEN calls ELSE {}

\* The loop of drain() from the top, with the buffer q, to the next send() or to
\* its end.  A batch is empty only if nothing in q could be sent.  calls: the
\* flush() calls waiting.
Drain(q, fails, calls) ==
  IF ~closed /\ Batch(q) # <<>>
  THEN /\ batch' = Batch(q) /\ pending' = Remaining(q)
       /\ at' = "sending" /\ failures' = fails
       /\ waiting' = calls
  ELSE /\ batch' = <<>> /\ pending' = IF closed THEN q ELSE <<>>
       /\ at' = "idle" /\ failures' = 0
       /\ waiting' = IF closed /\ q # <<>> THEN calls ELSE {}

\* drain() is called: it runs only if no drain loop does.
StartDrain(q, calls) ==
  IF at = "idle" /\ ~closed THEN Drain(q, 0, calls)
  ELSE pending' = q /\ waiting' = calls /\ UNCHANGED <<at, batch, failures>>

-----------------------------------------------------------------------------
(* The calls                                                               *)

\* enqueue(n events): the oldest ones make room.
Enqueue(n) ==
  LET new == [i \in 1..n |-> enqueued + i]
      over == Len(pending) + n - MaxQueue
      kept == IF over <= 0 THEN pending ELSE SubSeq(pending, over + 1, Len(pending))
  IN /\ ~closed /\ enqueued + n <= MaxEvents
     /\ enqueued' = enqueued + n
     /\ StartDrain(kept \o new, waiting)
     /\ UNCHANGED <<closed, flushes, server>>

\* flush() that resolves at once, and one that waits.
FlushNow ==
  /\ pending = <<>> /\ at = "idle" /\ flushes < MaxFlushes
  /\ flushes' = flushes + 1
  /\ UNCHANGED <<drain, closed, waiting, enqueued, server>>

FlushWait ==
  /\ pending # <<>> \/ at # "idle"
  /\ flushes < MaxFlushes
  /\ flushes' = flushes + 1
  /\ StartDrain(pending, waiting \cup {[call |-> flushes + 1, needs |-> Unsent, late |-> closed]})
  /\ UNCHANGED <<closed, enqueued, server>>

Close ==
  /\ Closes /\ ~closed
  /\ closed' = TRUE /\ pending' = <<>> /\ waiting' = {}
  /\ UNCHANGED <<at, batch, failures, flushes, enqueued, server>>

-----------------------------------------------------------------------------
(* The drain loop after its awaits                                         *)

\* Fault (StreamSpec): the failed batch is not put back.
RequeuedNot(q) == q
\* Fault (ServerOrder): the batch is put behind what was enqueued meanwhile.
RequeuedBehind(q) == q \o batch

\* The buffer with a failed batch.
Requeued(q) == batch \o q

SendOk ==
  /\ at = "sending" /\ \A e \in ToSet(batch) : Size[e] > 0
  /\ confirmed' = confirmed \o batch /\ received' = received \cup ToSet(batch)
  /\ Drain(pending, 0, waiting)
  /\ UNCHANGED <<closed, flushes, enqueued>>

\* send() rejects; the server may have got the request.  The batch is dropped
\* when it used up its failures, or is put back for the sleep.
SendFails ==
  /\ at = "sending"
  /\ \/ UNCHANGED received
     \/ (\A e \in ToSet(batch) : Size[e] > 0) /\ received' = received \cup ToSet(batch)
  /\ IF MaxFailures > 0 /\ failures + 1 >= MaxFailures THEN Drain(pending, 0, waiting)
     ELSE /\ pending' = Requeued(pending) /\ batch' = <<>>
          /\ at' = "sleeping"
          /\ failures' = IF MaxFailures = 0 THEN 0 ELSE failures + 1
          /\ UNCHANGED waiting
  /\ UNCHANGED <<closed, flushes, enqueued, confirmed>>

Wake ==
  /\ at = "sleeping"
  /\ Drain(pending, failures, waiting)
  /\ UNCHANGED <<closed, flushes, enqueued, server>>

Next ==
  \/ \E n \in 1..MaxQueue : Enqueue(n)
  \/ FlushNow \/ FlushWait \/ Close
  \/ SendOk \/ SendFails \/ Wake

Spec == Init /\ [][Next]_vars

\* Sleeps end, requests end, and a request that is repeated for ever succeeds at
\* last (or its batch is dropped).
FairSpec == Spec /\ WF_vars(Wake) /\ WF_vars(SendOk \/ SendFails) /\ SF_vars(SendOk)

-----------------------------------------------------------------------------
(* Properties                                                              *)

\* The uploader implements its promise: order, no repetition, and only the
\* losses it names.
Stream == INSTANCE EventStream WITH
  queue <- (IF at = "sending" THEN batch ELSE <<>>) \o (IF closed THEN <<>> ELSE pending),
  accepted <- 1..enqueued,
  open <- ~closed,
  Unserializable <- {e \in Events : ~Sendable(e)}
StreamSpec == Stream!Spec

\* The server never gets an event for the first time after a later one, also when
\* requests fail that it had processed.
ServerOrder == [][\A e \in received' \ received, f \in received : f < e]_vars

\* When a flush() resolves other than by close(), nothing that was enqueued before
\* it is still to be sent.
FlushMeansSent ==
  [][\A w \in waiting \ waiting' : closed' \/ w.needs \cap Unsent' = {}]_vars

\* Every flush() before close() resolves, also with events that cannot be
\* serialized, and with a server that fails.
FlushesEnd == \A n \in 1..MaxFlushes :
  (\E w \in waiting : w.call = n /\ ~w.late) ~> ~\E w \in waiting : w.call = n
=============================================================================
