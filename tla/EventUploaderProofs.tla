------------------------- MODULE EventUploaderProofs -------------------------
(***************************************************************************)
(* Proofs about EventUploader, for any events, sizes and limits.  What is  *)
(* unsent stays in the order of the calls, the batch in front, and, retries*)
(* apart, comes after all that the server has.  From that follow the order *)
(* in which the server gets the events, and that each step of the uploader *)
(* is a step of EventStream: sequences in order are equal if they have the *)
(* same elements, so what takeBatch takes and drops can be told by sets.   *)
(***************************************************************************)
EXTENDS EventUploader, FilteringTheorems, TLAPS, FiniteSetTheorems, SequenceTheorems

-----------------------------------------------------------------------------
(* A flush() that resolves.  It needs no invariant: whatever the batch and *)
(* the buffer were, the only end of the drain loop that resolves the       *)
(* callers leaves both empty.                                              *)

\* A step that resolves a caller closes the uploader or leaves nothing to send.
Resolves == waiting \subseteq waiting' \/ closed' \/ Unsent' = {}

LEMMA NothingLemma == ASSUME pending' = <<>>, batch' = <<>> PROVE Unsent' = {}
PROOF
  BY DEF Unsent, ToSet

\* The drain loop resolves the callers only when it ends with nothing left.
LEMMA DrainLemma ==
  ASSUME NEW q, NEW fails, NEW calls, Drain(q, fails, calls), waiting \subseteq calls,
         closed' = closed
  PROVE  Resolves
PROOF
<1>1. CASE ~closed /\ Batch(q) # <<>>
  BY <1>1 DEF Drain, Resolves
<1>2. CASE closed
  BY <1>2 DEF Resolves
<1>3. CASE ~closed /\ Batch(q) = <<>>
  <2>1. pending' = <<>> /\ batch' = <<>>
    BY <1>3 DEF Drain
  <2>. QED  BY <2>1, NothingLemma DEF Resolves
<1>. QED  BY <1>1, <1>2, <1>3

LEMMA StartDrainLemma ==
  ASSUME NEW q, NEW calls, StartDrain(q, calls), waiting \subseteq calls, closed' = closed
  PROVE  Resolves
PROOF
<1>1. CASE at = "idle" /\ ~closed
  BY <1>1, DrainLemma DEF StartDrain
<1>2. CASE ~(at = "idle" /\ ~closed)
  BY <1>2 DEF StartDrain, Resolves
<1>. QED  BY <1>1, <1>2

LEMMA StepLemma == ASSUME [Next]_vars PROVE Resolves
PROOF
<1>1. ASSUME NEW n \in 1..MaxQueue, Enqueue(n) PROVE Resolves
  <2>1. PICK q : StartDrain(q, waiting)
    BY <1>1 DEF Enqueue
  <2>. QED  BY <1>1, <2>1, StartDrainLemma DEF Enqueue
<1>2. CASE FlushNow \/ Close \/ UNCHANGED vars
  BY <1>2 DEF FlushNow, Close, vars, Resolves
<1>3. CASE FlushWait
  <2>1. PICK calls : StartDrain(pending, calls) /\ waiting \subseteq calls
    BY <1>3 DEF FlushWait
  <2>. QED  BY <1>3, <2>1, StartDrainLemma DEF FlushWait
<1>4. CASE SendOk \/ Wake
  BY <1>4, DrainLemma DEF SendOk, Wake
<1>5. CASE SendFails
  <2>1. CASE Drain(pending, 0, waiting)
    BY <1>5, <2>1, DrainLemma DEF SendFails
  <2>2. CASE UNCHANGED waiting
    BY <2>2 DEF Resolves
  <2>. QED  BY <1>5, <2>1, <2>2 DEF SendFails
<1>. QED  BY <1>1, <1>2, <1>3, <1>4, <1>5 DEF Next

\* For any batch and byte limits, unserializable events, failures and calls that
\* overlap: a flush() that resolves before close() leaves nothing unsent that was
\* enqueued before it (flush and the end of drain()).
THEOREM FlushSends == Spec => FlushMeansSent
PROOF
<1>1. [Next]_vars => [\A w \in waiting \ waiting' : closed' \/ w.needs \cap Unsent' = {}]_vars
  BY StepLemma DEF Resolves
<1>. QED  BY <1>1, PTL DEF Spec, FlushMeansSent

-----------------------------------------------------------------------------
(* What FlushesEnd rests on: nobody waits for a drain loop that has ended. *)

\* While the uploader is open, an idle drain loop leaves neither an event nor a
\* caller behind; once it is closed, only calls made after close() still wait.
Served ==
  IF closed THEN \A w \in waiting : w.late
  ELSE at = "idle" => pending = <<>> /\ waiting = {}

\* However the drain loop goes on, it serves those who wait.
LEMMA DrainServes ==
  ASSUME NEW q, NEW fails, NEW calls, Drain(q, fails, calls), closed' = closed,
         closed => \A w \in calls : w.late
  PROVE  Served'
PROOF
<1>1. CASE closed
  BY <1>1 DEF Drain, Served
<1>2. CASE ~closed /\ Batch(q) # <<>>
  BY <1>2 DEF Drain, Served
<1>3. CASE ~closed /\ Batch(q) = <<>>
  BY <1>3 DEF Drain, Served
<1>. QED  BY <1>1, <1>2, <1>3

\* A call starts the drain loop, or finds it at work or the uploader closed.
LEMMA StartDrainServes ==
  ASSUME NEW q, NEW calls, StartDrain(q, calls), closed' = closed,
         closed => \A w \in calls : w.late
  PROVE  Served'
PROOF
<1>1. CASE at = "idle" /\ ~closed
  BY <1>1, DrainServes DEF StartDrain
<1>2. CASE ~(at = "idle" /\ ~closed)
  BY <1>2 DEF StartDrain, Served
<1>. QED  BY <1>1, <1>2

LEMMA ServedStep == ASSUME Served, [Next]_vars PROVE Served'
PROOF
<1>1. closed => \A w \in waiting : w.late
  BY DEF Served
<1>2. ASSUME NEW n \in 1..MaxQueue, Enqueue(n) PROVE Served'
  <2>1. PICK q : StartDrain(q, waiting)
    BY <1>2 DEF Enqueue
  <2>. QED  BY <1>1, <1>2, <2>1, StartDrainServes DEF Enqueue
<1>3. CASE FlushNow \/ UNCHANGED vars
  BY <1>3 DEF FlushNow, vars, drain, Served
<1>4. CASE FlushWait
  <2>. DEFINE call == [call |-> flushes + 1, needs |-> Unsent, late |-> closed]
  <2>1. closed => \A w \in waiting \cup {call} : w.late
    BY <1>1
  <2>. QED  BY <1>4, <2>1, StartDrainServes DEF FlushWait
<1>5. CASE Close
  BY <1>5 DEF Close, Served
<1>6. CASE SendOk \/ Wake
  BY <1>1, <1>6, DrainServes DEF SendOk, Wake
<1>7. CASE SendFails
  <2>1. CASE Drain(pending, 0, waiting)
    BY <1>1, <1>7, <2>1, DrainServes DEF SendFails
  <2>2. CASE at' = "sleeping" /\ UNCHANGED waiting
    BY <1>1, <1>7, <2>2 DEF SendFails, Served
  <2>. QED  BY <1>7, <2>1, <2>2 DEF SendFails
<1>. QED  BY <1>2, <1>3, <1>4, <1>5, <1>6, <1>7 DEF Next

\* For any limits, failures and calls that overlap: no event and no flush() is
\* forgotten by an idle drain loop, and none made before close() waits after it
\* (enqueue, flush, close and the end of drain()).
THEOREM NobodyForgotten == Spec => []Served
PROOF
<1>1. Init => Served
  BY DEF Init, Served
<1>2. Served /\ [Next]_vars => Served'
  BY ServedStep
<1>. QED  BY <1>1, <1>2, PTL DEF Spec

-----------------------------------------------------------------------------
(* Sequences of events in the order in which they were enqueued.  Such a   *)
(* sequence is determined by its elements, so that what takeBatch takes and*)
(* leaves can be told by sets.                                             *)

Ascends(s) == \A i, j \in DOMAIN s : i < j => s[i] < s[j]

LEMMA EventsAreNumbers == Events \subseteq Nat
PROOF
  BY UploaderConstants DEF Events

LEMMA Numbers ==
  ASSUME NEW s \in Seq(Events)
  PROVE  DOMAIN s = 1..Len(s) /\ Len(s) \in Nat /\ \A i \in 1..Len(s) : s[i] \in Nat
PROOF
<1>1. \A i \in 1..Len(s) : s[i] \in Events
  OBVIOUS
<1>2. \A i \in 1..Len(s) : s[i] \in Nat
  BY <1>1, EventsAreNumbers
<1>3. DOMAIN s = 1..Len(s) /\ Len(s) \in Nat
  OBVIOUS
<1>. QED  BY <1>2, <1>3

\* Concatenation is associative.
LEMMA Associative ==
  \A s, t, u \in Seq(Events) : s \o (t \o u) = (s \o t) \o u
PROOF
<1>. SUFFICES ASSUME NEW s \in Seq(Events), NEW t \in Seq(Events), NEW u \in Seq(Events)
              PROVE  (s \o t) \o u = s \o (t \o u)
  OBVIOUS
<1>. QED  BY ConcatAssociative

LEMMA ConcatSet ==
  ASSUME NEW s \in Seq(Events), NEW t \in Seq(Events)
  PROVE  s \o t \in Seq(Events) /\ ToSet(s \o t) = ToSet(s) \cup ToSet(t)
PROOF
<1>. DEFINE st == s \o t
<1>1. /\ st \in Seq(Events) /\ Len(st) = Len(s) + Len(t)
      /\ \A i \in 1..(Len(s) + Len(t)) : st[i] = IF i <= Len(s) THEN s[i] ELSE t[i - Len(s)]
  BY ConcatProperties
<1>. HIDE DEF st
<1>2. /\ DOMAIN st = 1..(Len(s) + Len(t)) /\ DOMAIN s = 1..Len(s) /\ DOMAIN t = 1..Len(t)
      /\ Len(s) \in Nat /\ Len(t) \in Nat
  BY <1>1
<1>3. \A i \in 1..Len(s) : i \in DOMAIN st /\ st[i] = s[i]
  BY <1>1, <1>2
<1>4. ASSUME NEW j \in 1..Len(t)  PROVE Len(s) + j \in DOMAIN st /\ st[Len(s) + j] = t[j]
  <2>1. /\ Len(s) + j \in 1..(Len(s) + Len(t)) /\ ~(Len(s) + j <= Len(s))
        /\ (Len(s) + j) - Len(s) = j
    BY <1>2
  <2>. QED  BY <1>1, <1>2, <2>1
<1>5. \A k \in DOMAIN st : \/ k \in 1..Len(s) /\ st[k] = s[k]
                           \/ k - Len(s) \in 1..Len(t) /\ st[k] = t[k - Len(s)]
  BY <1>1, <1>2
<1>6. ToSet(st) = ToSet(s) \cup ToSet(t)
  BY <1>2, <1>3, <1>4, <1>5 DEF ToSet
<1>. QED  BY <1>1, <1>6 DEF st

\* One after the other.
LEMMA AscendsConcat ==
  ASSUME NEW s \in Seq(Events), NEW t \in Seq(Events)
  PROVE  Ascends(s \o t) <=> /\ Ascends(s) /\ Ascends(t)
                             /\ \A m \in ToSet(s), n \in ToSet(t) : m < n
PROOF
<1>. DEFINE st == s \o t
<1>1. /\ st \in Seq(Events) /\ Len(st) = Len(s) + Len(t)
      /\ \A i \in 1..(Len(s) + Len(t)) : st[i] = IF i <= Len(s) THEN s[i] ELSE t[i - Len(s)]
  BY ConcatProperties
<1>. HIDE DEF st
<1>2. /\ DOMAIN st = 1..(Len(s) + Len(t)) /\ DOMAIN s = 1..Len(s) /\ DOMAIN t = 1..Len(t)
      /\ Len(s) \in Nat /\ Len(t) \in Nat
  BY <1>1
<1>3. \A i \in 1..Len(s) : i \in DOMAIN st /\ st[i] = s[i]
  BY <1>1, <1>2
<1>4. ASSUME NEW j \in 1..Len(t)  PROVE Len(s) + j \in DOMAIN st /\ st[Len(s) + j] = t[j]
  <2>1. /\ Len(s) + j \in 1..(Len(s) + Len(t)) /\ ~(Len(s) + j <= Len(s))
        /\ (Len(s) + j) - Len(s) = j
    BY <1>2
  <2>. QED  BY <1>1, <1>2, <2>1
<1>5. \A k \in DOMAIN st : \/ k \in 1..Len(s) /\ st[k] = s[k]
                           \/ k - Len(s) \in 1..Len(t) /\ st[k] = t[k - Len(s)]
  BY <1>1, <1>2
<1>6. /\ (\A i \in 1..Len(s) : s[i] \in ToSet(s)) /\ (\A j \in 1..Len(t) : t[j] \in ToSet(t))
      /\ \A m \in ToSet(s) : \E i \in 1..Len(s) : m = s[i]
      /\ \A m \in ToSet(t) : \E j \in 1..Len(t) : m = t[j]
  BY <1>2 DEF ToSet
<1>7. ASSUME Ascends(s), Ascends(t), \A m \in ToSet(s), n \in ToSet(t) : m < n
      PROVE  Ascends(st)
  <2>. SUFFICES ASSUME NEW i \in DOMAIN st, NEW j \in DOMAIN st, i < j
                PROVE  st[i] < st[j]
    BY DEF Ascends
  <2>0. i \in 1..(Len(s) + Len(t)) /\ j \in 1..(Len(s) + Len(t))
    BY <1>2
  <2>1. CASE j \in 1..Len(s) /\ st[j] = s[j]
    <3>1. i \in 1..Len(s) /\ st[i] = s[i]
      BY <1>3, <2>0, <2>1
    <3>. QED  BY <1>2, <1>7, <2>1, <3>1 DEF Ascends
  <2>2. CASE i \in 1..Len(s) /\ st[i] = s[i] /\ j - Len(s) \in 1..Len(t) /\ st[j] = t[j - Len(s)]
    BY <1>6, <1>7, <2>2
  <2>3. CASE /\ i - Len(s) \in 1..Len(t) /\ st[i] = t[i - Len(s)]
             /\ j - Len(s) \in 1..Len(t) /\ st[j] = t[j - Len(s)]
    <3>1. i - Len(s) < j - Len(s)
      BY <1>2, <2>0
    <3>. QED  BY <1>2, <1>7, <2>3, <3>1 DEF Ascends
  <2>. QED  BY <1>2, <1>5, <2>0, <2>1, <2>2, <2>3
<1>8. ASSUME Ascends(st)
      PROVE  Ascends(s) /\ Ascends(t) /\ \A m \in ToSet(s), n \in ToSet(t) : m < n
  <2>1. Ascends(s)
    BY <1>2, <1>3, <1>8 DEF Ascends
  <2>2. Ascends(t)
    <3>. SUFFICES ASSUME NEW i \in 1..Len(t), NEW j \in 1..Len(t), i < j  PROVE t[i] < t[j]
      BY <1>2 DEF Ascends
    <3>1. Len(s) + i < Len(s) + j
      BY <1>2
    <3>. QED  BY <1>4, <1>8, <3>1 DEF Ascends
  <2>3. ASSUME NEW m \in ToSet(s), NEW n \in ToSet(t)  PROVE m < n
    <3>1. PICK i \in 1..Len(s) : m = s[i]
      BY <1>6
    <3>2. PICK j \in 1..Len(t) : n = t[j]
      BY <1>6
    <3>3. i < Len(s) + j
      BY <1>2
    <3>. QED  BY <1>3, <1>4, <1>8, <3>1, <3>2, <3>3 DEF Ascends
  <2>. QED  BY <2>1, <2>2, <2>3
<1>. QED  BY <1>7, <1>8 DEF st

\* What passes a test is in order.
LEMMA AscendsKeep ==
  ASSUME NEW s \in Seq(Events), NEW T, Ascends(s)
  PROVE  Ascends(Keep(s, T))
PROOF
<1>. DEFINE r == Keep(s, T)
<1>1. r \in Seq(Events)
  BY KeepPicks
<1>2. PICK h : Picks(s, T, r, Len(s), h)
  BY KeepPicks
<1>. HIDE DEF r
<1>3. DOMAIN r = 1..Len(r) /\ DOMAIN s = 1..Len(s)
  BY <1>1
<1>4. /\ \A i \in 1..Len(r) : h[i] \in 1..Len(s) /\ r[i] = s[h[i]]
      /\ \A i, j \in 1..Len(r) : i < j => h[i] < h[j]
  BY <1>2 DEF Picks
<1>5. Ascends(r)
  BY <1>3, <1>4 DEF Ascends
<1>. QED  BY <1>5 DEF r

\* One of two sequences in order with the same elements is not the longer one, and
\* they agree.
LEMMA AscendsPart ==
  ASSUME NEW s \in Seq(Events), NEW t \in Seq(Events), Ascends(s), Ascends(t),
         ToSet(s) = ToSet(t)
  PROVE  Len(s) <= Len(t) /\ \A i \in 1..Len(s) : s[i] = t[i]
PROOF
<1>. DEFINE Bad == {i \in 1..Len(s) : i > Len(t) \/ s[i] # t[i]}
<1>1. /\ DOMAIN s = 1..Len(s) /\ DOMAIN t = 1..Len(t) /\ Len(s) \in Nat /\ Len(t) \in Nat
      /\ (\A i \in 1..Len(s) : s[i] \in Nat) /\ (\A i \in 1..Len(t) : t[i] \in Nat)
  BY Numbers
<1>2. /\ \A i \in 1..Len(s) : \E j \in 1..Len(t) : s[i] = t[j]
      /\ \A j \in 1..Len(t) : \E i \in 1..Len(s) : t[j] = s[i]
  BY <1>1 DEF ToSet
<1>3. Bad = {}
  <2>. SUFFICES ASSUME Bad # {}  PROVE FALSE
    OBVIOUS
  <2>0. Bad \subseteq Nat
    BY <1>1
  <2>1. PICK i \in Bad : \A k \in Bad : i <= k
    BY <2>0, Least
  <2>2. i \in 1..Len(s) /\ i \in Nat /\ \A k \in 1..(i - 1) : k \in 1..Len(s) /\ k <= Len(t) /\ s[k] = t[k]
    BY <1>1, <2>1
  <2>3. PICK j \in 1..Len(t) : s[i] = t[j]
    BY <1>2, <2>2
  <2>4. j >= i
    <3>. SUFFICES ASSUME j < i  PROVE FALSE
      BY <1>1, <2>2
    <3>1. j \in 1..(i - 1) /\ s[j] = s[i]
      BY <1>1, <2>2, <2>3
    <3>2. s[j] < s[i]
      BY <1>1, <2>2, <3>1 DEF Ascends
    <3>. QED  BY <1>1, <2>2, <3>1, <3>2
  <2>5. i \in 1..Len(t) /\ s[i] # t[i]
    BY <1>1, <2>1, <2>2, <2>4
  <2>6. PICK k \in 1..Len(s) : t[i] = s[k]
    BY <1>2, <2>5
  <2>7. t[i] < t[j]
    <3>1. i # j
      BY <2>3, <2>5
    <3>2. i < j
      BY <1>1, <2>2, <2>4, <3>1
    <3>. QED  BY <1>1, <2>5, <3>2 DEF Ascends
  <2>8. s[k] < s[i]
    BY <2>3, <2>6, <2>7
  <2>9. k < i
    <3>1. CASE i < k
      <4>1. s[i] < s[k]
        BY <1>1, <2>2, <3>1 DEF Ascends
      <4>. QED  BY <1>1, <2>2, <2>8, <4>1
    <3>2. CASE i = k
      BY <1>1, <2>2, <2>8, <3>2
    <3>. QED  BY <1>1, <2>2, <3>1, <3>2
  <2>10. k \in 1..(i - 1) /\ k \in 1..Len(t) /\ t[k] = t[i]
    BY <1>1, <2>2, <2>6, <2>9
  <2>11. t[k] < t[i]
    BY <1>1, <2>5, <2>9, <2>10 DEF Ascends
  <2>. QED  BY <1>1, <2>5, <2>10, <2>11
<1>4. ASSUME NEW i \in 1..Len(s)  PROVE i <= Len(t) /\ s[i] = t[i]
  BY <1>1, <1>3, <1>4
<1>5. Len(s) <= Len(t)
  BY <1>1, <1>4
<1>. QED  BY <1>4, <1>5

LEMMA AscendsSame ==
  ASSUME NEW s \in Seq(Events), NEW t \in Seq(Events), Ascends(s), Ascends(t),
         ToSet(s) = ToSet(t)
  PROVE  s = t
PROOF
<1>1. Len(s) <= Len(t) /\ \A i \in 1..Len(s) : s[i] = t[i]
  BY AscendsPart
<1>2. Len(t) <= Len(s)
  BY AscendsPart
<1>3. Len(s) = Len(t)
  BY <1>1, <1>2
<1>. QED  BY <1>1, <1>3

\* The two ends of a sequence.
LEMMA Split ==
  ASSUME NEW q \in Seq(Events), NEW c \in 0..Len(q)
  PROVE  LET a == SubSeq(q, 1, c)
             b == SubSeq(q, c + 1, Len(q))
         IN /\ a \in Seq(Events) /\ b \in Seq(Events) /\ Len(a) = c /\ Len(b) = Len(q) - c
            /\ q = a \o b /\ ToSet(q) = ToSet(a) \cup ToSet(b)
            /\ Ascends(q) => /\ Ascends(a) /\ Ascends(b) /\ ToSet(a) \cap ToSet(b) = {}
                             /\ \A m \in ToSet(a), n \in ToSet(b) : m < n
PROOF
<1>. DEFINE a == SubSeq(q, 1, c)
            b == SubSeq(q, c + 1, Len(q))
<1>1. a \in Seq(Events) /\ b \in Seq(Events) /\ Len(a) = c /\ Len(b) = Len(q) - c
  OBVIOUS
<1>2. /\ \A i \in 1..c : a[i] = q[i]
      /\ \A i \in 1..(Len(q) - c) : b[i] = q[c + i]
  OBVIOUS
<1>. HIDE DEF a, b
<1>3. q = a \o b
  <2>. DEFINE ab == a \o b
  <2>1. /\ ab \in Seq(Events) /\ Len(ab) = Len(q)
        /\ \A i \in 1..Len(q) : ab[i] = IF i <= c THEN a[i] ELSE b[i - c]
    BY <1>1, ConcatProperties
  <2>. HIDE DEF ab
  <2>2. ASSUME NEW i \in 1..Len(q)  PROVE ab[i] = q[i]
    <3>1. CASE i <= c
      <4>1. i \in 1..c
        BY <3>1
      <4>. QED  BY <1>2, <2>1, <3>1, <4>1
    <3>2. CASE i > c
      <4>1. i - c \in 1..(Len(q) - c) /\ c + (i - c) = i /\ ~(i <= c)
        BY <3>2
      <4>2. ab[i] = b[i - c]
        BY <2>1, <4>1
      <4>3. b[i - c] = q[c + (i - c)]
        BY <1>2, <4>1
      <4>. QED  BY <4>1, <4>2, <4>3
    <3>. QED  BY <3>1, <3>2
  <2>3. DOMAIN ab = 1..Len(q) /\ DOMAIN q = 1..Len(q)
    BY <2>1
  <2>4. ab = q
    BY <2>1, <2>2, <2>3
  <2>. QED  BY <2>4 DEF ab
<1>4. ToSet(q) = ToSet(a) \cup ToSet(b)
  BY <1>1, <1>3, ConcatSet
<1>5. ASSUME Ascends(q)
      PROVE  /\ Ascends(a) /\ Ascends(b) /\ ToSet(a) \cap ToSet(b) = {}
             /\ \A m \in ToSet(a), n \in ToSet(b) : m < n
  <2>1. Ascends(a) /\ Ascends(b) /\ \A m \in ToSet(a), n \in ToSet(b) : m < n
    BY <1>1, <1>3, <1>5, AscendsConcat
  <2>2. ToSet(a) \subseteq Nat
    <3>1. DOMAIN a = 1..Len(a) /\ \A i \in 1..Len(a) : a[i] \in Nat
      BY <1>1, Numbers
    <3>. QED  BY <3>1 DEF ToSet
  <2>. QED  BY <2>1, <2>2
<1>. QED  BY <1>1, <1>3, <1>4, <1>5 DEF a, b

LEMMA SplitEnd ==
  ASSUME NEW q \in Seq(Events), Ascends(q), NEW c \in 0..Len(q)
  PROVE  LET b == SubSeq(q, c + 1, Len(q))
         IN b \in Seq(Events) /\ Ascends(b) /\ ToSet(b) \subseteq ToSet(q)
PROOF
<1>. DEFINE a == SubSeq(q, 1, c)
            b == SubSeq(q, c + 1, Len(q))
<1>1. b \in Seq(Events) /\ Ascends(b) /\ ToSet(q) = ToSet(a) \cup ToSet(b)
  BY Split
<1>. HIDE DEF a, b
<1>2. ToSet(b) \subseteq ToSet(q)
  BY <1>1
<1>. QED  BY <1>1, <1>2 DEF b

-----------------------------------------------------------------------------
(* takeBatch                                                               *)

CanSend == {e \in Events : Sendable(e)}
CannotSend == {e \in Events : ~Sendable(e)}

\* Of a sequence in order, what can be sent is in order.
LEMMA SendableLemma ==
  ASSUME NEW s \in Seq(Events), Ascends(s)
  PROVE  LET r == Filter(s, Sendable)
         IN r \in Seq(Events) /\ Ascends(r) /\ ToSet(r) = ToSet(s) \cap CanSend
PROOF
<1>1. \A n \in 0..Len(s) : n # 0 => (Sendable(s[n]) <=> s[n] \in CanSend)
  BY DEF CanSend
<1>2. Filter(s, Sendable) = Keep(s, CanSend)
  BY <1>1 DEF Filter, Keep
<1>3. Keep(s, CanSend) \in Seq(Events) /\ ToSet(Keep(s, CanSend)) = ToSet(s) \cap CanSend
  BY KeepSet
<1>4. Ascends(Keep(s, CanSend))
  BY AscendsKeep
<1>. QED  BY <1>2, <1>3, <1>4

\* What takeBatch has taken before the j-th event.
LEMMA TakenLemma ==
  ASSUME NEW q \in Seq(Events), Ascends(q), NEW c \in 0..Len(q)
  PROVE  /\ Taken(q, c + 1) \in Seq(Events) /\ Ascends(Taken(q, c + 1))
         /\ ToSet(Taken(q, c + 1)) = ToSet(SubSeq(q, 1, c)) \cap CanSend
PROOF
<1>1. SubSeq(q, 1, c) \in Seq(Events) /\ Ascends(SubSeq(q, 1, c))
  BY Split
<1>2. (c + 1) - 1 = c
  OBVIOUS
<1>3. Taken(q, c + 1) = Filter(SubSeq(q, 1, c), Sendable)
  BY <1>2 DEF Taken
<1>. QED  BY <1>1, <1>3, SendableLemma

\* It takes one more at most for each event it looks at.
LEMMA TakenGrows ==
  ASSUME NEW q \in Seq(Events), Ascends(q), NEW c \in 1..Len(q)
  PROVE  Len(Taken(q, c + 1)) <= Len(Taken(q, c)) + 1
PROOF
<1>. DEFINE r == Taken(q, c)
            t == Taken(q, c + 1)
            a == SubSeq(q, 1, c - 1)
            b == SubSeq(q, 1, c)
<1>0. c - 1 \in 0..Len(q) /\ c \in 0..Len(q) /\ (c - 1) + 1 = c
  OBVIOUS
<1>1. r \in Seq(Events) /\ Ascends(r) /\ ToSet(r) = ToSet(a) \cap CanSend
  BY <1>0, TakenLemma
<1>2. t \in Seq(Events) /\ Ascends(t) /\ ToSet(t) = ToSet(b) \cap CanSend
  BY <1>0, TakenLemma
<1>3. /\ DOMAIN a = 1..(c - 1) /\ DOMAIN b = 1..c
      /\ (\A i \in 1..(c - 1) : a[i] = q[i]) /\ (\A i \in 1..c : b[i] = q[i])
  OBVIOUS
<1>4. \A i \in 1..c : i = c \/ i \in 1..(c - 1)
  OBVIOUS
<1>5. c \in 1..c /\ \A i \in 1..(c - 1) : i \in 1..c
  OBVIOUS
<1>. HIDE DEF a, b
<1>6. ToSet(b) = ToSet(a) \cup {q[c]}
  <2>1. ToSet(a) = {q[i] : i \in 1..(c - 1)} /\ ToSet(b) = {q[i] : i \in 1..c}
    BY <1>3 DEF ToSet
  <2>. QED  BY <1>4, <1>5, <2>1
<1>. HIDE DEF r, t
<1>. SUFFICES Len(t) <= Len(r) + 1
  BY DEF r, t
<1>9. Len(r) \in Nat /\ Len(t) \in Nat
  BY <1>1, <1>2
<1>7. CASE q[c] \notin CanSend
  <2>1. ToSet(t) = ToSet(r)
    BY <1>1, <1>2, <1>6, <1>7
  <2>2. r = t
    BY <1>1, <1>2, <2>1, AscendsSame
  <2>. QED  BY <1>9, <2>2
<1>8. CASE q[c] \in CanSend
  <2>. DEFINE e == q[c]
              one == <<e>>
  <2>0. e \in Events
    OBVIOUS
  <2>1. one \in Seq(Events) /\ Ascends(one) /\ ToSet(one) = {e} /\ Len(one) = 1
    BY <2>0 DEF Ascends, ToSet
  <2>2. \A m \in ToSet(a) : m < e
    <3>1. \A i \in 1..(c - 1) : q[i] < q[c]
      BY DEF Ascends
    <3>. QED  BY <1>3, <3>1 DEF ToSet
  <2>. HIDE DEF one, e
  <2>3. \A m \in ToSet(r), n \in ToSet(one) : m < n
    BY <1>1, <2>1, <2>2
  <2>4. r \o one \in Seq(Events) /\ ToSet(r \o one) = ToSet(r) \cup ToSet(one)
    BY <1>1, <2>1, ConcatSet
  <2>5. Ascends(r \o one)
    BY <1>1, <2>1, <2>3, AscendsConcat
  <2>6. ToSet(r \o one) = ToSet(t)
    BY <1>1, <1>2, <1>6, <1>8, <2>1, <2>4 DEF e
  <2>7. r \o one = t
    BY <1>2, <2>4, <2>5, <2>6, AscendsSame
  <2>8. Len(r \o one) = Len(r) + Len(one)
    <3>1. \A u, v \in Seq(Events) : Len(u \o v) = Len(u) + Len(v)
      OBVIOUS
    <3>. QED  BY <1>1, <2>1, <3>1
  <2>. QED  BY <1>9, <2>1, <2>7, <2>8
<1>. QED  BY <1>7, <1>8

\* takeBatch goes on until something does not fit.
LEMMA CutLemma ==
  ASSUME NEW q \in Seq(Events)
  PROVE  /\ Cut(q) \in 0..Len(q) /\ \A j \in 1..Cut(q) : Scans(q, j)
         /\ Cut(q) = Len(q) \/ ~Scans(q, Cut(q) + 1)
PROOF
<1>. DEFINE Stops == {j \in 1..Len(q) : ~Scans(q, j)}
<1>0. Len(q) \in Nat
  OBVIOUS
<1>1. \E c \in 0..Len(q) : (\A j \in 1..c : Scans(q, j)) /\ (c = Len(q) \/ ~Scans(q, c + 1))
  <2>1. CASE Stops = {}
    <3>1. Len(q) \in 0..Len(q) /\ \A j \in 1..Len(q) : Scans(q, j)
      BY <1>0, <2>1
    <3>. QED  BY <3>1
  <2>2. CASE Stops # {}
    <3>0. Stops \subseteq Nat
      BY <1>0
    <3>1. PICK k \in Stops : \A j \in Stops : k <= j
      BY <2>2, <3>0, Least
    <3>2. k - 1 \in 0..Len(q) /\ (k - 1) + 1 = k /\ ~Scans(q, k)
      BY <1>0, <3>1
    <3>3. ASSUME NEW j \in 1..(k - 1)  PROVE Scans(q, j)
      <4>1. j \in 1..Len(q) /\ ~(k <= j)
        BY <1>0, <3>1
      <4>. QED  BY <3>1, <4>1
    <3>. QED  BY <3>2, <3>3
  <2>. QED  BY <2>1, <2>2
<1>. QED  BY <1>1 DEF Cut

\* A batch and what takeBatch leaves: of what it does not leave, only what cannot
\* be sent is missing in the batch, and the batch is empty only if nothing can.
LEMMA BatchLemma ==
  ASSUME NEW q \in Seq(Events), Ascends(q)
  PROVE  /\ Batch(q) \in Seq(Events) /\ Remaining(q) \in Seq(Events)
         /\ Len(Batch(q)) <= MaxBatch
         /\ Ascends(Batch(q) \o Remaining(q))
         /\ \E D \in SUBSET CannotSend : ToSet(Batch(q) \o Remaining(q)) = ToSet(q) \ D
         /\ Batch(q) = <<>> => ToSet(q) \subseteq CannotSend
PROOF
<1>. DEFINE c == Cut(q)
            a == SubSeq(q, 1, c)
            b == SubSeq(q, c + 1, Len(q))
            t == Taken(q, c + 1)
<1>0. /\ c \in 0..Len(q) /\ \A j \in 1..c : Scans(q, j)
      /\ c = Len(q) \/ ~Scans(q, c + 1)
  BY CutLemma
<1>1. Batch(q) = t /\ Remaining(q) = b
  BY DEF Batch, Remaining
<1>. HIDE DEF c
<1>2. /\ a \in Seq(Events) /\ b \in Seq(Events) /\ Len(a) = c /\ Len(b) = Len(q) - c
      /\ ToSet(q) = ToSet(a) \cup ToSet(b) /\ Ascends(a) /\ Ascends(b)
      /\ ToSet(a) \cap ToSet(b) = {} /\ \A m \in ToSet(a), n \in ToSet(b) : m < n
  BY <1>0, Split
<1>3. t \in Seq(Events) /\ Ascends(t) /\ ToSet(t) = ToSet(a) \cap CanSend
  BY <1>0, TakenLemma
<1>4. Len(t) <= MaxBatch
  <2>1. CASE c = 0
    <3>1. DOMAIN a = {}
      BY <1>2, <2>1
    <3>. HIDE DEF a, t
    <3>2. ToSet(t) = {}
      BY <1>3, <3>1 DEF ToSet
    <3>3. t = <<>>
      BY <1>3, <3>2, Numbers DEF ToSet
    <3>. QED  BY <3>3, UploaderConstants
  <2>2. CASE c # 0
    <3>1. c \in 1..Len(q) /\ c \in 1..c
      BY <1>0, <2>2
    <3>2. Len(Taken(q, c)) < MaxBatch
      BY <1>0, <3>1 DEF Scans
    <3>3. Len(t) <= Len(Taken(q, c)) + 1
      BY <3>1, TakenGrows
    <3>4. Taken(q, c) \in Seq(Events)
      <4>1. c - 1 \in 0..Len(q) /\ (c - 1) + 1 = c
        BY <3>1
      <4>. QED  BY <4>1, TakenLemma
    <3>5. Len(t) \in Nat /\ Len(Taken(q, c)) \in Nat
      BY <1>3, <3>4
    <3>. HIDE DEF t
    <3>. QED  BY <3>2, <3>3, <3>5, UploaderConstants
  <2>. QED  BY <2>1, <2>2
<1>. HIDE DEF a, b, t
<1>5. \A m \in ToSet(t), n \in ToSet(b) : m < n
  BY <1>2, <1>3
<1>6. Ascends(t \o b)
  BY <1>2, <1>3, <1>5, AscendsConcat
<1>7. ToSet(t \o b) = ToSet(t) \cup ToSet(b)
  BY <1>2, <1>3, ConcatSet
<1>8. ToSet(a) \subseteq Events
  BY <1>2 DEF ToSet
<1>9. \E D \in SUBSET CannotSend : ToSet(t \o b) = ToSet(q) \ D
  <2>1. ToSet(t \o b) = ToSet(q) \ (ToSet(a) \cap CannotSend)
    BY <1>2, <1>3, <1>7, <1>8 DEF CanSend, CannotSend
  <2>. QED  BY <2>1
<1>10. ASSUME t = <<>>  PROVE ToSet(q) \subseteq CannotSend
  <2>1. ToSet(t) = {}
    BY <1>10 DEF ToSet
  <2>2. ToSet(a) \subseteq CannotSend
    BY <1>3, <1>8, <2>1 DEF CanSend, CannotSend
  <2>3. c = Len(q)
    <3>1. Taken(q, c + 1) = <<>> /\ Len(<<>>) = 0
      BY <1>10 DEF t
    <3>2. Scans(q, c + 1)
      BY <3>1, UploaderConstants DEF Scans
    <3>. QED  BY <1>0, <3>2
  <2>4. b = <<>>
    BY <1>2, <2>3
  <2>5. ToSet(b) = {}
    BY <2>4 DEF ToSet
  <2>. QED  BY <1>2, <2>2, <2>5
<1>. QED  BY <1>1, <1>2, <1>3, <1>4, <1>6, <1>9, <1>10

-----------------------------------------------------------------------------
(* Order: what is unsent is in the order of the calls, the batch in front, *)
(* and comes after everything the server has, retries apart.               *)

Shapes ==
  /\ pending \in Seq(Events) /\ batch \in Seq(Events) /\ Len(batch) <= MaxBatch
  /\ at \in {"idle", "sending", "sleeping"}
  /\ failures \in 0..MaxFailures /\ closed \in BOOLEAN
  /\ at = "sending" <=> batch # <<>>
  /\ at = "idle" => failures = 0

Counts ==
  /\ waiting \subseteq Flush /\ flushes \in 0..MaxFlushes /\ enqueued \in 0..MaxEvents
  /\ confirmed \in Seq(Events) /\ received \subseteq Events

Line ==
  /\ Ascends(batch \o pending)
  /\ Unsent \subseteq 1..enqueued /\ received \subseteq 1..enqueued
  /\ \A e \in Unsent \ received, f \in received : f < e

IInv == Shapes /\ Counts /\ Line

LEMMA Nothing == <<>> \in Seq(Events) /\ Ascends(<<>>) /\ ToSet(<<>>) = {}
PROOF
  BY DEF Ascends, ToSet

LEMMA NothingBefore == ASSUME NEW s \in Seq(Events) PROVE <<>> \o s = s /\ s \o <<>> = s
PROOF
  BY ConcatEmptySeq

\* The drain loop keeps the shapes and the order.  It drops what cannot be sent.
LEMMA DrainKeeps ==
  ASSUME Shapes, NEW q \in Seq(Events), Ascends(q), NEW fails \in 0..MaxFailures, NEW calls,
         Drain(q, fails, calls), closed' = closed
  PROVE  /\ Shapes' /\ Ascends(batch' \o pending') /\ waiting' \subseteq calls
         /\ failures' \in {0, fails}
         /\ Unsent' \subseteq ToSet(q)
         /\ closed => pending' = q /\ batch' = <<>> /\ at' = "idle"
         /\ ~closed => \E D \in SUBSET CannotSend : Unsent' = ToSet(q) \ D
PROOF
<1>0. closed \in BOOLEAN /\ 0 \in 0..MaxFailures /\ Len(<<>>) <= MaxBatch
  BY UploaderConstants DEF Shapes
<1>1. CASE ~closed /\ Batch(q) # <<>>
  <2>1. /\ batch' = Batch(q) /\ pending' = Remaining(q) /\ at' = "sending" /\ failures' = fails
        /\ waiting' = calls
    BY <1>1 DEF Drain
  <2>2. /\ Batch(q) \in Seq(Events) /\ Remaining(q) \in Seq(Events) /\ Len(Batch(q)) <= MaxBatch
        /\ Ascends(Batch(q) \o Remaining(q))
    BY BatchLemma
  <2>3. PICK D \in SUBSET CannotSend : ToSet(Batch(q) \o Remaining(q)) = ToSet(q) \ D
    BY BatchLemma
  <2>4. ToSet(Batch(q) \o Remaining(q)) = ToSet(Batch(q)) \cup ToSet(Remaining(q))
    BY <2>2, ConcatSet
  <2>5. Unsent' = ToSet(q) \ D
    BY <2>1, <2>3, <2>4 DEF Unsent
  <2>6. Shapes'
    BY <1>0, <1>1, <2>1, <2>2 DEF Shapes
  <2>. QED  BY <1>1, <2>1, <2>2, <2>5, <2>6
<1>2. CASE ~closed /\ Batch(q) = <<>>
  <2>1. batch' = <<>> /\ pending' = <<>> /\ at' = "idle" /\ failures' = 0 /\ waiting' = {}
    BY <1>2 DEF Drain
  <2>2. ToSet(q) \subseteq CannotSend
    BY <1>2, BatchLemma
  <2>3. Unsent' = {}
    BY <2>1, Nothing DEF Unsent
  <2>4. Shapes'
    BY <1>0, <1>2, <2>1, Nothing DEF Shapes
  <2>5. Ascends(batch' \o pending')
    BY <2>1, Nothing, NothingBefore
  <2>6. Unsent' = ToSet(q) \ ToSet(q)
    BY <2>3
  <2>. QED  BY <1>2, <2>1, <2>2, <2>4, <2>5, <2>6
<1>3. CASE closed
  <2>1. /\ batch' = <<>> /\ pending' = q /\ at' = "idle" /\ failures' = 0
        /\ waiting' \subseteq calls
    BY <1>3 DEF Drain
  <2>2. Unsent' = ToSet(q)
    BY <2>1, Nothing DEF Unsent
  <2>3. Shapes'
    BY <1>0, <1>3, <2>1, Nothing DEF Shapes
  <2>4. Ascends(batch' \o pending')
    BY <2>1, Nothing, NothingBefore
  <2>. QED  BY <1>3, <2>1, <2>2, <2>3, <2>4
<1>. QED  BY <1>0, <1>1, <1>2, <1>3

\* A call of drain(), with a buffer that goes on behind the batch.
LEMMA StartDrainKeeps ==
  ASSUME Shapes, NEW q \in Seq(Events), Ascends(batch \o q), NEW calls,
         StartDrain(q, calls), closed' = closed
  PROVE  /\ Shapes' /\ Ascends(batch' \o pending') /\ waiting' \subseteq calls
         /\ failures' = failures
         /\ Unsent' \subseteq ToSet(batch) \cup ToSet(q)
         /\ \/ batch' = batch /\ pending' = q /\ at' = at
            \/ /\ at = "idle" /\ ~closed
               /\ \E D \in SUBSET CannotSend : Unsent' = ToSet(q) \ D
PROOF
<1>0. batch \in Seq(Events) /\ 0 \in 0..MaxFailures
  BY UploaderConstants DEF Shapes
<1>1. CASE at = "idle" /\ ~closed
  <2>1. Drain(q, 0, calls) /\ failures = 0 /\ batch = <<>>
    BY <1>1 DEF StartDrain, Shapes
  <2>2. Ascends(q)
    BY <2>1, NothingBefore
  <2>. QED  BY <1>0, <1>1, <2>1, <2>2, DrainKeeps
<1>2. CASE ~(at = "idle" /\ ~closed)
  <2>1. pending' = q /\ waiting' = calls /\ batch' = batch /\ at' = at /\ failures' = failures
    BY <1>2 DEF StartDrain
  <2>2. Shapes'
    BY <2>1 DEF Shapes
  <2>3. Unsent' = ToSet(batch) \cup ToSet(q)
    BY <2>1 DEF Unsent
  <2>. QED  BY <2>1, <2>2, <2>3
<1>. QED  BY <1>1, <1>2

LEMMA InitOrder == Init => IInv
PROOF
<1>. SUFFICES ASSUME Init  PROVE IInv
  OBVIOUS
<1>1. pending = <<>> /\ batch = <<>> /\ received = {} /\ enqueued = 0 /\ confirmed = <<>>
  BY DEF Init
<1>2. Shapes
  <2>1. Len(batch) <= MaxBatch /\ 0 \in 0..MaxFailures
    BY <1>1, UploaderConstants
  <2>2. pending \in Seq(Events) /\ batch \in Seq(Events)
    BY <1>1, Nothing
  <2>. QED  BY <1>1, <2>1, <2>2 DEF Init, Shapes
<1>3. Counts
  BY <1>1, Nothing, UploaderConstants DEF Init, Counts
<1>4. Unsent = {} /\ Ascends(batch \o pending)
  BY <1>1, Nothing, NothingBefore DEF Unsent
<1>5. Line
  BY <1>1, <1>4 DEF Line
<1>. QED  BY <1>2, <1>3, <1>5 DEF IInv

\* What the buffer is when events come: without the oldest ones that do not fit,
\* and in order behind the batch.
LEMMA NewLemma ==
  ASSUME IInv, NEW n \in 1..MaxQueue, enqueued + n <= MaxEvents
  PROVE  LET new == [i \in 1..n |-> enqueued + i]
             over == Len(pending) + n - MaxQueue
             kept == IF over <= 0 THEN pending ELSE SubSeq(pending, over + 1, Len(pending))
         IN /\ new \in [1..n -> Events] /\ new \in Seq(Events) /\ Len(new) = n
            /\ ToSet(new) = (enqueued + 1)..(enqueued + n)
            /\ kept \in Seq(Events) /\ Ascends(batch \o kept)
            /\ kept \o new \in Seq(Events) /\ Ascends(batch \o (kept \o new))
            /\ ToSet(kept \o new) = ToSet(kept) \cup ToSet(new)
            /\ \/ kept = pending
               \/ /\ over \in 1..Len(pending) /\ kept = SubSeq(pending, over + 1, Len(pending))
                  /\ ToSet(kept) = ToSet(pending) \ ToSet(SubSeq(pending, 1, over))
PROOF
<1>. DEFINE new == [i \in 1..n |-> enqueued + i]
            over == Len(pending) + n - MaxQueue
            kept == IF over <= 0 THEN pending ELSE SubSeq(pending, over + 1, Len(pending))
<1>0. /\ pending \in Seq(Events) /\ batch \in Seq(Events) /\ enqueued \in Nat
      /\ Len(pending) \in Nat /\ MaxQueue \in Nat /\ n \in Nat /\ n <= MaxQueue /\ n >= 1
  BY UploaderConstants DEF IInv, Shapes, Counts
<1>1. \A i \in 1..n : enqueued + i \in Events
  BY <1>0, UploaderConstants DEF Events
<1>2. /\ new \in [1..n -> Events] /\ new \in Seq(Events) /\ Len(new) = n
      /\ DOMAIN new = 1..n /\ \A i \in 1..n : new[i] = enqueued + i
  BY <1>0, <1>1
<1>3. ToSet(new) = (enqueued + 1)..(enqueued + n)
  <2>1. \A i \in 1..n : new[i] \in (enqueued + 1)..(enqueued + n)
    BY <1>0, <1>2
  <2>2. ASSUME NEW e \in (enqueued + 1)..(enqueued + n)  PROVE \E i \in 1..n : new[i] = e
    <3>1. e - enqueued \in 1..n /\ enqueued + (e - enqueued) = e
      BY <1>0
    <3>. QED  BY <1>2, <3>1
  <2>. HIDE DEF new
  <2>. QED  BY <1>2, <2>1, <2>2 DEF ToSet
<1>4. Ascends(new)
  <2>1. \A i, j \in 1..n : i < j => enqueued + i < enqueued + j
    BY <1>0
  <2>. HIDE DEF new
  <2>. QED  BY <1>2, <2>1 DEF Ascends
<1>5. /\ Ascends(batch) /\ Ascends(pending) /\ \A e \in ToSet(batch), f \in ToSet(pending) : e < f
      /\ ToSet(batch) \subseteq 1..enqueued /\ ToSet(pending) \subseteq 1..enqueued
  BY <1>0, AscendsConcat DEF IInv, Line, Unsent
<1>6. \/ kept = pending
      \/ /\ over \in 1..Len(pending) /\ kept = SubSeq(pending, over + 1, Len(pending))
         /\ ToSet(kept) = ToSet(pending) \ ToSet(SubSeq(pending, 1, over))
  <2>1. CASE over <= 0
    BY <2>1
  <2>2. CASE ~(over <= 0)
    <3>1. over \in 1..Len(pending) /\ over \in 0..Len(pending)
      BY <1>0, <2>2
    <3>2. kept = SubSeq(pending, over + 1, Len(pending))
      BY <2>2
    <3>. HIDE DEF over, kept
    <3>3. /\ ToSet(pending) = ToSet(SubSeq(pending, 1, over)) \cup ToSet(kept)
          /\ ToSet(SubSeq(pending, 1, over)) \cap ToSet(kept) = {}
      BY <1>0, <1>5, <3>1, <3>2, Split
    <3>4. ToSet(kept) = ToSet(pending) \ ToSet(SubSeq(pending, 1, over))
      BY <3>3
    <3>. QED  BY <3>1, <3>2, <3>4
  <2>. QED  BY <2>1, <2>2
<1>7. kept \in Seq(Events) /\ Ascends(kept) /\ ToSet(kept) \subseteq ToSet(pending)
  <2>. HIDE DEF kept, over
  <2>1. CASE kept = pending
    BY <1>0, <1>5, <2>1
  <2>2. CASE over \in 1..Len(pending) /\ kept = SubSeq(pending, over + 1, Len(pending))
    <3>1. over \in 0..Len(pending)
      BY <1>0, <2>2
    <3>2. /\ SubSeq(pending, over + 1, Len(pending)) \in Seq(Events)
          /\ Ascends(SubSeq(pending, over + 1, Len(pending)))
          /\ ToSet(SubSeq(pending, over + 1, Len(pending))) \subseteq ToSet(pending)
      BY <1>0, <1>5, <3>1, SplitEnd
    <3>. QED  BY <2>2, <3>2
  <2>. QED  BY <1>6, <2>1, <2>2
<1>. HIDE DEF new, over, kept
<1>8. Ascends(batch \o kept)
  BY <1>0, <1>5, <1>7, AscendsConcat
<1>9. kept \o new \in Seq(Events) /\ ToSet(kept \o new) = ToSet(kept) \cup ToSet(new)
  BY <1>2, <1>7, ConcatSet
<1>10. \A e \in 1..enqueued, f \in ToSet(new) : e < f
  BY <1>0, <1>3
<1>11. Ascends(kept \o new)
  <2>1. \A e \in ToSet(kept), f \in ToSet(new) : e < f
    BY <1>5, <1>7, <1>10
  <2>. QED  BY <1>2, <1>4, <1>7, <2>1, AscendsConcat
<1>12. Ascends(batch \o (kept \o new))
  <2>1. \A e \in ToSet(batch), f \in ToSet(kept \o new) : e < f
    BY <1>5, <1>7, <1>9, <1>10
  <2>. QED  BY <1>0, <1>5, <1>9, <1>11, <2>1, AscendsConcat
<1>. QED  BY <1>2, <1>3, <1>6, <1>7, <1>8, <1>9, <1>12 DEF new, over, kept

\* What the server has and may get keeps its order when nothing new is unsent.
LEMMA LineKeeps ==
  ASSUME IInv, Ascends(batch' \o pending'), enqueued' = enqueued, received' = received,
         Unsent' \subseteq Unsent
  PROVE  Line'
PROOF
<1>1. \A e \in Unsent' \ received', f \in received' : f < e
  BY DEF IInv, Line
<1>2. Unsent' \subseteq 1..enqueued' /\ received' \subseteq 1..enqueued'
  BY DEF IInv, Line
<1>. QED  BY <1>1, <1>2 DEF Line

LEMMA EnqueueOrder == ASSUME IInv, NEW n \in 1..MaxQueue, Enqueue(n) PROVE IInv'
PROOF
<1>. DEFINE new == [i \in 1..n |-> enqueued + i]
            over == Len(pending) + n - MaxQueue
            kept == IF over <= 0 THEN pending ELSE SubSeq(pending, over + 1, Len(pending))
            q == kept \o new
<1>0. /\ ~closed /\ enqueued + n <= MaxEvents /\ enqueued' = enqueued + n
      /\ StartDrain(q, waiting) /\ UNCHANGED <<closed, flushes, server>>
  BY DEF Enqueue
<1>1. /\ q \in Seq(Events) /\ Ascends(batch \o q) /\ ToSet(q) = ToSet(kept) \cup ToSet(new)
      /\ ToSet(new) = (enqueued + 1)..(enqueued + n)
  BY <1>0, NewLemma
<1>2. ToSet(kept) \subseteq ToSet(pending)
  <2>1. \/ kept = pending
        \/ ToSet(kept) = ToSet(pending) \ ToSet(SubSeq(pending, 1, over))
    BY <1>0, NewLemma
  <2>. QED  BY <2>1
<1>. HIDE DEF q, new, kept, over
<1>3. /\ Shapes' /\ Ascends(batch' \o pending') /\ waiting' \subseteq waiting
      /\ Unsent' \subseteq ToSet(batch) \cup ToSet(q)
  BY <1>0, <1>1, StartDrainKeeps DEF IInv
<1>4. enqueued \in Nat /\ n \in Nat /\ n >= 1 /\ MaxEvents \in Nat
  BY UploaderConstants DEF IInv, Counts
<1>5. Counts'
  BY <1>0, <1>3, <1>4 DEF IInv, Counts, server
<1>6. Unsent' \subseteq Unsent \cup ToSet(new)
  BY <1>1, <1>2, <1>3 DEF Unsent
<1>7. received' = received
  BY <1>0 DEF server
<1>8. Unsent' \subseteq 1..enqueued' /\ received' \subseteq 1..enqueued'
  <2>1. 1..enqueued \subseteq 1..(enqueued + n) /\ (enqueued + 1)..(enqueued + n) \subseteq 1..(enqueued + n)
    BY <1>4
  <2>. QED  BY <1>0, <1>1, <1>6, <1>7, <2>1 DEF IInv, Line
<1>9. ASSUME NEW e \in Unsent' \ received', NEW f \in received'  PROVE f < e
  <2>1. CASE e \in Unsent
    BY <1>7, <1>9, <2>1 DEF IInv, Line
  <2>2. CASE e \in ToSet(new)
    <3>1. e \in (enqueued + 1)..(enqueued + n) /\ f \in 1..enqueued
      BY <1>1, <1>7, <2>2 DEF IInv, Line
    <3>. QED  BY <1>4, <3>1
  <2>. QED  BY <1>6, <2>1, <2>2
<1>10. Line'
  BY <1>3, <1>8, <1>9 DEF Line
<1>. QED  BY <1>3, <1>5, <1>10 DEF IInv

LEMMA FlushOrder == ASSUME IInv, FlushNow \/ FlushWait PROVE IInv'
PROOF
<1>0. flushes < MaxFlushes /\ flushes' = flushes + 1 /\ UNCHANGED <<closed, enqueued, server>>
  BY DEF FlushNow, FlushWait
<1>1. flushes \in Nat /\ MaxFlushes \in Nat /\ flushes' \in 0..MaxFlushes
  BY <1>0, UploaderConstants DEF IInv, Counts
<1>2. CASE FlushNow
  <2>1. /\ pending' = pending /\ at' = at /\ batch' = batch /\ failures' = failures
        /\ waiting' = waiting /\ Unsent' = Unsent
    BY <1>2 DEF FlushNow, drain, Unsent
  <2>2. Shapes'
    BY <1>0, <2>1 DEF IInv, Shapes
  <2>3. Counts'
    BY <1>0, <1>1, <2>1 DEF IInv, Counts, server
  <2>4. Line'
    BY <1>0, <2>1, LineKeeps DEF IInv, Line, server
  <2>. QED  BY <2>2, <2>3, <2>4 DEF IInv
<1>3. CASE FlushWait
  <2>. DEFINE w == [call |-> flushes + 1, needs |-> Unsent, late |-> closed]
              calls == waiting \cup {w}
  <2>1. StartDrain(pending, calls)
    BY <1>3 DEF FlushWait
  <2>2. w \in Flush
    <3>1. flushes + 1 \in 1..MaxFlushes
      BY <1>0, <1>1
    <3>2. Unsent \subseteq Events /\ closed \in BOOLEAN
      BY UploaderConstants DEF IInv, Line, Shapes, Events, Counts
    <3>. QED  BY <3>1, <3>2 DEF Flush
  <2>. HIDE DEF w
  <2>3. calls \subseteq Flush
    BY <2>2 DEF IInv, Counts
  <2>. HIDE DEF calls
  <2>4. /\ Shapes' /\ Ascends(batch' \o pending') /\ waiting' \subseteq calls
        /\ Unsent' \subseteq Unsent
    <3>1. pending \in Seq(Events) /\ Ascends(batch \o pending)
      BY DEF IInv, Shapes, Line
    <3>. QED  BY <1>0, <2>1, <3>1, StartDrainKeeps DEF IInv, Unsent
  <2>5. Counts'
    BY <1>0, <1>1, <2>3, <2>4 DEF IInv, Counts, server
  <2>6. Line'
    BY <1>0, <2>4, LineKeeps DEF server
  <2>. QED  BY <2>4, <2>5, <2>6 DEF IInv
<1>. QED  BY <1>2, <1>3

LEMMA CloseOrder == ASSUME IInv, Close PROVE IInv'
PROOF
<1>0. /\ closed' = TRUE /\ pending' = <<>> /\ waiting' = {}
      /\ UNCHANGED <<at, batch, failures, flushes, enqueued, server>>
  BY DEF Close
<1>1. Shapes'
  BY <1>0, Nothing DEF IInv, Shapes
<1>2. Counts'
  BY <1>0 DEF IInv, Counts, server
<1>3. Ascends(batch) /\ batch \in Seq(Events)
  BY AscendsConcat DEF IInv, Line, Shapes
<1>4. Ascends(batch' \o pending')
  BY <1>0, <1>3, NothingBefore
<1>5. Unsent' \subseteq Unsent
  BY <1>0, Nothing DEF Unsent
<1>6. Line'
  BY <1>0, <1>4, <1>5, LineKeeps DEF server
<1>. QED  BY <1>1, <1>2, <1>6 DEF IInv

\* The server gets the batch: what is unsent behind it is later.
LEMMA Arrives ==
  ASSUME IInv
  PROVE  LET r == received \cup ToSet(batch)
         IN /\ r \subseteq 1..enqueued /\ \A e \in Unsent \ r, f \in r : f < e
            /\ \A e \in r \ received, f \in received : f < e
PROOF
<1>1. /\ pending \in Seq(Events) /\ batch \in Seq(Events)
      /\ \A e \in ToSet(batch), f \in ToSet(pending) : e < f
  BY AscendsConcat DEF IInv, Shapes, Line
<1>. QED  BY <1>1 DEF IInv, Line, Unsent

\* What send() does to the order, and the drain loop after it.
LEMMA SendOrder ==
  ASSUME IInv, at = "sending", received' \in {received, received \cup ToSet(batch)},
         Drain(pending, 0, waiting), confirmed' \in {confirmed, confirmed \o batch},
         UNCHANGED <<closed, flushes, enqueued>>
  PROVE  IInv'
PROOF
<1>0. /\ pending \in Seq(Events) /\ batch \in Seq(Events) /\ 0 \in 0..MaxFailures
      /\ Ascends(pending) /\ confirmed \in Seq(Events)
  BY UploaderConstants, AscendsConcat DEF IInv, Shapes, Line, Counts
<1>1. /\ Shapes' /\ Ascends(batch' \o pending') /\ waiting' \subseteq waiting
      /\ Unsent' \subseteq ToSet(pending)
  BY <1>0, DrainKeeps DEF IInv
<1>2. confirmed' \in Seq(Events)
  BY <1>0, ConcatSet
<1>3. ToSet(batch) \subseteq Events
  BY <1>0 DEF ToSet
<1>4. Counts'
  BY <1>1, <1>2, <1>3 DEF IInv, Counts
<1>5. Unsent' \subseteq Unsent
  BY <1>1 DEF Unsent
<1>6. Line'
  <2>1. CASE received' = received
    BY <1>1, <1>5, <2>1, LineKeeps
  <2>2. CASE received' = received \cup ToSet(batch)
    <3>1. received' \subseteq 1..enqueued /\ \A e \in Unsent \ received', f \in received' : f < e
      BY <2>2, Arrives
    <3>. QED  BY <1>1, <1>5, <3>1 DEF IInv, Line
  <2>. QED  BY <2>1, <2>2
<1>. QED  BY <1>1, <1>4, <1>6 DEF IInv

LEMMA RetryOrder ==
  ASSUME IInv, at = "sending", received' \in {received, received \cup ToSet(batch)},
         pending' = Requeued(pending), batch' = <<>>, at' = "sleeping",
         ~(MaxFailures > 0 /\ failures + 1 >= MaxFailures),
         failures' = IF MaxFailures = 0 THEN 0 ELSE failures + 1,
         UNCHANGED <<waiting, closed, flushes, enqueued, confirmed>>
  PROVE  IInv'
PROOF
<1>0. /\ pending \in Seq(Events) /\ batch \in Seq(Events) /\ MaxFailures \in Nat
      /\ failures \in 0..MaxFailures /\ Ascends(batch \o pending)
  BY UploaderConstants DEF IInv, Shapes, Line
<1>1. /\ pending' = batch \o pending /\ pending' \in Seq(Events)
      /\ ToSet(pending') = ToSet(batch) \cup ToSet(pending)
  BY <1>0, ConcatSet DEF Requeued
<1>2. failures' \in 0..MaxFailures
  BY <1>0
<1>3. Shapes'
  <2>1. Len(batch') <= MaxBatch
    BY UploaderConstants
  <2>. QED  BY <1>1, <1>2, <2>1, Nothing DEF IInv, Shapes
<1>4. ToSet(batch) \subseteq Events
  BY <1>0 DEF ToSet
<1>5. Counts'
  BY <1>4 DEF IInv, Counts
<1>6. Ascends(batch' \o pending')
  BY <1>0, <1>1, NothingBefore
<1>7. Unsent' = Unsent
  BY <1>1, Nothing DEF Unsent
<1>8. Line'
  <2>1. CASE received' = received
    BY <1>6, <1>7, <2>1, LineKeeps
  <2>2. CASE received' = received \cup ToSet(batch)
    <3>1. received' \subseteq 1..enqueued /\ \A e \in Unsent \ received', f \in received' : f < e
      BY <2>2, Arrives
    <3>. QED  BY <1>6, <1>7, <3>1 DEF IInv, Line
  <2>. QED  BY <2>1, <2>2
<1>. QED  BY <1>3, <1>5, <1>8 DEF IInv

LEMMA WakeOrder == ASSUME IInv, Wake PROVE IInv'
PROOF
<1>0. /\ pending \in Seq(Events) /\ failures \in 0..MaxFailures
      /\ Ascends(pending) /\ Drain(pending, failures, waiting)
      /\ UNCHANGED <<closed, flushes, enqueued, server>>
  BY AscendsConcat DEF IInv, Shapes, Line, Wake
<1>1. /\ Shapes' /\ Ascends(batch' \o pending') /\ waiting' \subseteq waiting
      /\ Unsent' \subseteq ToSet(pending)
  BY <1>0, DrainKeeps DEF IInv
<1>2. Counts'
  BY <1>0, <1>1 DEF IInv, Counts, server
<1>3. Unsent' \subseteq Unsent
  BY <1>1 DEF Unsent
<1>4. Line'
  BY <1>0, <1>1, <1>3, LineKeeps DEF server
<1>. QED  BY <1>1, <1>2, <1>4 DEF IInv

LEMMA OrderStep == ASSUME IInv, [Next]_vars PROVE IInv'
PROOF
<1>1. ASSUME NEW n \in 1..MaxQueue, Enqueue(n)  PROVE IInv'
  BY <1>1, EnqueueOrder
<1>2. CASE FlushNow \/ FlushWait
  BY <1>2, FlushOrder
<1>3. CASE Close
  BY <1>3, CloseOrder
<1>4. CASE SendOk
  BY <1>4, SendOrder DEF SendOk
<1>5. CASE SendFails
  <2>1. CASE MaxFailures > 0 /\ failures + 1 >= MaxFailures
    BY <1>5, <2>1, SendOrder DEF SendFails
  <2>2. CASE ~(MaxFailures > 0 /\ failures + 1 >= MaxFailures)
    BY <1>5, <2>2, RetryOrder DEF SendFails
  <2>. QED  BY <2>1, <2>2
<1>6. CASE Wake
  BY <1>6, WakeOrder
<1>7. CASE UNCHANGED vars
  BY <1>7 DEF vars, drain, server, IInv, Shapes, Counts, Line, Unsent
<1>. QED  BY <1>1, <1>2, <1>3, <1>4, <1>5, <1>6, <1>7 DEF Next

THEOREM Inductive == Spec => []IInv
PROOF
<1>1. IInv /\ [Next]_vars => IInv'
  BY OrderStep
<1>. QED  BY <1>1, InitOrder, PTL DEF Spec

\* For any events, sizes and limits, however requests fail and whatever the server
\* made of those that did: the server never gets an event for the first time after
\* a later one (drain(), which puts a failed batch back in front).
THEOREM OrderKept == Spec => ServerOrder
PROOF
<1>1. ASSUME IInv, [Next]_vars  PROVE \A e \in received' \ received, f \in received : f < e
  <2>1. received' = received \/ received' = received \cup ToSet(batch)
    BY <1>1 DEF Next, vars, Enqueue, FlushNow, FlushWait, Close, SendOk, SendFails, Wake, server
  <2>2. CASE received' = received \cup ToSet(batch)
    BY <1>1, <2>2, Arrives
  <2>. QED  BY <2>1, <2>2
<1>2. IInv /\ [Next]_vars => [\A e \in received' \ received, f \in received : f < e]_vars
  BY <1>1
<1>. QED  BY <1>2, Inductive, PTL DEF Spec, ServerOrder

\* The types, and that a batch never has more than maxBatchSize events (takeBatch).
THEOREM TypesAreKept == Spec => []TypeOK
PROOF
<1>1. IInv => TypeOK
  BY DEF IInv, Shapes, Counts, TypeOK
<1>. QED  BY <1>1, Inductive, PTL

-----------------------------------------------------------------------------
(* The uploader implements EventStream: every step of it is a step or a    *)
(* stutter of the promise, with the batch in flight in front of the buffer *)
(* as the queue.                                                           *)

Flying == IF at = "sending" THEN batch ELSE <<>>
Buffered == IF closed THEN <<>> ELSE pending
Queue == Flying \o Buffered

\* The step of the promise.
Promised == [Stream!Next]_(Stream!streamVars)

\* Without(s, D) in order is what has the elements of s but D.
LEMMA WithoutLemma ==
  ASSUME NEW s \in Seq(Events), NEW t \in Seq(Events), Ascends(s), Ascends(t), NEW D,
         ToSet(t) = ToSet(s) \ D
  PROVE  t = Stream!Without(s, D)
PROOF
<1>. DEFINE T == Events \ D
<1>0. \A n \in 0..Len(s) : n # 0 => s[n] \in Events
  OBVIOUS
<1>1. \A n \in 0..Len(s) : n # 0 => (s[n] \notin D <=> s[n] \in T)
  BY <1>0
<1>2. Stream!Without(s, D) = Keep(s, T)
  BY <1>1 DEF Stream!Without, Stream!Filter, Keep
<1>3. Keep(s, T) \in Seq(Events) /\ ToSet(Keep(s, T)) = ToSet(s) \cap T
  BY KeepSet
<1>4. Ascends(Keep(s, T))
  BY AscendsKeep
<1>5. ToSet(s) \subseteq Events
  BY DEF ToSet
<1>6. ToSet(t) = ToSet(Keep(s, T))
  BY <1>3, <1>5
<1>. HIDE DEF T
<1>7. t = Keep(s, T)
  BY <1>3, <1>4, <1>6, AscendsSame
<1>. QED  BY <1>2, <1>7

LEMMA CleanedLemma ==
  ASSUME NEW s \in Seq(Events), NEW t \in Seq(Events), Ascends(s), Ascends(t),
         NEW D \in SUBSET CannotSend, ToSet(t) = ToSet(s) \ D
  PROVE  Stream!Cleaned(t, s)
PROOF
<1>1. t = Stream!Without(s, D)
  BY WithoutLemma
<1>2. D \in SUBSET {e \in Events : ~Sendable(e)}
  BY DEF CannotSend
<1>. QED  BY <1>1, <1>2 DEF Stream!Cleaned

LEMMA UncleanedLemma ==
  ASSUME NEW s \in Seq(Events), Ascends(s)
  PROVE  Stream!Cleaned(s, s)
PROOF
<1>1. {} \in SUBSET CannotSend /\ ToSet(s) = ToSet(s) \ {}
  OBVIOUS
<1>. QED  BY <1>1, CleanedLemma

QueueFacts ==
  /\ Flying = batch /\ batch \in Seq(Events) /\ Buffered \in Seq(Events)
  /\ Queue = batch \o Buffered /\ Queue \in Seq(Events) /\ Ascends(Queue)
  /\ Ascends(Buffered) /\ ToSet(Queue) = ToSet(batch) \cup ToSet(Buffered)
  /\ Len(Queue) = Len(batch) + Len(Buffered) /\ closed \in BOOLEAN

LEMMA QueueLemma == IInv => QueueFacts
PROOF
<1>. SUFFICES ASSUME IInv  PROVE QueueFacts
  OBVIOUS
<1>1. /\ Flying = batch /\ batch \in Seq(Events) /\ pending \in Seq(Events)
      /\ Ascends(batch \o pending) /\ closed \in BOOLEAN
  BY DEF IInv, Shapes, Line, Flying
<1>2. Buffered \in Seq(Events)
  BY <1>1, Nothing DEF Buffered
<1>3. Queue = batch \o Buffered
  BY <1>1 DEF Queue
<1>4. Queue \in Seq(Events) /\ ToSet(Queue) = ToSet(batch) \cup ToSet(Buffered)
  BY <1>1, <1>2, <1>3, ConcatSet
<1>5. Ascends(Queue)
  <2>1. CASE closed
    <3>1. Queue = batch
      BY <1>1, <1>3, <2>1, NothingBefore DEF Buffered
    <3>. QED  BY <1>1, <3>1, AscendsConcat
  <2>2. CASE ~closed
    BY <1>1, <1>3, <2>2 DEF Buffered
  <2>. QED  BY <2>1, <2>2
<1>6. Ascends(Buffered)
  BY <1>1, <1>2, <1>3, <1>5, AscendsConcat
<1>7. Len(Queue) = Len(batch) + Len(Buffered)
  <2>1. \A u, v \in Seq(Events) : Len(u \o v) = Len(u) + Len(v)
    OBVIOUS
  <2>. QED  BY <1>1, <1>2, <1>3, <2>1
<1>. QED  BY <1>1, <1>2, <1>3, <1>4, <1>5, <1>6, <1>7 DEF QueueFacts

LEMMA QueuePrimed == IInv' => QueueFacts'
PROOF
  BY QueueLemma, PTL

\* The parts of a queue.
LEMMA Parts ==
  ASSUME NEW s \in Seq(Events), NEW t \in Seq(Events)
  PROVE  /\ SubSeq(s \o t, 1, Len(s)) = s
         /\ SubSeq(s \o t, Len(s) + 1, Len(s \o t)) = t
PROOF
<1>. DEFINE st == s \o t
<1>1. /\ st \in Seq(Events) /\ Len(st) = Len(s) + Len(t)
      /\ \A i \in 1..(Len(s) + Len(t)) : st[i] = IF i <= Len(s) THEN s[i] ELSE t[i - Len(s)]
  BY ConcatProperties
<1>. HIDE DEF st
<1>2. Len(s) \in Nat /\ Len(t) \in Nat /\ Len(s) \in 0..Len(st)
  BY <1>1
<1>3. /\ SubSeq(st, 1, Len(s)) \in Seq(Events) /\ Len(SubSeq(st, 1, Len(s))) = Len(s)
      /\ SubSeq(st, Len(s) + 1, Len(st)) \in Seq(Events)
      /\ Len(SubSeq(st, Len(s) + 1, Len(st))) = Len(t)
  BY <1>1, <1>2, Split
<1>4. \A i \in 1..Len(s) : SubSeq(st, 1, Len(s))[i] = s[i]
  BY <1>1, <1>2
<1>5. ASSUME NEW i \in 1..Len(t)  PROVE SubSeq(st, Len(s) + 1, Len(st))[i] = t[i]
  <2>1. SubSeq(st, Len(s) + 1, Len(st))[i] = st[Len(s) + i]
    BY <1>1, <1>2
  <2>2. Len(s) + i \in 1..(Len(s) + Len(t)) /\ ~(Len(s) + i <= Len(s)) /\ (Len(s) + i) - Len(s) = i
    BY <1>2
  <2>. QED  BY <1>1, <2>1, <2>2
<1>6. \A u, v \in Seq(Events) : Len(u) = Len(v) /\ (\A i \in 1..Len(u) : u[i] = v[i]) => u = v
  OBVIOUS
<1>7. SubSeq(st, 1, Len(s)) = s
  BY <1>3, <1>4, <1>6
<1>8. SubSeq(st, Len(s) + 1, Len(st)) = t
  BY <1>3, <1>5, <1>6
<1>. QED  BY <1>7, <1>8 DEF st

\* A sequence has at least as many places as elements.
LEMMA PlacesLemma ==
  ASSUME NEW s \in Seq(Events)
  PROVE  IsFiniteSet(ToSet(s)) /\ Cardinality(ToSet(s)) <= Len(s)
PROOF
<1>1. IsFiniteSet(1..Len(s)) /\ Cardinality(1..Len(s)) = Len(s) /\ DOMAIN s = 1..Len(s)
  <2>1. Len(s) \in Nat /\ 1 \in Int /\ Len(s) \in Int /\ DOMAIN s = 1..Len(s)
    OBVIOUS
  <2>2. /\ IsFiniteSet(1..Len(s))
        /\ Cardinality(1..Len(s)) = IF 1 > Len(s) THEN 0 ELSE Len(s) - 1 + 1
    BY <2>1, FS_Interval
  <2>. QED  BY <2>1, <2>2
<1>2. ToSet(s) = {s[i] : i \in 1..Len(s)}
  BY <1>1 DEF ToSet
<1>3. /\ IsFiniteSet({s[i] : i \in 1..Len(s)})
      /\ Cardinality({s[i] : i \in 1..Len(s)}) <= Cardinality(1..Len(s))
  <2>. DEFINE f == [i \in 1..Len(s) |-> s[i]]
              R == {s[i] : i \in 1..Len(s)}
  <2>1. f \in Surjection(1..Len(s), R)
    BY DEF Surjection
  <2>. HIDE DEF f, R
  <2>2. IsFiniteSet(R) /\ Cardinality(R) <= Cardinality(1..Len(s))
    BY <1>1, <2>1, FS_Surjection
  <2>. QED  BY <2>2 DEF R
<1>. QED  BY <1>1, <1>2, <1>3, FS_CardinalityType

\* Steps of the promise, by what they do to the queue.
LEMMA CleanStep ==
  ASSUME Stream!Cleaned(Queue', Queue), failures' \in {0, failures},
         UNCHANGED <<confirmed, enqueued, closed>>
  PROVE  Promised
PROOF
<1>1. Stream!Clean
  BY DEF Queue, Flying, Buffered, Stream!Clean
<1>. QED  BY <1>1 DEF Stream!Next, Promised

LEMMA StutterStep ==
  ASSUME Queue' = Queue, UNCHANGED <<failures, confirmed, enqueued, closed>>
  PROVE  Promised
PROOF
<1>1. UNCHANGED Stream!streamVars
  BY DEF Queue, Flying, Buffered, Stream!streamVars
<1>. QED  BY <1>1 DEF Promised

\* After a batch the drain loop cleans what is left.
LEMMA DrainCleans ==
  ASSUME IInv, IInv', NEW fails \in 0..MaxFailures, Drain(pending, fails, waiting),
         closed' = closed
  PROVE  Stream!Cleaned(Queue', Buffered) /\ failures' \in {0, fails}
PROOF
<1>1. pending \in Seq(Events) /\ Ascends(pending)
  BY AscendsConcat DEF IInv, Shapes, Line
<1>2. /\ failures' \in {0, fails}
      /\ closed => pending' = pending /\ batch' = <<>>
      /\ ~closed => \E D \in SUBSET CannotSend : Unsent' = ToSet(pending) \ D
  BY <1>1, DrainKeeps DEF IInv
<1>3. QueueFacts /\ QueueFacts'
  BY QueueLemma, QueuePrimed
<1>4. CASE closed
  <2>1. Buffered = <<>> /\ Queue' = <<>>
    BY <1>2, <1>3, <1>4, Nothing, NothingBefore DEF QueueFacts, Buffered
  <2>. QED  BY <1>2, <2>1, Nothing, UncleanedLemma
<1>5. CASE ~closed
  <2>1. PICK D \in SUBSET CannotSend : Unsent' = ToSet(pending) \ D
    BY <1>2, <1>5
  <2>2. Buffered = pending /\ Buffered' = pending'
    BY <1>5 DEF Buffered
  <2>3. ToSet(Queue') = ToSet(Buffered) \ D
    BY <1>3, <2>1, <2>2 DEF QueueFacts, Unsent
  <2>4. /\ Queue' \in Seq(Events) /\ Ascends(Queue')
        /\ Buffered \in Seq(Events) /\ Ascends(Buffered)
    BY <1>3 DEF QueueFacts
  <2>. QED  BY <1>2, <2>3, <2>4, CleanedLemma
<1>. QED  BY <1>4, <1>5

\* The end of a request ends the head of the queue, as long as the batch.
LEMMA HeadLemma ==
  ASSUME IInv, at = "sending"
  PROVE  LET n == Len(batch)
         IN /\ n \in 1..MaxBatch /\ n <= Len(Queue)
            /\ SubSeq(Queue, 1, n) = batch /\ SubSeq(Queue, n + 1, Len(Queue)) = Buffered
PROOF
<1>1. QueueFacts
  BY QueueLemma
<1>2. Len(batch) \in Nat /\ Len(Buffered) \in Nat /\ Len(batch) # 0 /\ Len(batch) <= MaxBatch
  BY <1>1 DEF QueueFacts, IInv, Shapes
<1>3. Len(batch) \in 1..MaxBatch /\ Len(batch) <= Len(Queue)
  BY <1>1, <1>2, UploaderConstants DEF QueueFacts
<1>. QED  BY <1>1, <1>3, Parts DEF QueueFacts

LEMMA OkStep == ASSUME IInv, IInv', SendOk PROVE Promised
PROOF
<1>. DEFINE n == Len(batch)
<1>0. /\ at = "sending" /\ confirmed' = confirmed \o batch /\ Drain(pending, 0, waiting)
      /\ UNCHANGED <<closed, enqueued>> /\ 0 \in 0..MaxFailures
  BY UploaderConstants DEF SendOk
<1>1. /\ n \in 1..MaxBatch /\ n <= Len(Queue)
      /\ SubSeq(Queue, 1, n) = batch /\ SubSeq(Queue, n + 1, Len(Queue)) = Buffered
  BY <1>0, HeadLemma
<1>2. Stream!Cleaned(Queue', Buffered) /\ failures' = 0
  BY <1>0, DrainCleans
<1>. HIDE DEF n
<1>3. Stream!Confirm(n)
  <2>1. confirmed' = confirmed \o SubSeq(Queue, 1, n)
    BY <1>0, <1>1
  <2>2. Stream!Cleaned(Queue', SubSeq(Queue, n + 1, Len(Queue)))
    BY <1>1, <1>2
  <2>. QED  BY <1>0, <1>2, <2>1, <2>2 DEF Stream!Confirm, Stream!Rest, Queue, Flying, Buffered
<1>4. \E m \in 1..MaxBatch : m <= Len(Queue) /\ Stream!Confirm(m)
  BY <1>1, <1>3
<1>. QED  BY <1>4 DEF Promised, Stream!Next, Queue, Flying, Buffered

LEMMA FailsStep == ASSUME IInv, IInv', SendFails PROVE Promised
PROOF
<1>. DEFINE n == Len(batch)
<1>0. /\ at = "sending" /\ UNCHANGED <<closed, flushes, enqueued, confirmed>>
      /\ 0 \in 0..MaxFailures /\ MaxFailures \in Nat /\ failures \in 0..MaxFailures
  BY UploaderConstants DEF SendFails, IInv, Shapes
<1>1. CASE MaxFailures > 0 /\ failures + 1 >= MaxFailures
  <2>0. Drain(pending, 0, waiting)
    BY <1>1 DEF SendFails
  <2>1. /\ n \in 1..MaxBatch /\ n <= Len(Queue)
        /\ SubSeq(Queue, n + 1, Len(Queue)) = Buffered
    BY <1>0, HeadLemma
  <2>2. Stream!Cleaned(Queue', Buffered) /\ failures' = 0
    BY <1>0, <2>0, DrainCleans
  <2>. HIDE DEF n
  <2>3. Stream!Cleaned(Queue', SubSeq(Queue, n + 1, Len(Queue)))
    BY <2>1, <2>2
  <2>4. Stream!GiveUp(n)
    BY <1>0, <1>1, <2>2, <2>3 DEF Stream!GiveUp, Stream!Rest, Queue, Flying, Buffered
  <2>5. \E m \in 1..MaxBatch : m <= Len(Queue) /\ Stream!GiveUp(m)
    BY <2>1, <2>4
  <2>. QED  BY <2>5 DEF Promised, Stream!Next, Queue, Flying, Buffered
<1>2. CASE ~(MaxFailures > 0 /\ failures + 1 >= MaxFailures)
  <2>0. /\ pending' = batch \o pending /\ batch' = <<>>
        /\ failures' = IF MaxFailures = 0 THEN 0 ELSE failures + 1
    BY <1>2 DEF SendFails, Requeued
  <2>1. QueueFacts /\ QueueFacts'
    BY QueueLemma, QueuePrimed
  <2>2. CASE closed
    <3>1. Queue' = <<>>
      BY <1>0, <2>0, <2>1, <2>2, Nothing, NothingBefore DEF QueueFacts, Buffered
    <3>2. failures' \in 0..(failures + 1)
      BY <1>0, <2>0
    <3>3. Stream!Abandon
      BY <1>0, <2>2, <3>1, <3>2 DEF Stream!Abandon, Queue, Flying, Buffered
    <3>. QED  BY <3>3 DEF Promised, Stream!Next
  <2>3. CASE ~closed
    <3>1. Buffered' = batch \o pending /\ Buffered = pending
      BY <1>0, <2>0, <2>3 DEF Buffered
    <3>2. Queue' = Queue
      BY <2>0, <2>1, <3>1, NothingBefore DEF QueueFacts
    <3>3. CASE MaxFailures = 0
      BY <1>0, <2>0, <3>2, <3>3, StutterStep
    <3>4. CASE MaxFailures # 0
      <4>1. Stream!Retry
        BY <1>0, <2>0, <3>2, <3>4 DEF Stream!Retry, Queue, Flying, Buffered
      <4>. QED  BY <4>1 DEF Promised, Stream!Next
    <3>. QED  BY <3>3, <3>4
  <2>. QED  BY <2>1, <2>2, <2>3 DEF QueueFacts
<1>. QED  BY <1>1, <1>2

LEMMA WakeStep == ASSUME IInv, IInv', Wake PROVE Promised
PROOF
<1>0. /\ at = "sleeping" /\ Drain(pending, failures, waiting) /\ failures \in 0..MaxFailures
      /\ UNCHANGED <<closed, enqueued, confirmed>>
  BY DEF Wake, server, IInv, Shapes
<1>1. Stream!Cleaned(Queue', Buffered) /\ failures' \in {0, failures}
  BY <1>0, DrainCleans
<1>2. Queue = Buffered
  <2>1. batch = <<>> /\ QueueFacts
    BY <1>0, QueueLemma DEF IInv, Shapes
  <2>. QED  BY <2>1, NothingBefore DEF QueueFacts
<1>. QED  BY <1>0, <1>1, <1>2, CleanStep

\* A call of drain() with q in the buffer: the queue is what is flying and q, clean.
LEMMA StartDrainCleans ==
  ASSUME IInv, IInv', NEW q \in Seq(Events), Ascends(batch \o q), NEW calls,
         StartDrain(q, calls), closed' = closed, closed => q = <<>>
  PROVE  Stream!Cleaned(Queue', batch \o q) /\ failures' = failures
PROOF
<1>1. batch \in Seq(Events) /\ batch \o q \in Seq(Events) /\ ToSet(batch \o q) = ToSet(batch) \cup ToSet(q)
  BY ConcatSet DEF IInv, Shapes
<1>2. /\ failures' = failures
      /\ \/ batch' = batch /\ pending' = q /\ at' = at
         \/ /\ at = "idle" /\ ~closed
            /\ \E D \in SUBSET CannotSend : Unsent' = ToSet(q) \ D
  BY StartDrainKeeps DEF IInv
<1>3. QueueFacts'
  BY QueuePrimed
<1>4. CASE batch' = batch /\ pending' = q /\ at' = at
  <2>1. Buffered' = q
    BY <1>4 DEF Buffered
  <2>2. Queue' = batch \o q
    BY <1>3, <1>4, <2>1 DEF QueueFacts
  <2>. QED  BY <1>1, <1>2, <2>2, UncleanedLemma
<1>5. CASE at = "idle" /\ ~closed /\ \E D \in SUBSET CannotSend : Unsent' = ToSet(q) \ D
  <2>1. PICK D \in SUBSET CannotSend : Unsent' = ToSet(q) \ D
    BY <1>5
  <2>2. batch = <<>>
    BY <1>5 DEF IInv, Shapes
  <2>3. batch \o q = q
    BY <2>2, NothingBefore
  <2>4. Buffered' = pending'
    BY <1>5 DEF Buffered
  <2>5. ToSet(Queue') = ToSet(q) \ D
    BY <1>3, <2>1, <2>4 DEF QueueFacts, Unsent
  <2>6. Queue' \in Seq(Events) /\ Ascends(Queue') /\ Ascends(q)
    BY <1>3, <2>3 DEF QueueFacts
  <2>. QED  BY <1>2, <2>3, <2>5, <2>6, CleanedLemma
<1>. QED  BY <1>2, <1>4, <1>5

LEMMA FlushStep == ASSUME IInv, IInv', FlushNow \/ FlushWait PROVE Promised
PROOF
<1>0. UNCHANGED <<closed, enqueued, confirmed>>
  BY DEF FlushNow, FlushWait, server
<1>1. CASE FlushNow
  <2>1. Queue' = Queue /\ failures' = failures
    BY <1>0, <1>1 DEF FlushNow, drain, Queue, Flying, Buffered
  <2>. QED  BY <1>0, <2>1, StutterStep
<1>2. CASE FlushWait
  <2>1. PICK calls : StartDrain(pending, calls)
    BY <1>2 DEF FlushWait
  <2>2. QueueFacts /\ QueueFacts' /\ pending \in Seq(Events) /\ Ascends(batch \o pending)
    BY QueueLemma, QueuePrimed DEF IInv, Shapes, Line
  <2>3. CASE closed
    <3>1. batch' = batch /\ failures' = failures
      BY <2>1, <2>3 DEF StartDrain
    <3>2. Queue' = Queue
      BY <1>0, <2>2, <2>3, <3>1 DEF QueueFacts, Buffered
    <3>. QED  BY <1>0, <3>1, <3>2, StutterStep
  <2>4. CASE ~closed
    <3>1. Stream!Cleaned(Queue', batch \o pending) /\ failures' = failures
      BY <1>0, <2>1, <2>2, <2>4, StartDrainCleans
    <3>2. Queue = batch \o pending
      BY <2>2, <2>4 DEF QueueFacts, Buffered
    <3>. QED  BY <1>0, <3>1, <3>2, CleanStep
  <2>. QED  BY <2>2, <2>3, <2>4 DEF QueueFacts
<1>. QED  BY <1>1, <1>2

LEMMA CloseStep == ASSUME IInv, IInv', Close PROVE Promised
PROOF
<1>. DEFINE n == Len(batch)
<1>0. /\ ~closed /\ closed' = TRUE /\ batch' = batch
      /\ UNCHANGED <<at, failures, enqueued, confirmed>>
  BY DEF Close, server
<1>1. QueueFacts /\ QueueFacts'
  BY QueueLemma, QueuePrimed
<1>2. Buffered' = <<>>
  BY <1>0 DEF Buffered
<1>3. Queue' = batch
  BY <1>0, <1>1, <1>2, NothingBefore DEF QueueFacts
<1>4. SubSeq(Queue, 1, n) = batch
  BY <1>1, Parts DEF QueueFacts
<1>5. n \in 0..MaxBatch
  BY <1>1, UploaderConstants DEF QueueFacts, IInv, Shapes
<1>. HIDE DEF n
<1>6. \E m \in 0..MaxBatch : Queue' = SubSeq(Queue, 1, m)
  BY <1>3, <1>4, <1>5
<1>7. Stream!Close
  BY <1>0, <1>6 DEF Stream!Close, Queue, Flying, Buffered
<1>. QED  BY <1>7 DEF Promised, Stream!Next

\* What makes room is at most what does not fit.
LEMMA EnqueueStep == ASSUME IInv, IInv', NEW n \in 1..MaxQueue, Enqueue(n) PROVE Promised
PROOF
<1>. DEFINE new == [i \in 1..n |-> enqueued + i]
            over == Len(pending) + n - MaxQueue
            kept == IF over <= 0 THEN pending ELSE SubSeq(pending, over + 1, Len(pending))
            q == kept \o new
            gone == IF kept = pending THEN {} ELSE ToSet(SubSeq(pending, 1, over))
<1>0. /\ ~closed /\ enqueued + n <= MaxEvents /\ enqueued' = enqueued + n
      /\ StartDrain(q, waiting) /\ UNCHANGED <<closed, confirmed>>
  BY DEF Enqueue, server
<1>1. /\ new \in [1..n -> Events] /\ new \in Seq(Events) /\ Len(new) = n
      /\ ToSet(new) = (enqueued + 1)..(enqueued + n)
      /\ kept \in Seq(Events) /\ Ascends(batch \o kept)
      /\ q \in Seq(Events) /\ Ascends(batch \o q)
  BY <1>0, NewLemma
<1>2. \/ kept = pending
      \/ /\ over \in 1..Len(pending) /\ kept = SubSeq(pending, over + 1, Len(pending))
         /\ ToSet(kept) = ToSet(pending) \ ToSet(SubSeq(pending, 1, over))
  BY <1>0, NewLemma
<1>3. /\ batch \in Seq(Events) /\ pending \in Seq(Events) /\ enqueued \in Nat /\ n \in Nat
      /\ MaxQueue \in Nat /\ Len(pending) \in Nat /\ Len(batch) \in Nat
  BY UploaderConstants DEF IInv, Shapes, Counts
<1>4. QueueFacts /\ Buffered = pending /\ Queue = batch \o pending
  BY <1>0, QueueLemma DEF QueueFacts, Buffered
<1>5. IsInjective(new)
  <2>1. \A i, j \in 1..n : enqueued + i = enqueued + j => i = j
    BY <1>3
  <2>. QED  BY <2>1 DEF IsInjective
<1>7. over = Len(pending) + n - MaxQueue /\ over \in Int
  BY <1>3
<1>. HIDE DEF new, over, kept, q
<1>6. ToSet(new) \cap (1..enqueued) = {} /\ 1..(enqueued') = (1..enqueued) \cup ToSet(new)
  <2>1. /\ ((enqueued + 1)..(enqueued + n)) \cap (1..enqueued) = {}
        /\ 1..(enqueued + n) = (1..enqueued) \cup ((enqueued + 1)..(enqueued + n))
    BY <1>3
  <2>. QED  BY <1>0, <1>1, <2>1
<1>8. /\ gone \subseteq ToSet(pending) /\ ToSet(kept) = ToSet(pending) \ gone
      /\ gone # {} => Cardinality(gone) <= over
  <2>1. CASE kept = pending
    BY <2>1
  <2>2. CASE kept # pending
    <3>1. /\ over \in 1..Len(pending) /\ over \in 0..Len(pending)
          /\ gone = ToSet(SubSeq(pending, 1, over))
          /\ ToSet(kept) = ToSet(pending) \ ToSet(SubSeq(pending, 1, over))
      BY <1>2, <1>3, <2>2
    <3>. HIDE DEF gone
    <3>2. SubSeq(pending, 1, over) \in Seq(Events) /\ Len(SubSeq(pending, 1, over)) = over
      BY <1>3, <3>1, Split
    <3>3. ToSet(SubSeq(pending, 1, over)) \subseteq ToSet(pending)
      <4>1. ToSet(pending) = ToSet(SubSeq(pending, 1, over)) \cup ToSet(SubSeq(pending, over + 1, Len(pending)))
        BY <1>3, <3>1, Split
      <4>. QED  BY <4>1
    <3>4. Cardinality(gone) <= over
      BY <3>1, <3>2, PlacesLemma
    <3>. QED  BY <3>1, <3>3, <3>4
  <2>. QED  BY <2>1, <2>2
<1>. HIDE DEF gone
<1>9. batch \o kept = Stream!Without(Queue, gone)
  <2>1. batch \o kept \in Seq(Events) /\ ToSet(batch \o kept) = ToSet(batch) \cup ToSet(kept)
    BY <1>1, <1>3, ConcatSet
  <2>2. ToSet(batch) \cap ToSet(pending) = {}
    <3>1. \A e \in ToSet(batch), f \in ToSet(pending) : e < f
      BY <1>3, <1>4, AscendsConcat DEF QueueFacts
    <3>2. ToSet(batch) \subseteq 1..enqueued
      BY DEF IInv, Line, Unsent
    <3>3. \A e \in ToSet(batch) : ~(e < e)
      BY <1>3, <3>2
    <3>. QED  BY <3>1, <3>3
  <2>3. ToSet(batch \o kept) = ToSet(Queue) \ gone
    BY <1>4, <1>8, <2>1, <2>2 DEF QueueFacts
  <2>. QED  BY <1>1, <1>4, <2>1, <2>3, WithoutLemma DEF QueueFacts
<1>10. batch \o q = Stream!Without(Queue, gone) \o new
  <2>1. batch \in Seq(Events) /\ kept \in Seq(Events) /\ new \in Seq(Events)
    BY <1>1, <1>3
  <2>2. batch \o (kept \o new) = (batch \o kept) \o new
    BY <2>1, Associative, Zenon
  <2>. QED  BY <1>9, <2>2 DEF q
<1>11. Stream!Cleaned(Queue', Stream!Without(Queue, gone) \o new) /\ failures' = failures
  BY <1>0, <1>1, <1>10, StartDrainCleans
<1>12. gone \in SUBSET ToSet(Queue) /\ (gone # {} => Cardinality(gone) <= Len(Queue) + Len(new) - MaxQueue)
  <2>1. gone \subseteq ToSet(Queue)
    BY <1>4, <1>8 DEF QueueFacts
  <2>2. ASSUME gone # {}  PROVE Cardinality(gone) <= Len(Queue) + Len(new) - MaxQueue
    <3>1. Cardinality(gone) <= over
      BY <1>8, <2>2
    <3>2. Len(Queue) = Len(batch) + Len(pending)
      BY <1>4 DEF QueueFacts
    <3>3. over <= Len(Queue) + Len(new) - MaxQueue
      BY <1>1, <1>3, <1>7, <3>2
    <3>4. Cardinality(gone) \in Int
      <4>1. IsFiniteSet(ToSet(Queue))
        BY <1>4, PlacesLemma DEF QueueFacts
      <4>. QED  BY <2>1, <4>1, FS_Subset, FS_CardinalityType
    <3>5. Len(Queue) + Len(new) - MaxQueue \in Int
      BY <1>1, <1>3, <3>2
    <3>. QED  BY <1>7, <3>1, <3>3, <3>4, <3>5
  <2>. QED  BY <2>1, <2>2
<1>13. Stream!Enqueue(new)
  <2>1. \E D \in SUBSET ToSet(Queue) :
          /\ D # {} => Cardinality(D) <= Len(Queue) + Len(new) - MaxQueue
          /\ Stream!Cleaned(Queue', Stream!Without(Queue, D) \o new)
    BY <1>11, <1>12
  <2>2. \A D : Stream!Cardinality(D) = Cardinality(D)
    BY DEF Stream!Cardinality, Cardinality
  <2>3. /\ Stream!IsInjective(new) /\ Stream!ToSet(new) = ToSet(new)
        /\ Stream!ToSet(Queue) = ToSet(Queue)
    BY <1>5 DEF Stream!IsInjective, IsInjective, Stream!ToSet, ToSet
  <2>4. \E D \in SUBSET Stream!ToSet(Queue) :
          /\ D # {} => Stream!Cardinality(D) <= Len(Queue) + Len(new) - MaxQueue
          /\ Stream!Cleaned(Queue', Stream!Without(Queue, D) \o new)
    BY <2>1, <2>2, <2>3
  <2>5. ~closed /\ Stream!ToSet(new) \cap (1..enqueued) = {}
    BY <1>0, <1>6, <2>3
  <2>6. 1..(enqueued') = (1..enqueued) \cup Stream!ToSet(new)
    BY <1>6, <2>3
  <2>. QED  BY <1>0, <1>11, <2>3, <2>4, <2>5, <2>6
       DEF Stream!Enqueue, Queue, Flying, Buffered
<1>14. \E m \in 1..MaxQueue : \E events \in [1..m -> Events] : Stream!Enqueue(events)
  BY <1>1, <1>13
<1>. QED  BY <1>14 DEF Promised, Stream!Next

LEMMA InitStep == Init => Stream!Init
PROOF
<1>. SUFFICES ASSUME Init  PROVE Stream!Init
  OBVIOUS
<1>1. /\ at = "idle" /\ pending = <<>> /\ confirmed = <<>> /\ failures = 0 /\ enqueued = 0
      /\ closed = FALSE
  BY DEF Init
<1>2. 1..enqueued = {} /\ <<>> \o <<>> = <<>>
  BY <1>1, Nothing, NothingBefore
<1>. QED  BY <1>1, <1>2 DEF Stream!Init

LEMMA PromiseStep == ASSUME IInv, IInv', [Next]_vars PROVE Promised
PROOF
<1>1. ASSUME NEW n \in 1..MaxQueue, Enqueue(n)  PROVE Promised
  BY <1>1, EnqueueStep
<1>2. CASE FlushNow \/ FlushWait
  BY <1>2, FlushStep
<1>3. CASE Close
  BY <1>3, CloseStep
<1>4. CASE SendOk
  BY <1>4, OkStep
<1>5. CASE SendFails
  BY <1>5, FailsStep
<1>6. CASE Wake
  BY <1>6, WakeStep
<1>7. CASE UNCHANGED vars
  <2>1. Queue' = Queue /\ UNCHANGED <<failures, confirmed, enqueued, closed>>
    BY <1>7 DEF vars, drain, server, Queue, Flying, Buffered
  <2>. QED  BY <2>1, StutterStep
<1>. QED  BY <1>1, <1>2, <1>3, <1>4, <1>5, <1>6, <1>7 DEF Next

\* The uploader implements its promise, for any events, sizes and limits: events
\* are confirmed in the order of the calls and once, and one is lost only because
\* it cannot be serialized, does not fit, used up its failures or met close().
THEOREM KeepsPromise == Spec => StreamSpec
PROOF
<1>1. IInv /\ IInv' /\ [Next]_vars => [Stream!Next]_(Stream!streamVars)
  BY PromiseStep DEF Promised
<1>. QED  BY <1>1, InitStep, Inductive, PTL DEF Spec, StreamSpec, Stream!Spec
=============================================================================
