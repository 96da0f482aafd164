-------------------------- MODULE ToolExecutorProofs --------------------------
(***************************************************************************)
(* Proofs about ToolExecutor, for every number of calls and every choice   *)
(* of tool kinds.  The invariants of the queue hold because of where scans *)
(* may be suspended: a scan waits only behind a tool it started, so nothing*)
(* before the place where it resumes is still queued (ScansSettled).       *)
(* What tools answer, what they do to the context and how they are         *)
(* delivered rests on a summary of what a step may do to one tool          *)
(* (Summary), proved once for all the actions.                             *)
(***************************************************************************)
EXTENDS ToolExecutor, TLAPS, WellFoundedInduction, FiniteSetTheorems

KindFcn == [ToolIds -> Kinds \cup {NoKind}]
StatusFcn == [ToolIds -> Statuses]

\* No call before position p is absent or queued in ts.
Settled(ts, p) == \A j \in ToolIds : j < p => ts[j] \notin {"absent", "queued"}

\* Calls arrive in the order of their ids.
Arrived(ts) == \A i, j \in ToolIds : i < j /\ ts[j] # "absent" => ts[i] # "absent"

\* Exclusive and StartsInOrder of a given kind and status.
ExclusiveIn(tk, ts) ==
  \A i, j \in ToolIds : i # j /\ ts[i] = "executing" /\ ts[j] = "executing" =>
    tk[i] \in ConcurrencySafe /\ tk[j] \in ConcurrencySafe
InOrderIn(tk, ts) ==
  \A i, j \in ToolIds :
    i < j /\ ts[i] = "queued" /\ ts[j] \in {"executing", "completed", "yielded"}
      => tk[j] \in Unknown

\* No suspended scan has queued calls behind it.
ScansSettled(bag, ts) == \A p \in Positions : bag[p] > 0 => Settled(ts, p)

\* QueueIsWatched of a given status and bag of scans.
Watched(ts, bag) ==
  (\E i \in ToolIds : ts[i] = "queued") /\ (\A i \in ToolIds : ts[i] # "executing")
    => \E p \in Positions : bag[p] > 0

ItemAtTool == pc = "item" => pos \in ToolIds

\* The part of the inductive invariant that is about the queue.
QueueInv(tk, ts, bag, p) ==
  /\ Arrived(ts) /\ ScansSettled(bag, ts) /\ Settled(ts, p)
  /\ ExclusiveIn(tk, ts) /\ InOrderIn(tk, ts) /\ Watched(ts, bag)

\* The inductive invariant.
IInv == TypeOK /\ ItemAtTool /\ QueueInv(kind, status, scans, cpos)

-----------------------------------------------------------------------------
\* What a scan may start: the tool it picks has only settled calls before it,
\* so whatever becomes of it the order and the exclusion survive.
LEMMA StartLemma ==
  ASSUME NEW tk \in KindFcn, NEW ts \in StatusFcn, NEW p \in Positions \cup {0},
         Settled(ts, p), Arrived(ts), ExclusiveIn(tk, ts), InOrderIn(tk, ts),
         NEW i \in Startable(tk, ts, p), NEW s \in {"executing", "completed"}
  PROVE  /\ [ts EXCEPT ![i] = s] \in StatusFcn
         /\ Settled([ts EXCEPT ![i] = s], i + 1)
         /\ Arrived([ts EXCEPT ![i] = s])
         /\ ExclusiveIn(tk, [ts EXCEPT ![i] = s])
         /\ InOrderIn(tk, [ts EXCEPT ![i] = s])
         /\ \A q \in Positions \cup {0} : Settled(ts, q) => Settled([ts EXCEPT ![i] = s], q)
PROOF
<1>. DEFINE t == [ts EXCEPT ![i] = s]
<1>1. i \in ToolIds /\ ts[i] = "queued" /\ CanExecute(tk, ts, i)
  BY DEF Startable
<1>2. t \in StatusFcn /\ t[i] = s /\ \A j \in ToolIds : j # i => t[j] = ts[j]
  BY <1>1 DEF StatusFcn, Statuses
<1>3. ASSUME NEW j \in ToolIds, j < i  PROVE ts[j] \notin {"absent", "queued"}
  <2>1. ts[j] # "absent"
    BY <1>1, <1>3 DEF Arrived, ToolIds
  <2>2. ASSUME ts[j] = "queued" PROVE FALSE
    <3>1. j >= p
      BY <2>2, ToolBounds DEF Settled, ToolIds, Positions
    <3>2. tk[j] \in ConcurrencySafe /\ ~CanExecute(tk, ts, j)
      BY <3>1, <2>2, <1>3 DEF Startable
    <3>3. PICK k \in ToolIds : ts[k] = "executing" /\ tk[k] \notin ConcurrencySafe
      BY <3>2 DEF CanExecute
    <3>. QED  BY <3>3, <1>1 DEF CanExecute
  <2>. QED  BY <2>1, <2>2
<1>4. Settled(t, i + 1)
  BY <1>1, <1>2, <1>3 DEF Settled, ToolIds
<1>5. Arrived(t)
  BY <1>1, <1>2 DEF Arrived
<1>6. ExclusiveIn(tk, t)
  BY <1>1, <1>2 DEF ExclusiveIn, CanExecute
<1>7. InOrderIn(tk, t)
  BY <1>1, <1>2, <1>3 DEF InOrderIn, ToolIds
<1>8. \A q \in Positions \cup {0} : Settled(ts, q) => Settled(t, q)
  BY <1>1, <1>2 DEF Settled
<1>. QED  BY <1>2, <1>4, <1>5, <1>6, <1>7, <1>8

\* A nonempty set of naturals has a least element.
LEMMA LeastElement ==
  ASSUME NEW T, T \subseteq Nat, T # {}
  PROVE  \E x \in T : \A y \in T : x <= y
PROOF
<1>1. PICK x \in T : \A y \in T : <<y, x>> \notin OpToRel(<, Nat)
  BY NatLessThanWellFounded, WFMin, Zenon
<1>2. \A y \in T : ~(y < x)
  BY <1>1 DEF OpToRel
<1>. QED  BY <1>2

\* A scan that starts nothing leaves a queue only behind a running tool.
LEMMA IdleScanLemma ==
  ASSUME NEW tk \in KindFcn, NEW ts \in StatusFcn, NEW p \in Positions \cup {0},
         Settled(ts, p), Startable(tk, ts, p) = {},
         NEW q \in ToolIds, ts[q] = "queued"
  PROVE  \E j \in ToolIds : ts[j] = "executing"
PROOF
<1>. SUFFICES ASSUME \A j \in ToolIds : ts[j] # "executing" PROVE FALSE
  OBVIOUS
<1>. DEFINE T == {i \in ToolIds : ts[i] = "queued"}
<1>1. T \subseteq Nat /\ T # {}
  BY DEF ToolIds
<1>2. PICK i \in T : \A j \in T : i <= j
  BY <1>1, LeastElement
<1>3. i \in ToolIds /\ p \in Int
  BY ToolBounds DEF ToolIds, Positions
<1>4. i >= p /\ CanExecute(tk, ts, i)
  BY <1>3, ToolBounds DEF Settled, CanExecute, ToolIds
<1>5. \A k \in ToolIds : k < i => ts[k] # "queued"
  BY <1>2 DEF ToolIds
<1>6. i \in Startable(tk, ts, p)
  BY <1>3, <1>4, <1>5 DEF Startable
<1>. QED  BY <1>6

\* What a stretch of a background scan establishes, whatever it starts.
LEMMA SegmentLemma ==
  ASSUME NEW tk \in KindFcn, NEW ts \in StatusFcn, NEW p \in Positions,
         NEW bag \in [Positions -> Nat],
         results \in [ToolIds -> Seq(Messages)], inProgress \subseteq ToolIds,
         cpos \in Positions \cup {0},
         Settled(ts, p), Arrived(ts), ExclusiveIn(tk, ts), InOrderIn(tk, ts),
         ScansSettled(bag, ts), Settled(ts, cpos),
         Segment(tk, ts, p, bag)
  PROVE  /\ status' \in StatusFcn /\ results' \in [ToolIds -> Seq(Messages)]
         /\ inProgress' \subseteq ToolIds /\ scans' \in [Positions -> Nat]
         /\ Arrived(status') /\ ExclusiveIn(tk, status') /\ InOrderIn(tk, status')
         /\ ScansSettled(scans', status') /\ Settled(status', cpos)
         /\ Watched(status', scans')
PROOF
<1>1. CASE Startable(tk, ts, p) = {} /\ status' = ts /\ scans' = bag
           /\ UNCHANGED <<results, inProgress>>
  <2>1. Watched(ts, bag)
    BY <1>1, IdleScanLemma DEF Watched
  <2>. QED  BY <1>1, <2>1
<1>2. ASSUME NEW i \in Startable(tk, ts, p), Start(ts, i),
             scans' = Plus(Plus(bag, i + 1, 1), 1, SpawnedBy(i))
      PROVE  /\ status' \in StatusFcn /\ results' \in [ToolIds -> Seq(Messages)]
             /\ inProgress' \subseteq ToolIds /\ scans' \in [Positions -> Nat]
             /\ Arrived(status') /\ ExclusiveIn(tk, status') /\ InOrderIn(tk, status')
             /\ ScansSettled(scans', status') /\ Settled(status', cpos)
             /\ Watched(status', scans')
  <2>. DEFINE s == IF AbortReason(i) = "none" THEN "executing" ELSE "completed"
  <2>1. i \in ToolIds /\ i + 1 \in Positions /\ 1 \in Positions /\ status' = [ts EXCEPT ![i] = s]
    BY <1>2, ToolBounds DEF Startable, Start, ToolIds, Positions
  <2>2. /\ status' \in StatusFcn /\ Settled(status', i + 1)
        /\ Arrived(status') /\ ExclusiveIn(tk, status') /\ InOrderIn(tk, status')
        /\ \A q \in Positions \cup {0} : Settled(ts, q) => Settled(status', q)
    BY <2>1, StartLemma
  <2>3. results' \in [ToolIds -> Seq(Messages)] /\ inProgress' \subseteq ToolIds
    <3>1. AbortReason(i) = "none" \/ <<AbortReason(i)>> \in Seq(Messages)
      BY DEF AbortReason, Messages, AbortReasons
    <3>. QED  BY <1>2, <2>1, <3>1 DEF Start
  <2>4. /\ scans' \in [Positions -> Nat] /\ scans'[i + 1] > 0
        /\ \A q \in Positions : q # i + 1 /\ q # 1 => scans'[q] = bag[q]
    BY <1>2, <2>1 DEF Plus, SpawnedBy
  <2>5. Settled(status', 1)
    BY DEF Settled, ToolIds
  <2>6. ScansSettled(scans', status')
    BY <2>2, <2>4, <2>5 DEF ScansSettled
  <2>7. Watched(status', scans')
    BY <2>1, <2>4 DEF Watched
  <2>. QED  BY <2>2, <2>3, <2>4, <2>6, <2>7
<1>. QED  BY <1>1, <1>2 DEF Segment

\* A tool that completes or is delivered disturbs nothing in the queue, as long
\* as a completion leaves a scan behind (bag2).
LEMMA LeaveLemma ==
  ASSUME NEW tk \in KindFcn, NEW ts \in StatusFcn, NEW p \in Positions \cup {0},
         NEW bag \in [Positions -> Nat], QueueInv(tk, ts, bag, p),
         NEW i \in ToolIds, NEW s \in {"completed", "yielded"},
         ts[i] \in {"executing", "completed"},
         NEW bag2 \in [Positions -> Nat], \A q \in Positions : q # 1 => bag2[q] = bag[q],
         bag2 = bag \/ bag2[1] > 0, ts[i] = "executing" => bag2[1] > 0
  PROVE  /\ [ts EXCEPT ![i] = s] \in StatusFcn
         /\ QueueInv(tk, [ts EXCEPT ![i] = s], bag2, p)
PROOF
<1>. DEFINE t == [ts EXCEPT ![i] = s]
<1>1. t \in StatusFcn /\ t[i] = s /\ \A j \in ToolIds : j # i => t[j] = ts[j]
  BY DEF StatusFcn, Statuses
<1>2. Arrived(t) /\ ExclusiveIn(tk, t) /\ InOrderIn(tk, t)
  BY <1>1 DEF QueueInv, Arrived, ExclusiveIn, InOrderIn
<1>3. \A q \in Positions \cup {0} : Settled(ts, q) => Settled(t, q)
  BY <1>1 DEF Settled
<1>4. Settled(t, 1)
  BY DEF Settled, ToolIds
<1>5. ScansSettled(bag2, t) /\ Settled(t, p)
  BY <1>3, <1>4 DEF QueueInv, ScansSettled
<1>6. 1 \in Positions
  BY ToolBounds DEF Positions
<1>7. Watched(t, bag2)
  BY <1>1, <1>6 DEF QueueInv, Watched
<1>. QED  BY <1>1, <1>2, <1>5, <1>7 DEF QueueInv

\* The initial states.
LEMMA InitLemma == Init => IInv
PROOF
<1>. SUFFICES ASSUME Init PROVE IInv
  OBVIOUS
<1>1. TypeOK
  <2>1. <<>> \in Seq(ToolIds) /\ [i \in ToolIds |-> <<>>] \in [ToolIds -> Seq(Messages)]
    OBVIOUS
  <2>2. 1 \in Positions
    BY ToolBounds DEF Positions
  <2>3. /\ [i \in ToolIds |-> NoKind] \in [ToolIds -> Kinds \cup {NoKind}]
        /\ [i \in ToolIds |-> "absent"] \in [ToolIds -> Statuses]
        /\ [i \in ToolIds |-> 0] \in [ToolIds -> Nat]
        /\ [p \in Positions |-> 0] \in [Positions -> Nat]
    BY DEF Statuses
  <2>. QED  BY <2>1, <2>2, <2>3 DEF Init, TypeOK
<1>2. QueueInv(kind, status, scans, cpos)
  BY DEF Init, QueueInv, Arrived, ScansSettled, Settled, ExclusiveIn, InOrderIn, Watched,
         ToolIds, Positions
<1>. QED  BY <1>1, <1>2 DEF Init, IInv, ItemAtTool

-----------------------------------------------------------------------------
(* One lemma per family of actions                                         *)

\* Steps of the consumer and of the environment that leave the queue alone.
LEMMA QuietLemma ==
  ASSUME IInv, UNCHANGED <<kind, status, scans, cpos>>
  PROVE  QueueInv(kind, status, scans, cpos)'
PROOF BY DEF IInv, QueueInv, Arrived, ScansSettled, Settled, ExclusiveIn, InOrderIn, Watched

\* A background scan.
LEMMA ScanStepLemma ==
  ASSUME IInv, NEW p \in Positions, ScanStep(p)
  PROVE  IInv'
PROOF
<1>. DEFINE bag == Plus(scans, p, -1)
<1>1. /\ kind \in KindFcn /\ status \in StatusFcn /\ scans \in [Positions -> Nat]
      /\ scans[p] > 0 /\ cpos \in Positions \cup {0}
      /\ results \in [ToolIds -> Seq(Messages)] /\ inProgress \subseteq ToolIds
  BY DEF IInv, TypeOK, KindFcn, StatusFcn, ScanStep
<1>2. bag \in [Positions -> Nat] /\ \A q \in Positions : bag[q] > 0 => scans[q] > 0
  BY <1>1 DEF Plus
<1>3. ScansSettled(bag, status) /\ Settled(status, p)
  BY <1>1, <1>2 DEF IInv, QueueInv, ScansSettled
<1>4. Segment(kind, status, p, bag) /\ UNCHANGED <<kind, cpos>>
  BY DEF ScanStep, consumerVars
<1>5. /\ status' \in StatusFcn /\ results' \in [ToolIds -> Seq(Messages)]
      /\ inProgress' \subseteq ToolIds /\ scans' \in [Positions -> Nat]
      /\ QueueInv(kind, status', scans', cpos)
  BY <1>1, <1>2, <1>3, <1>4, SegmentLemma DEF IInv, QueueInv
<1>6. TypeOK'
  BY <1>5 DEF IInv, TypeOK, ScanStep, abortVars, consumerVars, StatusFcn
<1>7. QueueInv(kind, status, scans, cpos)'
  BY <1>4, <1>5 DEF QueueInv, Arrived, ScansSettled, Settled, ExclusiveIn, InOrderIn, Watched
<1>. QED  BY <1>6, <1>7 DEF IInv, ItemAtTool, ScanStep, consumerVars

\* The scan the consumer awaits.
LEMMA OwnSegmentLemma ==
  ASSUME IInv, NEW p \in Positions, Settled(status, p), OwnSegment(p), UNCHANGED kind
  PROVE  /\ status' \in StatusFcn /\ results' \in [ToolIds -> Seq(Messages)]
         /\ inProgress' \subseteq ToolIds /\ scans' \in [Positions -> Nat]
         /\ cpos' \in Positions \cup {0}
         /\ QueueInv(kind, status, scans, cpos)'
PROOF
<1>1. /\ kind \in KindFcn /\ status \in StatusFcn /\ scans \in [Positions -> Nat]
      /\ results \in [ToolIds -> Seq(Messages)] /\ inProgress \subseteq ToolIds
      /\ QueueInv(kind, status, scans, cpos)
  BY DEF IInv, TypeOK, KindFcn, StatusFcn
<1>2. CASE Startable(kind, status, p) = {} /\ cpos' = 0
           /\ UNCHANGED <<status, results, inProgress, scans>>
  <2>1. Settled(status, 0)
    BY DEF Settled, ToolIds
  <2>. QED
    BY <1>1, <1>2, <2>1
       DEF QueueInv, Arrived, ScansSettled, Settled, ExclusiveIn, InOrderIn, Watched
<1>3. ASSUME NEW i \in Startable(kind, status, p), Start(status, i), cpos' = i + 1,
             scans' = Plus(scans, 1, SpawnedBy(i))
      PROVE  /\ status' \in StatusFcn /\ results' \in [ToolIds -> Seq(Messages)]
             /\ inProgress' \subseteq ToolIds /\ scans' \in [Positions -> Nat]
             /\ cpos' \in Positions \cup {0}
             /\ QueueInv(kind, status', scans', cpos')
  <2>. DEFINE s == IF AbortReason(i) = "none" THEN "executing" ELSE "completed"
  <2>1. i \in ToolIds /\ i + 1 \in Positions /\ 1 \in Positions
        /\ status' = [status EXCEPT ![i] = s]
    BY <1>3, ToolBounds DEF Startable, Start, ToolIds, Positions
  <2>2. /\ status' \in StatusFcn /\ Settled(status', i + 1)
        /\ Arrived(status') /\ ExclusiveIn(kind, status') /\ InOrderIn(kind, status')
        /\ \A q \in Positions \cup {0} : Settled(status, q) => Settled(status', q)
    BY <1>1, <2>1, StartLemma DEF QueueInv
  <2>3. results' \in [ToolIds -> Seq(Messages)] /\ inProgress' \subseteq ToolIds
    <3>1. AbortReason(i) = "none" \/ <<AbortReason(i)>> \in Seq(Messages)
      BY DEF AbortReason, Messages, AbortReasons
    <3>. QED  BY <1>1, <1>3, <2>1, <3>1 DEF Start
  <2>4. /\ scans' \in [Positions -> Nat]
        /\ AbortReason(i) # "none" => scans'[1] > 0
        /\ \A q \in Positions : q # 1 => scans'[q] = scans[q]
    BY <1>1, <1>3, <2>1 DEF Plus, SpawnedBy
  <2>5. Settled(status', 1)
    BY DEF Settled, ToolIds
  <2>6. ScansSettled(scans', status')
    BY <1>1, <2>2, <2>4, <2>5 DEF QueueInv, ScansSettled
  <2>7. Watched(status', scans')
    <3>1. CASE AbortReason(i) = "none"
      <4>1. status'[i] = "executing"
        BY <3>1, <2>1, <1>1 DEF StatusFcn
      <4>. QED  BY <4>1, <2>1 DEF Watched
    <3>2. CASE AbortReason(i) # "none"
      BY <3>2, <2>1, <2>4 DEF Watched
    <3>. QED  BY <3>1, <3>2
  <2>. QED  BY <1>3, <2>1, <2>2, <2>3, <2>4, <2>6, <2>7 DEF QueueInv
<1>4. QueueInv(kind, status', scans', cpos') => QueueInv(kind, status, scans, cpos)'
  BY DEF QueueInv, Arrived, ScansSettled, Settled, ExclusiveIn, InOrderIn, Watched
<1>. QED  BY <1>2, <1>3, <1>4 DEF OwnSegment

\* A tool finishes: Complete leaves a scan behind.
LEMMA CompleteLemma ==
  ASSUME IInv, NEW i \in ToolIds, Running(i), NEW rs \in Seq(Messages), Complete(i, rs),
         UNCHANGED <<kind, progress, inProgress, abortVars, consumerVars, armed>>
  PROVE  IInv'
PROOF
<1>1. /\ kind \in KindFcn /\ status \in StatusFcn /\ scans \in [Positions -> Nat]
      /\ cpos \in Positions \cup {0} /\ status[i] = "executing" /\ 1 \in Positions
      /\ QueueInv(kind, status, scans, cpos)
  BY ToolBounds DEF IInv, TypeOK, KindFcn, StatusFcn, Running, Positions
<1>2. /\ scans' \in [Positions -> Nat] /\ scans'[1] > 0
      /\ \A q \in Positions : q # 1 => scans'[q] = scans[q]
  BY <1>1 DEF Complete, Plus
<1>3. status' = [status EXCEPT ![i] = "completed"]
  BY DEF Complete
<1>4. status' \in StatusFcn /\ QueueInv(kind, status', scans', cpos)
  BY <1>1, <1>2, <1>3, LeaveLemma
<1>5. results' \in [ToolIds -> Seq(Messages)] /\ context' \in Seq(ToolIds)
  <2>1. Append(context, i) \in Seq(ToolIds) /\ context \in Seq(ToolIds)
    BY DEF IInv, TypeOK
  <2>2. results \in [ToolIds -> Seq(Messages)]
    BY DEF IInv, TypeOK
  <2>. QED  BY <2>1, <2>2 DEF Complete
<1>6. TypeOK'
  BY <1>2, <1>4, <1>5, SMTT(20) DEF IInv, TypeOK, abortVars, consumerVars, StatusFcn
<1>7. QueueInv(kind, status, scans, cpos)'
  BY <1>4 DEF QueueInv, Arrived, ScansSettled, Settled, ExclusiveIn, InOrderIn, Watched,
              consumerVars
<1>. QED  BY <1>6, <1>7 DEF IInv, ItemAtTool, consumerVars

\* The updates of a running tool.
LEMMA ToolUpdateLemma ==
  ASSUME IInv, NEW i \in ToolIds, ToolUpdate(i)
  PROVE  IInv'
PROOF
<1>. results[i] \in Seq(Messages) /\ results \in [ToolIds -> Seq(Messages)]
  BY DEF IInv, TypeOK
<1>1. CASE CancelledUpdate(i)
  <2>1. AbortReason(i) \in Messages
    BY <1>1 DEF CancelledUpdate, Cancelled, AbortReason, Messages, AbortReasons
  <2>2. Append(results[i], AbortReason(i)) \in Seq(Messages)
    BY <2>1
  <2>. QED  BY <1>1, <2>2, CompleteLemma DEF CancelledUpdate
<1>2. CASE Finish(i)
  BY <1>2, CompleteLemma DEF Finish
<1>3. CASE ProgressUpdate(i)
  <2>0. progress' \in [ToolIds -> Nat]
    BY <1>3 DEF ProgressUpdate, IInv, TypeOK
  <2>1. TypeOK'
    BY <1>3, <2>0, ZenonT(40) DEF ProgressUpdate, IInv, TypeOK, abortVars, consumerVars
  <2>2. QueueInv(kind, status, scans, cpos)'
    BY <1>3, QuietLemma DEF ProgressUpdate, consumerVars
  <2>. QED  BY <1>3, <2>1, <2>2 DEF ProgressUpdate, IInv, ItemAtTool, consumerVars
<1>4. ASSUME NEW r \in {"ok", "err"}, ResultUpdate(i, r)  PROVE IInv'
  <2>1. Append(results[i], r) \in Seq(Messages)
    BY DEF Messages
  <2>2. results' \in [ToolIds -> Seq(Messages)] /\ hasErrored' \in BOOLEAN
    BY <1>4, <2>1 DEF ResultUpdate, IInv, TypeOK
  <2>3. TypeOK'
    BY <1>4, <2>2 DEF ResultUpdate, IInv, TypeOK, consumerVars
  <2>4. QueueInv(kind, status, scans, cpos)'
    BY <1>4, QuietLemma DEF ResultUpdate, consumerVars
  <2>. QED  BY <1>4, <2>3, <2>4 DEF ResultUpdate, IInv, ItemAtTool, consumerVars
<1>5. CASE TrailingUpdate(i)
  <2>1. Append(results[i], "aux") \in Seq(Messages)
    BY DEF Messages
  <2>2. results' \in [ToolIds -> Seq(Messages)]
    BY <1>5, <2>1 DEF TrailingUpdate
  <2>3. TypeOK'
    BY <1>5, <2>2 DEF TrailingUpdate, IInv, TypeOK, abortVars, consumerVars
  <2>4. QueueInv(kind, status, scans, cpos)'
    BY <1>5, QuietLemma DEF TrailingUpdate, consumerVars
  <2>. QED  BY <1>5, <2>3, <2>4 DEF TrailingUpdate, IInv, ItemAtTool, consumerVars
<1>6. CASE RejectPermission(i)
  <2>1. TypeOK'
    BY <1>6 DEF RejectPermission, IInv, TypeOK, toolVars, consumerVars
  <2>2. QueueInv(kind, status, scans, cpos)'
    BY <1>6, QuietLemma DEF RejectPermission, toolVars, consumerVars
  <2>. QED  BY <1>6, <2>1, <2>2 DEF RejectPermission, IInv, ItemAtTool, consumerVars
<1>. QED  BY <1>1, <1>2, <1>3, <1>4, <1>5, <1>6 DEF ToolUpdate

\* The steps of the consumer that change no status.
LEMMA ConsumerQuietLemma ==
  ASSUME IInv,
         \/ StreamMessage \/ StreamEnd \/ Discard \/ LoopExit \/ OwnScanReturns
         \/ StreamPassEnd \/ Park \/ NextRound \/ FinalPassEnd \/ Wake
         \/ PassProgress \/ Resume \/ \E reason \in {"interrupt", "abort"} : UserAbort(reason)
  PROVE  IInv'
PROOF
<1>. USE DEF toolVars, abortVars, consumerVars
<1>1. QueueInv(kind, status, scans, cpos)'
  BY QuietLemma DEF StreamMessage, StreamEnd, Discard, LoopExit, OwnScanReturns, StreamPassEnd,
       Park, NextRound, FinalPassEnd, Wake, PassProgress, Resume, UserAbort
<1>2. 1 \in Positions /\ Executing \subseteq ToolIds
  BY ToolBounds DEF Positions, Executing
<1>3. CASE \/ StreamMessage \/ StreamEnd \/ Discard \/ LoopExit \/ OwnScanReturns
           \/ StreamPassEnd \/ Park \/ NextRound \/ FinalPassEnd \/ Wake
           \/ \E reason \in {"interrupt", "abort"} : UserAbort(reason)
  <2>1. TypeOK'
    <3>1. CASE StreamMessage \/ StreamEnd \/ Discard \/ LoopExit \/ OwnScanReturns
      BY <1>2, <3>1, ZenonT(40) DEF IInv, TypeOK, StreamMessage, StreamEnd, Discard, LoopExit, OwnScanReturns
    <3>2. CASE StreamPassEnd \/ NextRound \/ FinalPassEnd
      BY <1>2, <3>2 DEF IInv, TypeOK, StreamPassEnd, NextRound, FinalPassEnd
    <3>3. CASE Park \/ Wake
      BY <1>2, <3>3 DEF IInv, TypeOK, Park, Wake
    <3>4. CASE \E reason \in {"interrupt", "abort"} : UserAbort(reason)
      BY <3>4 DEF IInv, TypeOK, UserAbort
    <3>. QED  BY <1>3, <3>1, <3>2, <3>3, <3>4
  <2>2. ItemAtTool'
    BY <1>3 DEF IInv, ItemAtTool, StreamMessage, StreamEnd, Discard, LoopExit, OwnScanReturns,
         StreamPassEnd, Park, NextRound, FinalPassEnd, Wake, UserAbort
  <2>. QED  BY <1>1, <2>1, <2>2 DEF IInv
<1>4. CASE PassProgress
  <2>1. PICK i \in ToolIds : progress[i] > 0 /\ progress' = [progress EXCEPT ![i] = @ - 1]
                             /\ pos' = i
    BY <1>4 DEF PassProgress
  <2>2. progress' \in [ToolIds -> Nat] /\ pos' \in Positions
    <3>1. progress \in [ToolIds -> Nat]
      BY DEF IInv, TypeOK
    <3>2. progress[i] - 1 \in Nat
      BY <2>1, <3>1
    <3>3. progress' \in [ToolIds -> Nat]
      BY <2>1, <3>1, <3>2
    <3>4. i \in Positions
      BY ToolBounds DEF ToolIds, Positions
    <3>. QED  BY <2>1, <3>3, <3>4
  <2>3. TypeOK' /\ ItemAtTool'
    BY <1>4, <2>1, <2>2 DEF PassProgress, IInv, TypeOK, ItemAtTool
  <2>. QED  BY <1>1, <2>3 DEF IInv
<1>5. CASE Resume
  <2>1. inProgress' \subseteq ToolIds /\ pos' \in Positions
    <3>1. pos \in ToolIds /\ inProgress \subseteq ToolIds
      BY <1>5 DEF Resume, IInv, TypeOK, ItemAtTool
    <3>2. pos \in Positions /\ pos + 1 \in Positions
      BY <3>1, ToolBounds DEF ToolIds, Positions
    <3>. QED  BY <1>5, <3>1, <3>2 DEF Resume
  <2>2. TypeOK' /\ ItemAtTool'
    BY <1>5, <2>1 DEF Resume, IInv, TypeOK, ItemAtTool
  <2>. QED  BY <1>1, <2>2 DEF IInv
<1>. QED  BY <1>3, <1>4, <1>5

\* A round of getRemainingResults: its scan starts at 1 or goes on at cpos.
LEMMA ConsumerScanLemma ==
  ASSUME IInv, LoopRound \/ OwnScanStep
  PROVE  IInv'
PROOF
<1>1. PICK p \in Positions : Settled(status, p) /\ OwnSegment(p)
  <2>1. CASE LoopRound
    <3>1. 1 \in Positions /\ Settled(status, 1)
      BY ToolBounds DEF Positions, Settled, ToolIds
    <3>. QED  BY <2>1, <3>1 DEF LoopRound
  <2>2. CASE OwnScanStep
    <3>1. cpos \in Positions /\ Settled(status, cpos)
      BY <2>2, ToolBounds DEF OwnScanStep, IInv, TypeOK, QueueInv
    <3>. QED  BY <2>2, <3>1 DEF OwnScanStep
  <2>. QED  BY <2>1, <2>2
<1>2. /\ status' \in StatusFcn /\ results' \in [ToolIds -> Seq(Messages)]
      /\ inProgress' \subseteq ToolIds /\ scans' \in [Positions -> Nat]
      /\ cpos' \in Positions \cup {0}
      /\ QueueInv(kind, status, scans, cpos)'
  BY <1>1, OwnSegmentLemma DEF LoopRound, OwnScanStep
<1>3. TypeOK' /\ ItemAtTool'
  BY <1>2, SMTT(20) DEF IInv, TypeOK, ItemAtTool, StatusFcn, LoopRound, OwnScanStep, abortVars
<1>. QED  BY <1>2, <1>3 DEF IInv

\* The results of a tool are delivered.
LEMMA PassResultsLemma ==
  ASSUME IInv, PassResults
  PROVE  IInv'
PROOF
<1>1. PICK i \in ToolIds : /\ status[i] = "completed"
                           /\ status' = [status EXCEPT ![i] = "yielded"]
                           /\ out' = Append(out, i) /\ pos' = i
  BY DEF PassResults
<1>2. /\ kind \in KindFcn /\ status \in StatusFcn /\ scans \in [Positions -> Nat]
      /\ cpos \in Positions \cup {0} /\ out \in Seq(ToolIds)
  BY DEF IInv, TypeOK, KindFcn, StatusFcn
<1>3. status' \in StatusFcn /\ QueueInv(kind, status', scans, cpos)
  BY <1>1, <1>2, LeaveLemma DEF IInv
<1>4. QueueInv(kind, status, scans, cpos)'
  BY <1>3 DEF PassResults, QueueInv, Arrived, ScansSettled, Settled, ExclusiveIn, InOrderIn,
              Watched
<1>5. out' \in Seq(ToolIds) /\ pos' \in Positions
  BY <1>1, <1>2, ToolBounds DEF ToolIds, Positions
<1>6. TypeOK' /\ ItemAtTool'
  BY <1>1, <1>3, <1>5 DEF PassResults, IInv, TypeOK, ItemAtTool, StatusFcn, abortVars
<1>. QED  BY <1>4, <1>6 DEF IInv

\* A call arrives: the queue grows at its end, where no scan has been yet.
LEMMA AddToolLemma ==
  ASSUME IInv, NEW k \in Kinds, AddTool(k)
  PROVE  IInv'
PROOF
<1>1. PICK i \in ToolIds :
        /\ status[i] = "absent" /\ \A j \in 1..(i - 1) : status[j] # "absent"
        /\ kind' = [kind EXCEPT ![i] = k]
        /\ IF k \in Unknown
           THEN /\ status' = [status EXCEPT ![i] = "completed"]
                /\ results' = [results EXCEPT ![i] = <<"unknown">>]
                /\ UNCHANGED <<inProgress, scans>>
           ELSE Segment(kind', [status EXCEPT ![i] = "queued"], 1, scans)
  BY DEF AddTool
<1>2. /\ kind \in KindFcn /\ status \in StatusFcn /\ scans \in [Positions -> Nat]
      /\ cpos \in Positions \cup {0} /\ results \in [ToolIds -> Seq(Messages)]
      /\ inProgress \subseteq ToolIds /\ QueueInv(kind, status, scans, cpos)
  BY DEF IInv, TypeOK, KindFcn, StatusFcn
<1>3. kind' \in KindFcn
  BY <1>1, <1>2 DEF KindFcn
<1>4. \A j \in ToolIds : j >= i => status[j] = "absent"
  BY <1>1, <1>2 DEF QueueInv, Arrived, ToolIds
<1>5. \A j \in ToolIds : j < i => status[j] # "absent"
  BY <1>1 DEF ToolIds
<1>6. 1 \in Positions /\ \A ts \in StatusFcn : Settled(ts, 1)
  BY ToolBounds DEF Positions, Settled, ToolIds
<1>7. ASSUME NEW s \in {"queued", "completed"}, s = "completed" => k \in Unknown,
             NEW t, t = [status EXCEPT ![i] = s]
      PROVE  /\ t \in StatusFcn /\ Arrived(t) /\ ExclusiveIn(kind', t) /\ InOrderIn(kind', t)
             /\ ScansSettled(scans, t) /\ Settled(t, cpos)
  <2>1. t \in StatusFcn /\ t[i] = s /\ \A j \in ToolIds : j # i => t[j] = status[j]
    BY <1>2, <1>7 DEF StatusFcn, Statuses
  <2>2. Arrived(t)
    BY <2>1, <1>4, <1>5 DEF Arrived, ToolIds
  <2>3. kind'[i] = k /\ \A j \in ToolIds : j # i => kind'[j] = kind[j]
    BY <1>1, <1>2 DEF KindFcn
  <2>4. ExclusiveIn(kind', t)
    BY <1>2, <2>1, <2>3 DEF QueueInv, ExclusiveIn
  <2>5. InOrderIn(kind', t)
    <3>. SUFFICES ASSUME NEW a \in ToolIds, NEW b \in ToolIds, a < b, t[a] = "queued",
                         t[b] \in {"executing", "completed", "yielded"}
                  PROVE  kind'[b] \in Unknown
      BY DEF InOrderIn
    <3>1. CASE b = i
      BY <3>1, <2>1, <2>3, <1>7
    <3>2. CASE b # i
      <4>1. t[b] = status[b] /\ b < i
        BY <3>2, <2>1, <1>4 DEF ToolIds
      <4>2. a # i /\ status[a] = "queued"
        BY <4>1, <2>1 DEF ToolIds
      <4>. QED  BY <3>2, <4>1, <4>2, <2>3, <1>2 DEF QueueInv, InOrderIn
    <3>. QED  BY <3>1, <3>2
  <2>6. \A q \in Positions \cup {0} : Settled(status, q) => Settled(t, q)
    BY <2>1, <1>1 DEF Settled
  <2>7. ScansSettled(scans, t) /\ Settled(t, cpos)
    BY <2>6, <1>2 DEF QueueInv, ScansSettled
  <2>. QED  BY <2>1, <2>2, <2>4, <2>5, <2>7
<1>8. /\ status' \in StatusFcn /\ results' \in [ToolIds -> Seq(Messages)]
      /\ inProgress' \subseteq ToolIds /\ scans' \in [Positions -> Nat]
      /\ QueueInv(kind', status', scans', cpos)
  <2>1. CASE k \in Unknown
    <3>1. status' = [status EXCEPT ![i] = "completed"] /\ UNCHANGED <<inProgress, scans>>
          /\ results' = [results EXCEPT ![i] = <<"unknown">>]
      BY <1>1, <2>1
    <3>2. <<"unknown">> \in Seq(Messages)
      BY DEF Messages
    <3>3. \A j \in ToolIds : j # i => status'[j] = status[j]
      BY <3>1, <1>2 DEF StatusFcn
    <3>4. status'[i] = "completed" /\ status[i] = "absent"
      BY <3>1, <1>1, <1>2 DEF StatusFcn
    <3>5. Watched(status', scans')
      BY <3>1, <3>3, <3>4, <1>2 DEF QueueInv, Watched
    <3>. QED  BY <1>2, <1>7, <2>1, <3>1, <3>2, <3>5 DEF QueueInv
  <2>2. CASE k \notin Unknown
    <3>1. Segment(kind', [status EXCEPT ![i] = "queued"], 1, scans)
      BY <1>1, <2>2
    <3>2. PICK t : t = [status EXCEPT ![i] = "queued"]
      OBVIOUS
    <3>3. /\ t \in StatusFcn /\ Arrived(t) /\ ExclusiveIn(kind', t) /\ InOrderIn(kind', t)
          /\ ScansSettled(scans, t) /\ Settled(t, cpos)
      BY <1>7, <3>2
    <3>4. Segment(kind', t, 1, scans)
      BY <3>1, <3>2
    <3>. QED  BY <1>2, <1>3, <1>6, <3>3, <3>4, SegmentLemma DEF QueueInv
  <2>. QED  BY <2>1, <2>2
<1>9. QueueInv(kind, status, scans, cpos)'
  BY <1>8 DEF AddTool, QueueInv, Arrived, ScansSettled, Settled, ExclusiveIn, InOrderIn, Watched
<1>10. TypeOK' /\ ItemAtTool'
  BY <1>3, <1>6, <1>8
     DEF AddTool, IInv, TypeOK, ItemAtTool, StatusFcn, KindFcn, abortVars
<1>. QED  BY <1>9, <1>10 DEF IInv

-----------------------------------------------------------------------------
\* The invariant is inductive.
THEOREM Inductive == Spec => []IInv
PROOF
<1>1. Init => IInv
  BY InitLemma
<1>2. IInv /\ [Next]_vars => IInv'
  <2>. SUFFICES ASSUME IInv, [Next]_vars PROVE IInv'
    OBVIOUS
  <2>1. CASE UNCHANGED vars
    <3>1. QueueInv(kind, status, scans, cpos)'
      BY <2>1, QuietLemma DEF vars, toolVars, consumerVars
    <3>. QED
      BY <2>1, <3>1 DEF IInv, TypeOK, ItemAtTool, vars, toolVars, abortVars, consumerVars
  <2>2. ASSUME NEW k \in Kinds, AddTool(k)  PROVE IInv'
    BY <2>2, AddToolLemma
  <2>3. CASE PassResults
    BY <2>3, PassResultsLemma
  <2>4. CASE LoopRound \/ OwnScanStep
    BY <2>4, ConsumerScanLemma
  <2>5. CASE \/ StreamMessage \/ StreamEnd \/ Discard \/ LoopExit \/ OwnScanReturns
             \/ StreamPassEnd \/ Park \/ NextRound \/ FinalPassEnd \/ Wake
             \/ PassProgress \/ Resume
             \/ \E reason \in {"interrupt", "abort"} : UserAbort(reason)
    BY <2>5, ConsumerQuietLemma
  <2>6. ASSUME NEW p \in Positions, ScanStep(p)  PROVE IInv'
    BY <2>6, ScanStepLemma
  <2>7. ASSUME NEW i \in ToolIds, ToolUpdate(i)  PROVE IInv'
    BY <2>7, ToolUpdateLemma
  <2>. QED
    BY <2>1, <2>2, <2>3, <2>4, <2>5, <2>6, <2>7
       DEF Next, Consumer, ConsumerSync, ConsumerAsync, Terminated
<1>. QED  BY <1>1, <1>2, PTL DEF Spec

\* The types of the executor's state, for any number and kinds of calls.
THEOREM TypeCorrect == Spec => []TypeOK
PROOF
<1>1. IInv => TypeOK
  BY DEF IInv
<1>. QED  BY <1>1, Inductive, PTL

\* "Non-concurrent tools must execute alone": for every number of calls, of
\* suspended scans and of executing tools.
THEOREM Exclusion == Spec => []Exclusive
PROOF
<1>1. IInv => Exclusive
  BY DEF IInv, QueueInv, ExclusiveIn, Exclusive, Executing, Safe
<1>. QED  BY <1>1, Inductive, PTL

\* The queue is served in the order of the calls.
THEOREM QueueOrder == Spec => []StartsInOrder
PROOF
<1>1. IInv => StartsInOrder
  BY DEF IInv, QueueInv, InOrderIn, StartsInOrder
<1>. QED  BY <1>1, Inductive, PTL

\* A queued call always has a running tool or a suspended scan to take it on.
THEOREM NothingForgotten == Spec => []QueueIsWatched
PROOF
<1>1. IInv => QueueIsWatched
  BY DEF IInv, QueueInv, Watched, QueueIsWatched, Executing
<1>. QED  BY <1>1, Inductive, PTL

-----------------------------------------------------------------------------
(* What a step may do to one tool.  The theorems about results, contexts   *)
(* and deliveries follow from this summary alone.                          *)

\* What the executing tools allow: a tool that starts now, seen with the new kinds.
MayStart(i) ==
  \A j \in ToolIds : status[j] = "executing" =>
    kind[j] \in ConcurrencySafe /\ kind'[i] \in ConcurrencySafe

Stays(i) == status'[i] = status[i] /\ results'[i] = results[i]
Queues(i) == status[i] = "absent" /\ status'[i] = "queued" /\ results'[i] = results[i]
\* No other tool does more in the same step than to enter the queue.
OnlyLeaver(i) == \A j \in ToolIds : j # i => Stays(j) \/ Queues(j)
Starts(i) == /\ status[i] \in {"absent", "queued"} /\ status'[i] = "executing"
             /\ results'[i] = results[i] /\ MayStart(i) /\ OnlyLeaver(i)
\* Completed on the spot: the call was cancelled, or names no tool.
GivenUp(i) == /\ status[i] \in {"absent", "queued"} /\ status'[i] = "completed"
              /\ \E r \in AbortReasons \cup {"unknown"} : results'[i] = <<r>>
              /\ MayStart(i) \/ kind'[i] \in Unknown
              /\ OnlyLeaver(i)
Collects(i) == /\ status[i] = "executing" /\ status'[i] = "executing"
               /\ \/ \E r \in {"ok", "err"} :
                       ~HasResult(i) /\ results'[i] = Append(results[i], r)
                  \/ HasResult(i) /\ results'[i] = Append(results[i], "aux")
Completes(i) == /\ status[i] = "executing" /\ status'[i] = "completed"
                /\ \/ HasResult(i) /\ results'[i] = results[i]
                   \/ /\ ~Errored(i)
                      /\ \E r \in AbortReasons : results'[i] = Append(results[i], r)
IsDelivered(i) == /\ status[i] = "completed" /\ status'[i] = "yielded"
                  /\ results'[i] = results[i]
                  /\ pc = "pass" /\ IsFirstStop(i) /\ progress[i] = 0
                  /\ pc' = "item" /\ item' = "results" /\ pos' = i /\ out' = Append(out, i)

ToolMoves(i) == \/ Stays(i) \/ Queues(i) \/ Starts(i) \/ GivenUp(i)
                \/ Collects(i) \/ Completes(i) \/ IsDelivered(i)

\* The kind of a call that has arrived is what it was.
KindKept == \A i \in ToolIds : status[i] # "absent" => kind'[i] = kind[i]

\* The context changes only when an unsafe tool completes.
ContextMoves == \/ context' = context
                \/ \E i \in ToolIds : ~Safe(i) /\ Completes(i) /\ context' = Append(context, i)

\* Only a running tool reports progress.
ProgressMoves == \A i \in ToolIds : \/ progress'[i] = progress[i] \/ progress'[i] < progress[i]
                                    \/ status[i] = "executing" /\ status'[i] = "executing"

OutMoves == out' = out \/ \E i \in ToolIds : IsDelivered(i)

\* Ids in progress are those of the tools that left the queue; calls arrive
\* only while the message streams in.
IdMoves == /\ \A i \in inProgress' : i \in inProgress \/ Starts(i) \/ GivenUp(i)
           /\ \A i \in ToolIds : status[i] = "absent" => status'[i] = "absent" \/ pc = "stream"

Summary == /\ \A i \in ToolIds : ToolMoves(i)
           /\ KindKept /\ ContextMoves /\ ProgressMoves /\ OutMoves /\ IdMoves

\* At most one message of a tool decides its call.
Single(i) == \A m, n \in ToolResults(i) : m = n

\* What a tool has collected, by how far it is.
ResultsInv ==
  \A i \in ToolIds :
    /\ status[i] \in {"absent", "queued"} => results[i] = <<>>
    /\ status[i] = "executing" => Single(i) /\ \A n \in ToolResults(i) : results[i][n] \in {"ok", "err"}
    /\ status[i] \in {"completed", "yielded"} => ToolResults(i) # {} /\ (Errored(i) => Single(i))

\* While an unsafe tool executes nothing after it has started.
UnsafeHoldsBack ==
  \A i, j \in ToolIds : i < j /\ status[i] = "executing" /\ ~Safe(i) =>
    status[j] \in {"absent", "queued"} \/ kind[j] \in Unknown

ContextInv ==
  /\ UnsafeHoldsBack
  /\ \A n \in DOMAIN context : status[context[n]] \in {"completed", "yielded"} /\ ~Safe(context[n])
  /\ ContextInOrder

\* No call that has arrived names an unknown tool.
AllKnown == \A i \in ToolIds : status[i] # "absent" => kind[i] \notin Unknown

\* Undelivered progress belongs to a tool that was started.
PendingRuns == \A i \in ToolIds : progress[i] > 0 => status[i] \in {"executing", "completed"}

\* What lies before the place where a pass goes on was started, and delivered
\* if it is unsafe: scans that run while an item is out start only later calls.
Passed == pc \in {"pass", "item"} =>
            \A j \in ToolIds : j < pos => /\ status[j] \notin {"absent", "queued"}
                                          /\ Safe(j) \/ status[j] = "yielded"
ItemYielded == pc = "item" /\ item = "results" => status[pos] = "yielded"
OutYielded == \A n \in DOMAIN out : status[out[n]] = "yielded"
DeliveredBefore ==
  \A n \in DOMAIN out : \A i \in ToolIds : i < out[n] => Safe(i) \/ status[i] = "yielded"
OutInOrder == \A m, n \in DOMAIN out : m < n /\ ~Safe(out[n]) => out[m] < out[n]

OrderInv == /\ PendingRuns /\ ItemYielded /\ OutYielded
            /\ AllKnown => Passed /\ DeliveredBefore /\ OutInOrder

\* What is left when the generators end.
DeliveryInv ==
  /\ \A i \in ToolIds : status[i] = "yielded" => \E n \in DOMAIN out : out[n] = i
  /\ \A i \in inProgress : \/ status[i] \in {"executing", "completed"}
                           \/ pc = "item" /\ item = "results" /\ pos = i
  /\ mode = "final" => /\ pc \in {"pass", "item", "done"}
                       /\ \A i \in ToolIds : status[i] \in {"absent", "yielded"}
  /\ pc = "done" => mode = "final"

-----------------------------------------------------------------------------
\* A start, by whichever scan: the tools that run allow it.
LEMMA StartMoves ==
  ASSUME IInv, NEW tk \in KindFcn, tk = kind', NEW ts \in StatusFcn, NEW p,
         \A j \in ToolIds : status[j] = "executing" => ts[j] = "executing" /\ tk[j] = kind[j],
         \A j \in ToolIds : ts[j] = status[j] \/ (status[j] = "absent" /\ ts[j] = "queued"),
         NEW i \in Startable(tk, ts, p), Start(ts, i)
  PROVE  /\ \A j \in ToolIds : Stays(j) \/ Queues(j) \/ Starts(j) \/ GivenUp(j)
         /\ \A j \in inProgress' : j \in inProgress \/ Starts(j) \/ GivenUp(j)
         /\ \A j \in ToolIds : ts[j] = "absent" => status'[j] = "absent"
PROOF
<1>1. i \in ToolIds /\ ts[i] = "queued" /\ CanExecute(tk, ts, i)
  BY DEF Startable
<1>2. status[i] \in {"absent", "queued"} /\ MayStart(i)
  BY <1>1 DEF CanExecute, MayStart
<1>3. results \in [ToolIds -> Seq(Messages)] /\ ts \in [ToolIds -> Statuses]
  BY DEF IInv, TypeOK, StatusFcn
<1>4. ASSUME NEW j \in ToolIds, j # i  PROVE Stays(j) \/ Queues(j)
  BY <1>3, <1>4 DEF Start, Stays, Queues
<1>. inProgress' = inProgress \cup {i} /\ (\A j \in ToolIds : j # i => status'[j] = ts[j])
  BY <1>3 DEF Start
<1>5. CASE AbortReason(i) = "none"
  <2>1. Starts(i)
    BY <1>1, <1>2, <1>3, <1>4, <1>5 DEF Start, Starts, OnlyLeaver
  <2>. QED  BY <1>1, <1>4, <2>1
<1>6. CASE AbortReason(i) # "none"
  <2>1. AbortReason(i) \in AbortReasons
    BY <1>6 DEF AbortReason, AbortReasons
  <2>2. GivenUp(i)
    BY <1>1, <1>2, <1>3, <1>4, <1>6, <2>1 DEF Start, GivenUp, OnlyLeaver
  <2>. QED  BY <1>1, <1>4, <2>2
<1>. QED  BY <1>5, <1>6

\* The consumer's steps that touch no tool, and those of the environment.
LEMMA QuietSummary ==
  ASSUME IInv,
         \/ StreamMessage \/ StreamEnd \/ Discard \/ LoopExit \/ OwnScanReturns
         \/ StreamPassEnd \/ Park \/ NextRound \/ FinalPassEnd \/ Wake \/ PassProgress \/ Resume
         \/ (\E reason \in {"interrupt", "abort"} : UserAbort(reason)) \/ UNCHANGED vars
  PROVE  Summary
PROOF
<1>1. UNCHANGED <<kind, status, results, context, out>> /\ inProgress' \subseteq inProgress
  BY DEF StreamMessage, StreamEnd, Discard, LoopExit, OwnScanReturns, StreamPassEnd, Park,
       NextRound, FinalPassEnd, Wake, PassProgress, Resume, UserAbort, vars, toolVars, consumerVars
<1>2. ProgressMoves
  <2>1. CASE PassProgress
    <3>1. PICK i \in ToolIds : progress' = [progress EXCEPT ![i] = @ - 1]
      BY <2>1 DEF PassProgress
    <3>2. progress \in [ToolIds -> Nat]
      BY DEF IInv, TypeOK
    <3>. QED  BY <3>1, <3>2 DEF ProgressMoves
  <2>2. CASE UNCHANGED progress
    BY <2>2 DEF ProgressMoves
  <2>. QED
    BY <2>1, <2>2 DEF StreamMessage, StreamEnd, Discard, LoopExit, OwnScanReturns,
       StreamPassEnd, Park, NextRound, FinalPassEnd, Wake, Resume, UserAbort, vars, toolVars
<1>. QED
  BY <1>1, <1>2 DEF Summary, ToolMoves, Stays, KindKept, ContextMoves, OutMoves, IdMoves

\* A scan, of the background or of the consumer.
LEMMA ScanSummary ==
  ASSUME IInv, \/ \E p \in Positions : ScanStep(p)
               \/ LoopRound \/ OwnScanStep
  PROVE  Summary
PROOF
<1>1. UNCHANGED <<kind, progress, context, out>>
  BY DEF ScanStep, LoopRound, OwnScanStep, consumerVars
<1>2. kind' \in KindFcn /\ status \in StatusFcn
  BY <1>1 DEF IInv, TypeOK, KindFcn, StatusFcn
<1>3. \/ UNCHANGED <<status, results, inProgress>>
      \/ \E p \in Positions : \E i \in Startable(kind', status, p) : Start(status, i)
  <2>1. ASSUME NEW p \in Positions, ScanStep(p)
        PROVE  \/ UNCHANGED <<status, results, inProgress>>
               \/ \E i \in Startable(kind', status, p) : Start(status, i)
    BY <1>1, <2>1 DEF ScanStep, Segment
  <2>2. ASSUME NEW p \in Positions, OwnSegment(p)
        PROVE  \/ UNCHANGED <<status, results, inProgress>>
               \/ \E i \in Startable(kind', status, p) : Start(status, i)
    BY <1>1, <2>2 DEF OwnSegment
  <2>3. 1 \in Positions /\ (OwnScanStep => cpos \in Positions)
    BY ToolBounds DEF OwnScanStep, IInv, TypeOK, Positions
  <2>. QED  BY <2>1, <2>2, <2>3 DEF LoopRound, OwnScanStep
<1>4. (\A j \in ToolIds : ToolMoves(j)) /\ IdMoves
  <2>1. CASE UNCHANGED <<status, results, inProgress>>
    BY <2>1 DEF ToolMoves, Stays, IdMoves
  <2>2. ASSUME NEW p \in Positions, NEW i \in Startable(kind', status, p), Start(status, i)
        PROVE  (\A j \in ToolIds : ToolMoves(j)) /\ IdMoves
    BY <1>1, <1>2, <2>2, StartMoves DEF ToolMoves, IdMoves
  <2>. QED  BY <1>3, <2>1, <2>2
<1>. QED  BY <1>1, <1>4 DEF Summary, KindKept, ContextMoves, ProgressMoves, OutMoves

\* A running tool: what it collects, and how it completes.
LEMMA UpdateSummary ==
  ASSUME IInv, NEW i \in ToolIds, ToolUpdate(i)
  PROVE  Summary
PROOF
<1>1. UNCHANGED <<kind, out, inProgress>>
  BY DEF ToolUpdate, CancelledUpdate, ProgressUpdate, TrailingUpdate, ResultUpdate, Finish,
         RejectPermission, toolVars, consumerVars
<1>2. /\ status \in [ToolIds -> Statuses] /\ results \in [ToolIds -> Seq(Messages)]
      /\ progress \in [ToolIds -> Nat]
  BY DEF IInv, TypeOK
<1>3. status[i] = "executing"
  BY DEF ToolUpdate, CancelledUpdate, ProgressUpdate, TrailingUpdate, ResultUpdate, Finish,
         RejectPermission, Running
<1>4. ProgressMoves
  BY <1>2, <1>3 DEF ProgressMoves, ToolUpdate, CancelledUpdate, ProgressUpdate, TrailingUpdate,
       ResultUpdate, Finish, RejectPermission, toolVars
<1>. IdMoves
  BY <1>1, <1>2, <1>3 DEF IdMoves, ToolUpdate, CancelledUpdate, ProgressUpdate, TrailingUpdate,
       ResultUpdate, Finish, RejectPermission, Complete, toolVars
<1>5. ASSUME NEW rs, Complete(i, rs),
             \/ rs = results[i] /\ HasResult(i)
             \/ ~Errored(i) /\ \E r \in AbortReasons : rs = Append(results[i], r)
      PROVE  (\A j \in ToolIds : ToolMoves(j)) /\ ContextMoves
  <2>1. Completes(i)
    BY <1>2, <1>3, <1>5 DEF Complete, Completes
  <2>2. \A j \in ToolIds : j # i => Stays(j)
    BY <1>2, <1>5 DEF Complete, Stays
  <2>. QED  BY <1>5, <2>1, <2>2 DEF ToolMoves, ContextMoves, Complete
<1>6. CASE CancelledUpdate(i)
  <2>1. AbortReason(i) \in AbortReasons /\ ~Errored(i)
    BY <1>6 DEF CancelledUpdate, Cancelled, AbortReason, AbortReasons
  <2>2. Complete(i, Append(results[i], AbortReason(i)))
    BY <1>6 DEF CancelledUpdate
  <2>3. (\A j \in ToolIds : ToolMoves(j)) /\ ContextMoves
    BY <1>5, <2>1, <2>2
  <2>. QED  BY <1>1, <1>4, <2>3 DEF Summary, KindKept, OutMoves
<1>7. CASE Finish(i)
  <2>1. Complete(i, results[i]) /\ HasResult(i)
    BY <1>7 DEF Finish
  <2>2. (\A j \in ToolIds : ToolMoves(j)) /\ ContextMoves
    BY <1>5, <2>1
  <2>. QED  BY <1>1, <1>4, <2>2 DEF Summary, KindKept, OutMoves
<1>8. ASSUME UNCHANGED <<status, context>>, UNCHANGED results \/ Collects(i),
             \A j \in ToolIds : j # i => results'[j] = results[j]
      PROVE  Summary
  BY <1>1, <1>4, <1>8 DEF Summary, ToolMoves, Stays, KindKept, ContextMoves, OutMoves
<1>9. CASE ProgressUpdate(i) \/ RejectPermission(i)
  BY <1>8, <1>9 DEF ProgressUpdate, RejectPermission, toolVars
<1>10. ASSUME NEW r \in {"ok", "err"}, ResultUpdate(i, r)  PROVE Summary
  <2>1. Collects(i)
    BY <1>2, <1>3, <1>10 DEF ResultUpdate, Collects
  <2>. QED  BY <1>2, <1>8, <1>10, <2>1 DEF ResultUpdate
<1>11. CASE TrailingUpdate(i)
  <2>1. Collects(i)
    BY <1>2, <1>3, <1>11 DEF TrailingUpdate, Collects
  <2>. QED  BY <1>2, <1>8, <1>11, <2>1 DEF TrailingUpdate
<1>. QED  BY <1>6, <1>7, <1>9, <1>10, <1>11 DEF ToolUpdate

\* A call arrives.
LEMMA AddToolSummary ==
  ASSUME IInv, NEW k \in Kinds, AddTool(k)
  PROVE  Summary
PROOF
<1>1. PICK i \in ToolIds :
        /\ status[i] = "absent" /\ kind' = [kind EXCEPT ![i] = k]
        /\ IF k \in Unknown
           THEN /\ status' = [status EXCEPT ![i] = "completed"]
                /\ results' = [results EXCEPT ![i] = <<"unknown">>]
                /\ UNCHANGED <<inProgress, scans>>
           ELSE Segment(kind', [status EXCEPT ![i] = "queued"], 1, scans)
  BY DEF AddTool
<1>2. /\ kind \in KindFcn /\ status \in StatusFcn /\ results \in [ToolIds -> Seq(Messages)]
  BY DEF IInv, TypeOK, KindFcn, StatusFcn
<1>3. kind' \in KindFcn /\ kind'[i] = k /\ \A j \in ToolIds : j # i => kind'[j] = kind[j]
  BY <1>1, <1>2 DEF KindFcn
<1>4. UNCHANGED <<progress, context, out>>
  BY DEF AddTool
<1>5. (\A j \in ToolIds : ToolMoves(j))
      /\ \A j \in inProgress' : j \in inProgress \/ Starts(j) \/ GivenUp(j)
  <2>1. CASE k \in Unknown
    <3>1. \A j \in ToolIds : j # i => Stays(j)
      BY <1>1, <1>2, <2>1 DEF Stays, StatusFcn
    <3>2. GivenUp(i)
      BY <1>1, <1>2, <1>3, <2>1, <3>1 DEF GivenUp, StatusFcn, OnlyLeaver
    <3>. QED  BY <1>1, <2>1, <3>1, <3>2 DEF ToolMoves
  <2>2. CASE k \notin Unknown
    <3>. DEFINE ts == [status EXCEPT ![i] = "queued"]
    <3>1. ts \in StatusFcn /\ ts[i] = "queued" /\ \A j \in ToolIds : j # i => ts[j] = status[j]
      BY <1>2 DEF StatusFcn, Statuses
    <3>2. Segment(kind', ts, 1, scans)
      BY <1>1, <2>2
    <3>. HIDE DEF ts
    <3>3. CASE status' = ts /\ UNCHANGED <<results, inProgress>>
      BY <1>1, <3>1, <3>3 DEF ToolMoves, Stays, Queues
    <3>4. ASSUME NEW s \in Startable(kind', ts, 1), Start(ts, s)
          PROVE  (\A j \in ToolIds : ToolMoves(j))
                 /\ \A j \in inProgress' : j \in inProgress \/ Starts(j) \/ GivenUp(j)
      <4>1. \A j \in ToolIds : status[j] = "executing" =>
                                 ts[j] = "executing" /\ kind'[j] = kind[j]
        BY <1>1, <1>3, <3>1
      <4>2. \A j \in ToolIds : ts[j] = status[j] \/ (status[j] = "absent" /\ ts[j] = "queued")
        BY <1>1, <3>1
      <4>. QED  BY <1>3, <3>1, <3>4, <4>1, <4>2, StartMoves DEF ToolMoves
    <3>. QED  BY <3>2, <3>3, <3>4 DEF Segment
  <2>. QED  BY <2>1, <2>2
<1>6. pc = "stream"
  BY DEF AddTool
<1>. QED
  BY <1>1, <1>3, <1>4, <1>5, <1>6
     DEF Summary, KindKept, ContextMoves, ProgressMoves, OutMoves, IdMoves

\* Every step is summed up.
LEMMA SummaryLemma ==
  ASSUME IInv, [Next]_vars
  PROVE  Summary
PROOF
<1>1. CASE PassResults
  <2>1. PICK i \in ToolIds : /\ IsFirstStop(i) /\ progress[i] = 0 /\ status[i] = "completed"
                             /\ status' = [status EXCEPT ![i] = "yielded"]
                             /\ out' = Append(out, i) /\ pos' = i
    BY <1>1 DEF PassResults
  <2>2. status \in [ToolIds -> Statuses]
    BY DEF IInv, TypeOK
  <2>3. IsDelivered(i) /\ \A j \in ToolIds : j # i => Stays(j)
    BY <1>1, <2>1, <2>2 DEF PassResults, IsDelivered, Stays
  <2>. QED
    BY <1>1, <2>3 DEF PassResults, Summary, ToolMoves, Stays, IsDelivered, KindKept,
                      ContextMoves, ProgressMoves, OutMoves, IdMoves
<1>. QED
  BY <1>1, QuietSummary, ScanSummary, UpdateSummary, AddToolSummary
     DEF Next, Consumer, ConsumerSync, ConsumerAsync, Terminated

-----------------------------------------------------------------------------
(* The answers                                                             *)

\* One tool's results, through one step.
LEMMA ResultsStep ==
  ASSUME IInv, ResultsInv, Summary
  PROVE  ResultsInv'
PROOF
<1>. SUFFICES ASSUME NEW i \in ToolIds
     PROVE  /\ status'[i] \in {"absent", "queued"} => results'[i] = <<>>
            /\ status'[i] = "executing" =>
                 Single(i)' /\ \A n \in ToolResults(i)' : results'[i][n] \in {"ok", "err"}
            /\ status'[i] \in {"completed", "yielded"} =>
                 ToolResults(i)' # {} /\ (Errored(i)' => Single(i)')
  BY DEF ResultsInv
<1>1. results[i] \in Seq(Messages)
  BY DEF IInv, TypeOK
<1>2. /\ status[i] \in {"absent", "queued"} => results[i] = <<>>
      /\ status[i] = "executing" =>
           Single(i) /\ \A n \in ToolResults(i) : results[i][n] \in {"ok", "err"}
      /\ status[i] \in {"completed", "yielded"} =>
           ToolResults(i) # {} /\ (Errored(i) => Single(i))
  BY DEF ResultsInv
<1>3. ASSUME results'[i] = results[i]
      PROVE  ToolResults(i)' = ToolResults(i) /\ Errored(i)' = Errored(i) /\ Single(i)' = Single(i)
  BY <1>3 DEF ToolResults, Errored, Single
<1>4. CASE Stays(i) \/ Queues(i) \/ IsDelivered(i)
  BY <1>2, <1>3, <1>4 DEF Stays, Queues, IsDelivered, ToolResults
<1>5. CASE Starts(i)
  BY <1>2, <1>3, <1>5 DEF Starts, ToolResults, Single
<1>6. CASE GivenUp(i)
  <2>1. PICK r \in AbortReasons \cup {"unknown"} : results'[i] = <<r>>
    BY <1>6 DEF GivenUp
  <2>2. r # "aux" /\ r # "err"
    BY DEF AbortReasons
  <2>3. ToolResults(i)' = {1} /\ ~Errored(i)'
    BY <2>1, <2>2 DEF ToolResults, Errored
  <2>. QED  BY <1>6, <2>3 DEF GivenUp
<1>7. CASE Collects(i)
  <2>1. CASE HasResult(i) /\ results'[i] = Append(results[i], "aux")
    <3>1. ToolResults(i)' = ToolResults(i)
      BY <1>1, <2>1 DEF ToolResults
    <3>2. \A n \in ToolResults(i) : results'[i][n] = results[i][n]
      BY <1>1, <2>1 DEF ToolResults
    <3>. QED  BY <1>2, <1>7, <3>1, <3>2 DEF Collects, Single
  <2>2. ASSUME NEW r \in {"ok", "err"}, ~HasResult(i), results'[i] = Append(results[i], r)
        PROVE  Single(i)' /\ \A n \in ToolResults(i)' : results'[i][n] \in {"ok", "err"}
    <3>1. ToolResults(i) = {}
      BY <1>2, <1>7, <2>2 DEF HasResult, ToolResults, Collects
    <3>2. ToolResults(i)' = {Len(results[i]) + 1}
      BY <1>1, <2>2, <3>1 DEF ToolResults
    <3>3. results'[i][Len(results[i]) + 1] = r
      BY <1>1, <2>2
    <3>. QED  BY <3>2, <3>3 DEF Single
  <2>. QED  BY <1>7, <2>1, <2>2 DEF Collects
<1>8. CASE Completes(i)
  <2>1. CASE HasResult(i) /\ results'[i] = results[i]
    <3>1. ToolResults(i) # {}
      BY <2>1 DEF HasResult, ToolResults
    <3>. QED  BY <1>2, <1>3, <1>8, <2>1, <3>1 DEF Completes
  <2>2. ASSUME ~Errored(i), NEW r \in AbortReasons, results'[i] = Append(results[i], r)
        PROVE  ToolResults(i)' # {} /\ ~Errored(i)'
    <3>1. r # "aux" /\ r # "err"
      BY DEF AbortReasons
    <3>2. Len(results[i]) + 1 \in ToolResults(i)'
      BY <1>1, <2>2, <3>1 DEF ToolResults
    <3>3. ~Errored(i)'
      BY <1>1, <2>2, <3>1 DEF Errored
    <3>. QED  BY <3>2, <3>3
  <2>. QED  BY <1>8, <2>1, <2>2 DEF Completes
<1>. QED  BY <1>4, <1>5, <1>6, <1>7, <1>8 DEF Summary, ToolMoves

\* Every call that ends is answered, and one that reported an error is answered
\* once, whatever cancels it afterwards: for every number of calls, and every
\* number of messages they collect.
THEOREM EveryCallAnswered == Spec => []Answered
PROOF
<1>1. Init => ResultsInv
  BY DEF Init, ResultsInv
<1>2. IInv /\ ResultsInv /\ [Next]_vars => ResultsInv'
  BY SummaryLemma, ResultsStep
<1>3. ResultsInv => Answered
  <2>. SUFFICES ASSUME ResultsInv, NEW i \in ToolIds, status[i] \in {"completed", "yielded"},
                       Errored(i)
                PROVE  Cardinality(ToolResults(i)) = 1
    BY DEF Answered, ResultsInv
  <2>1. PICK n \in ToolResults(i) : TRUE
    BY DEF ResultsInv
  <2>2. ToolResults(i) = {n}
    BY <2>1 DEF ResultsInv, Single
  <2>. HIDE DEF ToolResults
  <2>. QED  BY <2>2, FS_Singleton
<1>. QED  BY <1>1, <1>2, <1>3, Inductive, PTL DEF Spec

-----------------------------------------------------------------------------
(* The contexts                                                            *)

\* An unsafe tool starts only when nothing runs, so before what comes after it.
LEMMA HoldsBackStep ==
  ASSUME IInv, IInv', UnsafeHoldsBack, Summary
  PROVE  UnsafeHoldsBack'
PROOF
<1>. SUFFICES ASSUME NEW i \in ToolIds, NEW j \in ToolIds, i < j,
                     status'[i] = "executing", ~Safe(i)'
              PROVE  status'[j] \in {"absent", "queued"} \/ kind'[j] \in Unknown
  BY DEF UnsafeHoldsBack
<1>1. kind'[i] \notin ConcurrencySafe
  BY DEF Safe
<1>2. ToolMoves(i) /\ ToolMoves(j) /\ KindKept
  BY DEF Summary
<1>3. QueueInv(kind, status, scans, cpos) /\ QueueInv(kind', status', scans', cpos')
  BY DEF IInv, QueueInv, Arrived, ScansSettled, Settled, ExclusiveIn, InOrderIn, Watched
<1>4. CASE status[i] = "executing"
  <2>1. ~Safe(i)
    BY <1>1, <1>2, <1>4 DEF KindKept, Safe
  <2>2. CASE status[j] \in {"absent", "queued"}
    <3>1. ~MayStart(j)
      BY <1>4, <2>1 DEF MayStart, Safe
    <3>. QED
      BY <1>2, <2>2, <3>1 DEF ToolMoves, Stays, Queues, Starts, GivenUp, Collects, Completes,
                              IsDelivered
  <2>3. CASE status[j] \notin {"absent", "queued"}
    <3>1. kind[j] \in Unknown
      BY <1>4, <2>1, <2>3 DEF UnsafeHoldsBack
    <3>. QED  BY <1>2, <2>3, <3>1 DEF KindKept
  <2>. QED  BY <2>2, <2>3
<1>5. CASE status[i] # "executing"
  <2>1. Starts(i)
    BY <1>2, <1>5 DEF ToolMoves, Stays, Queues, GivenUp, Collects, Completes, IsDelivered
  <2>2. \A k \in ToolIds : status[k] # "executing"
    BY <1>1, <2>1 DEF Starts, MayStart
  <2>. SUFFICES ASSUME status'[j] \notin {"absent", "queued"}, kind'[j] \notin Unknown
                PROVE  FALSE
    OBVIOUS
  <2>0. j # i
    BY DEF ToolIds
  <2>3. status'[j] # "executing"
    BY <1>1, <1>3, <2>0 DEF QueueInv, ExclusiveIn
  <2>4. CASE status[j] \in {"absent", "queued"}
    BY <2>0, <2>1, <2>4 DEF Starts, OnlyLeaver, Stays, Queues
  <2>5. CASE status[j] \notin {"absent", "queued"}
    <3>1. status[i] # "queued" \/ kind[j] \in Unknown
      BY <1>3, <2>5 DEF QueueInv, InOrderIn, IInv, TypeOK, Statuses
    <3>2. status[i] # "absent"
      BY <1>3, <2>5 DEF QueueInv, Arrived
    <3>. QED  BY <1>2, <2>1, <2>5, <3>1, <3>2 DEF Starts, KindKept
  <2>. QED  BY <2>4, <2>5
<1>. QED  BY <1>4, <1>5

\* The modifiers of a tool come after those of every tool before it.
LEMMA ContextStep ==
  ASSUME IInv, IInv', ContextInv, Summary
  PROVE  ContextInv'
PROOF
<1>1. UnsafeHoldsBack'
  BY HoldsBackStep DEF ContextInv
<1>2. ASSUME NEW i \in ToolIds, status[i] \in {"completed", "yielded"}, ~Safe(i)
      PROVE  status'[i] \in {"completed", "yielded"} /\ ~Safe(i)'
  BY <1>2 DEF Summary, KindKept, ToolMoves, Stays, Queues, Starts, GivenUp, Collects, Completes,
              IsDelivered, Safe
<1>3. context \in Seq(ToolIds)
  BY DEF IInv, TypeOK
<1>4. CASE context' = context
  BY <1>1, <1>2, <1>3, <1>4 DEF ContextInv, ContextInOrder
<1>5. ASSUME NEW i \in ToolIds, ~Safe(i), Completes(i), context' = Append(context, i)
      PROVE  ContextInv'
  <2>1. \A n \in DOMAIN context : context[n] < i
    <3>. SUFFICES ASSUME NEW n \in DOMAIN context, ~(context[n] < i)  PROVE FALSE
      OBVIOUS
    <3>1. /\ context[n] \in ToolIds /\ ~Safe(context[n])
          /\ status[context[n]] \in {"completed", "yielded"}
      BY <1>3 DEF ContextInv
    <3>2. context[n] # i /\ i < context[n]
      BY <3>1, <1>5 DEF Completes, ToolIds
    <3>3. kind[context[n]] \in Unknown
      BY <1>5, <3>1, <3>2 DEF ContextInv, UnsafeHoldsBack, Completes
    <3>. QED  BY <3>1, <3>3, KindSets DEF Safe
  <2>2. ContextInOrder'
    BY <1>3, <1>5, <2>1 DEF ContextInv, ContextInOrder
  <2>3. status'[i] = "completed" /\ ~Safe(i)'
    BY <1>5 DEF Completes, Summary, KindKept, Safe
  <2>4. \A n \in DOMAIN context' : status'[context'[n]] \in {"completed", "yielded"}
                                  /\ kind'[context'[n]] \notin ConcurrencySafe
    <3>. SUFFICES ASSUME NEW n \in DOMAIN context'
         PROVE  status'[context'[n]] \in {"completed", "yielded"} /\ kind'[context'[n]] \notin ConcurrencySafe
      OBVIOUS
    <3>1. CASE n = Len(context) + 1
      BY <1>3, <1>5, <2>3, <3>1 DEF Safe
    <3>2. CASE n # Len(context) + 1
      <4>1. n \in DOMAIN context /\ context'[n] = context[n] /\ context[n] \in ToolIds
        BY <1>3, <1>5, <3>2
      <4>. QED  BY <4>1, <1>2 DEF ContextInv, Safe
    <3>. QED  BY <3>1, <3>2
  <2>. QED  BY <1>1, <2>2, <2>4 DEF ContextInv, Safe
<1>. QED  BY <1>4, <1>5 DEF Summary, ContextMoves

\* Context modifiers are applied in the order of the calls, for every number of
\* calls: an unsafe tool never undoes what a later one did to the context.
THEOREM ContextsInOrder == Spec => []ContextInOrder
PROOF
<1>1. Init => ContextInv
  BY DEF Init, ContextInv, ContextInOrder, UnsafeHoldsBack
<1>2. Init => IInv
  BY InitLemma
<1>3. IInv /\ IInv' /\ ContextInv /\ [Next]_vars => ContextInv'
  BY SummaryLemma, ContextStep
<1>4. ContextInv => ContextInOrder
  BY DEF ContextInv
<1>. QED  BY <1>1, <1>3, <1>4, Inductive, PTL DEF Spec

-----------------------------------------------------------------------------
(* The deliveries                                                          *)

\* Tools only go forward, and what is delivered stays so.
LEMMA ForwardLemma ==
  ASSUME Summary, NEW i \in ToolIds
  PROVE  /\ status[i] # "absent" => status'[i] # "absent" /\ kind'[i] = kind[i]
         /\ status[i] \notin {"absent", "queued"} => status'[i] \notin {"absent", "queued"}
         /\ status[i] = "yielded" => status'[i] = "yielded"
PROOF
<1>1. ToolMoves(i) /\ KindKept
  BY DEF Summary
<1>. QED
  BY <1>1 DEF KindKept, ToolMoves, Stays, Queues, Starts, GivenUp, Collects, Completes, IsDelivered

\* What a pass has gone by: it stops at a started tool, and nothing before a
\* started tool is in the queue, so a tool it went by was started before.
LEMMA GoneByLemma ==
  ASSUME IInv, AllKnown, Passed, PendingRuns, pc = "pass", NEW i \in ToolIds, IsFirstStop(i),
         progress[i] > 0 \/ status[i] = "completed", NEW j \in ToolIds, j < i
  PROVE  /\ status[j] \notin {"absent", "queued"}
         /\ Safe(j) \/ status[j] = "yielded"
PROOF
<1>1. QueueInv(kind, status, scans, cpos) /\ pos \in Int /\ status \in [ToolIds -> Statuses]
  BY ToolBounds DEF IInv, TypeOK, Positions
<1>2. status[i] \in {"executing", "completed"} /\ kind[i] \notin Unknown
  BY DEF PendingRuns, AllKnown
<1>3. status[j] \notin {"absent", "queued"}
  BY <1>1, <1>2 DEF QueueInv, Arrived, InOrderIn
<1>4. CASE j < pos
  BY <1>3, <1>4 DEF Passed
<1>5. CASE ~(j < pos)
  <2>1. j >= pos /\ j \notin Stops
    BY <1>1, <1>5 DEF IsFirstStop, ToolIds
  <2>2. status[j] # "completed" /\ (status[j] = "executing" => Safe(j))
    BY <2>1 DEF Stops
  <2>. QED  BY <1>1, <1>3, <2>2 DEF Statuses
<1>. QED  BY <1>4, <1>5

\* Where the consumer goes on: at the head of a pass, where it was, at the tool
\* it stops at, or behind the tool whose results it has delivered.
PassMoves ==
  pc' \in {"pass", "item"} =>
    \/ pc' = "pass" /\ pos' = 1
    \/ pc' = pc /\ pos' = pos /\ item' = item
    \/ /\ pc = "pass" /\ item' = "progress"
       /\ \E i \in ToolIds : IsFirstStop(i) /\ progress[i] > 0 /\ pos' = i
    \/ \E i \in ToolIds : IsDelivered(i)
    \/ Resume

\* Every step moves the place of the consumer so.
LEMMA PassLemma ==
  ASSUME IInv, [Next]_vars
  PROVE  PassMoves
PROOF
<1>. USE DEF PassMoves
<1>1. CASE \/ UNCHANGED vars \/ (\E p \in Positions : ScanStep(p))
           \/ \E reason \in {"interrupt", "abort"} : UserAbort(reason)
  BY <1>1 DEF vars, consumerVars, ScanStep, UserAbort
<1>2. ASSUME NEW i \in ToolIds, ToolUpdate(i)  PROVE PassMoves
  BY <1>2 DEF ToolUpdate, CancelledUpdate, ProgressUpdate, TrailingUpdate, ResultUpdate, Finish,
              RejectPermission, consumerVars
<1>3. CASE StreamMessage \/ LoopExit \/ OwnScanReturns \/ \E k \in Kinds : AddTool(k)
  BY <1>3 DEF StreamMessage, LoopExit, OwnScanReturns, AddTool
<1>4. CASE \/ StreamEnd \/ Discard \/ LoopRound \/ OwnScanStep \/ StreamPassEnd \/ Park
           \/ NextRound \/ FinalPassEnd \/ Wake
  BY <1>4 DEF StreamEnd, Discard, LoopRound, OwnScanStep, StreamPassEnd, Park, NextRound,
              FinalPassEnd, Wake
<1>5. CASE PassProgress
  BY <1>5 DEF PassProgress
<1>6. CASE PassResults
  BY <1>6, SummaryLemma DEF PassResults, IsDelivered, IInv, TypeOK
<1>. QED
  BY <1>1, <1>2, <1>3, <1>4, <1>5, <1>6
     DEF Next, Consumer, ConsumerSync, ConsumerAsync, Terminated

\* The order of the deliveries, through one step.
LEMMA OrderStep ==
  ASSUME IInv, IInv', OrderInv, Summary, PassMoves
  PROVE  OrderInv'
PROOF
<1>1. /\ QueueInv(kind, status, scans, cpos) /\ status \in [ToolIds -> Statuses]
      /\ progress \in [ToolIds -> Nat] /\ progress' \in [ToolIds -> Nat]
      /\ out \in Seq(ToolIds) /\ pos \in Positions
  BY DEF IInv, TypeOK
<1>2. PendingRuns'
  <2>. SUFFICES ASSUME NEW i \in ToolIds, progress'[i] > 0
                PROVE  status'[i] \in {"executing", "completed"}
    BY DEF PendingRuns
  <2>1. CASE status'[i] = "executing"
    BY <2>1
  <2>2. CASE status'[i] # "executing"
    <3>0. progress'[i] = progress[i] \/ progress'[i] < progress[i]
      BY <2>2 DEF Summary, ProgressMoves
    <3>1. progress[i] > 0 /\ status[i] \in {"executing", "completed"}
      <4>1. progress[i] \in Nat /\ progress'[i] \in Nat
        BY <1>1
      <4>2. progress[i] > 0
        BY <3>0, <4>1
      <4>. QED  BY <4>2 DEF OrderInv, PendingRuns
    <3>2. ToolMoves(i) /\ ~IsDelivered(i)
      BY <3>1 DEF Summary, IsDelivered
    <3>. QED
      BY <2>2, <3>1, <3>2 DEF ToolMoves, Stays, Queues, Starts, GivenUp, Collects, Completes
  <2>. QED  BY <2>1, <2>2
<1>3. ASSUME NEW i \in ToolIds, IsDelivered(i)  PROVE ItemYielded' /\ pos' = i
  BY <1>3 DEF IsDelivered, ItemYielded
<1>4. ItemYielded'
  <2>. SUFFICES ASSUME pc' = "item", item' = "results", \A i \in ToolIds : ~IsDelivered(i)
                PROVE  status'[pos'] = "yielded"
    BY <1>3 DEF ItemYielded
  <2>1. pc' = pc /\ pos' = pos /\ item' = item
    BY DEF PassMoves, Resume
  <2>2. pos \in ToolIds /\ status[pos] = "yielded"
    BY <2>1 DEF IInv, ItemAtTool, OrderInv, ItemYielded
  <2>. QED  BY <2>1, <2>2, ForwardLemma
<1>5. OutYielded'
  <2>1. CASE out' = out
    BY <1>1, <2>1, ForwardLemma DEF OrderInv, OutYielded
  <2>2. ASSUME NEW i \in ToolIds, IsDelivered(i)  PROVE OutYielded'
    <3>. SUFFICES ASSUME NEW n \in DOMAIN out'  PROVE status'[out'[n]] = "yielded"
      BY DEF OutYielded
    <3>1. CASE n = Len(out) + 1
      BY <1>1, <2>2, <3>1 DEF IsDelivered
    <3>2. CASE n # Len(out) + 1
      <4>1. n \in DOMAIN out /\ out'[n] = out[n] /\ out[n] \in ToolIds
        BY <1>1, <2>2, <3>2 DEF IsDelivered
      <4>. QED  BY <4>1, ForwardLemma DEF OrderInv, OutYielded
    <3>. QED  BY <3>1, <3>2
  <2>. QED  BY <2>1, <2>2 DEF Summary, OutMoves
<1>6. ASSUME AllKnown'  PROVE Passed' /\ DeliveredBefore' /\ OutInOrder'
  <2>1. AllKnown /\ Passed /\ DeliveredBefore /\ OutInOrder
    BY <1>6, ForwardLemma DEF AllKnown, OrderInv
  <2>2. ASSUME NEW j \in ToolIds, status[j] \notin {"absent", "queued"},
               Safe(j) \/ status[j] = "yielded"
        PROVE  status'[j] \notin {"absent", "queued"} /\ (Safe(j)' \/ status'[j] = "yielded")
    BY <2>2, ForwardLemma DEF Safe
  <2>3. ASSUME NEW i \in ToolIds, pc = "pass", IsFirstStop(i),
               progress[i] > 0 \/ status[i] = "completed", NEW j \in ToolIds, j < i
        PROVE  status[j] \notin {"absent", "queued"} /\ (Safe(j) \/ status[j] = "yielded")
    BY <2>1, <2>3, GoneByLemma DEF OrderInv
  <2>4. Passed'
    <3>. SUFFICES ASSUME pc' \in {"pass", "item"}, NEW j \in ToolIds, j < pos'
                  PROVE  /\ status'[j] \notin {"absent", "queued"}
                         /\ Safe(j)' \/ status'[j] = "yielded"
      BY DEF Passed
    <3>1. CASE pos' = 1
      BY <3>1 DEF ToolIds
    <3>2. CASE pc \in {"pass", "item"} /\ j < pos
      BY <2>1, <2>2, <3>2 DEF Passed
    <3>3. ASSUME NEW i \in ToolIds, pc = "pass", IsFirstStop(i),
                 progress[i] > 0 \/ status[i] = "completed", pos' = i
          PROVE  status'[j] \notin {"absent", "queued"} /\ (Safe(j)' \/ status'[j] = "yielded")
      BY <2>2, <2>3, <3>3
    <3>4. CASE Resume /\ ~(j < pos)
      <4>1. item = "results" /\ pos' = pos + 1 /\ pc = "item"
        BY <3>4 DEF Resume
      <4>2. j = pos /\ status[pos] = "yielded"
        BY <1>1, <3>4, <4>1 DEF OrderInv, ItemYielded, ToolIds, Positions
      <4>. QED  BY <2>2, <4>2
    <3>5. Resume => pc = "item"
      BY DEF Resume
    <3>. QED  BY <3>1, <3>2, <3>3, <3>4, <3>5 DEF PassMoves, IsDelivered
  <2>5. ASSUME NEW n \in DOMAIN out, NEW j \in ToolIds, j < out[n]
        PROVE  Safe(j)' \/ status'[j] = "yielded"
    <3>1. out[n] \in ToolIds /\ status[out[n]] = "yielded" /\ kind[out[n]] \notin Unknown
      BY <1>1, <2>1 DEF OrderInv, OutYielded, AllKnown
    <3>2. status[j] \notin {"absent", "queued"}
      BY <1>1, <2>5, <3>1 DEF QueueInv, Arrived, InOrderIn
    <3>. QED  BY <2>1, <2>2, <2>5, <3>2 DEF DeliveredBefore
  <2>6. CASE out' = out
    <3>1. DeliveredBefore'
      BY <2>5, <2>6 DEF DeliveredBefore
    <3>2. \A n \in DOMAIN out : out[n] \in ToolIds /\ Safe(out[n])' = Safe(out[n])
      BY <1>1, <2>6, ForwardLemma DEF OrderInv, OutYielded, Safe
    <3>3. OutInOrder'
      BY <2>1, <2>6, <3>2 DEF OutInOrder, Safe
    <3>. QED  BY <2>4, <3>1, <3>3
  <2>7. ASSUME NEW i \in ToolIds, IsDelivered(i)  PROVE DeliveredBefore' /\ OutInOrder'
    <3>1. /\ out' = Append(out, i) /\ pc = "pass" /\ IsFirstStop(i) /\ status[i] = "completed"
      BY <2>7 DEF IsDelivered
    <3>2. \A n \in DOMAIN out' : \/ n = Len(out) + 1 /\ out'[n] = i
                                 \/ n \in DOMAIN out /\ out'[n] = out[n] /\ out[n] \in ToolIds
      BY <1>1, <3>1
    <3>3. DeliveredBefore'
      <4>. SUFFICES ASSUME NEW n \in DOMAIN out', NEW j \in ToolIds, j < out'[n]
                    PROVE  Safe(j)' \/ status'[j] = "yielded"
        BY DEF DeliveredBefore
      <4>. QED  BY <2>2, <2>3, <2>5, <3>1, <3>2
    <3>4. ~Safe(i) => \A n \in DOMAIN out : out[n] < i
      <4>. SUFFICES ASSUME ~Safe(i), NEW n \in DOMAIN out, ~(out[n] < i)  PROVE FALSE
        OBVIOUS
      <4>1. out[n] \in ToolIds /\ status[out[n]] = "yielded"
        BY <1>1 DEF OrderInv, OutYielded
      <4>2. i < out[n]
        BY <3>1, <4>1 DEF ToolIds
      <4>. QED  BY <2>1, <3>1, <4>2 DEF DeliveredBefore
    <3>5. \A j \in ToolIds : status[j] # "absent" => Safe(j)' = Safe(j)
      BY ForwardLemma DEF Safe
    <3>6. OutInOrder'
      <4>. SUFFICES ASSUME NEW m \in DOMAIN out', NEW n \in DOMAIN out', m < n,
                           kind'[out'[n]] \notin ConcurrencySafe
                    PROVE  out'[m] < out'[n]
        BY DEF OutInOrder, Safe
      <4>1. m \in DOMAIN out /\ out'[m] = out[m]
        BY <1>1, <3>1, <3>2
      <4>2. CASE n = Len(out) + 1 /\ out'[n] = i
        BY <3>1, <3>4, <3>5, <4>1, <4>2 DEF Safe
      <4>3. CASE n \in DOMAIN out /\ out'[n] = out[n] /\ out[n] \in ToolIds
        <5>1. status[out[n]] = "yielded"
          BY <4>3 DEF OrderInv, OutYielded
        <5>2. ~Safe(out[n])
          BY <3>5, <4>3, <5>1 DEF Safe
        <5>. QED  BY <2>1, <4>1, <4>3, <5>2 DEF OutInOrder
      <4>. QED  BY <3>2, <4>2, <4>3
    <3>. QED  BY <3>3, <3>6
  <2>. QED  BY <2>4, <2>6, <2>7 DEF Summary, OutMoves
<1>. QED  BY <1>2, <1>4, <1>5, <1>6 DEF OrderInv

\* The order of the deliveries holds in every reachable state.
LEMMA OrderInductive == Spec => []OrderInv
PROOF
<1>1. Init => OrderInv
  BY DEF Init, OrderInv, PendingRuns, ItemYielded, OutYielded, Passed, DeliveredBefore,
         OutInOrder
<1>2. IInv /\ IInv' /\ OrderInv /\ [Next]_vars => OrderInv'
  BY SummaryLemma, PassLemma, OrderStep
<1>. QED  BY <1>1, <1>2, Inductive, PTL DEF Spec

\* What an unsafe tool did is told before what was called after it, for every
\* number of calls and every interleaving of the pass with the scans.
THEOREM DeliveryOrder == Spec => []UnsafeBeforeLater
PROOF
<1>1. OrderInv => UnsafeBeforeLater
  BY DEF OrderInv, AllKnown, OutInOrder, UnsafeBeforeLater
<1>. QED  BY <1>1, OrderInductive, PTL

-----------------------------------------------------------------------------
(* What is left when the generators end                                    *)

\* Who moves the consumer: an item out stays until the caller resumes, the last
\* generator is entered when no tool is unfinished, and only it ends in "done".
EndMoves ==
  /\ pc = "item" => Resume \/ UNCHANGED <<pc, item, pos>>
  /\ mode = "final" /\ pc \in {"pass", "item", "done"} =>
       mode' = "final" /\ pc' \in {"pass", "item", "done"}
  /\ mode' = "final" => mode = "final" \/ LoopExit
  /\ pc' = "done" => mode' = mode /\ (pc = "done" \/ mode = "final")

\* Every step moves the generators so.
LEMMA EndLemma ==
  ASSUME IInv, [Next]_vars
  PROVE  EndMoves
PROOF
<1>. USE DEF EndMoves
<1>1. CASE \/ UNCHANGED vars \/ (\E p \in Positions : ScanStep(p))
           \/ \E reason \in {"interrupt", "abort"} : UserAbort(reason)
  BY <1>1 DEF vars, consumerVars, ScanStep, UserAbort
<1>2. ASSUME NEW i \in ToolIds, ToolUpdate(i)  PROVE EndMoves
  BY <1>2 DEF ToolUpdate, CancelledUpdate, ProgressUpdate, TrailingUpdate, ResultUpdate, Finish,
              RejectPermission, consumerVars
<1>3. CASE StreamMessage \/ LoopExit \/ OwnScanReturns \/ \E k \in Kinds : AddTool(k)
  BY <1>3 DEF StreamMessage, LoopExit, OwnScanReturns, AddTool
<1>4. CASE StreamEnd \/ Discard \/ LoopRound \/ OwnScanStep \/ Wake
  BY <1>4 DEF StreamEnd, Discard, LoopRound, OwnScanStep, Wake
<1>5. CASE StreamPassEnd \/ Park \/ NextRound \/ FinalPassEnd
  BY <1>5 DEF StreamPassEnd, Park, NextRound, FinalPassEnd, PassOver
<1>6. CASE PassProgress \/ PassResults \/ Resume
  BY <1>6 DEF PassProgress, PassResults, Resume
<1>. QED
  BY <1>1, <1>2, <1>3, <1>4, <1>5, <1>6
     DEF Next, Consumer, ConsumerSync, ConsumerAsync, Terminated

\* What is left when the generators end, through one step.
LEMMA DeliveryStep ==
  ASSUME IInv, IInv', DeliveryInv, Summary, EndMoves
  PROVE  DeliveryInv'
PROOF
<1>1. /\ status' \in [ToolIds -> Statuses] /\ out \in Seq(ToolIds)
      /\ inProgress \subseteq ToolIds /\ inProgress' \subseteq ToolIds
  BY DEF IInv, TypeOK
<1>2. ASSUME NEW i \in ToolIds, status'[i] = "yielded"  PROVE \E n \in DOMAIN out' : out'[n] = i
  <2>1. CASE status[i] = "yielded"
    <3>1. PICK n \in DOMAIN out : out[n] = i
      BY <2>1 DEF DeliveryInv
    <3>2. n \in DOMAIN out' /\ out'[n] = i
      BY <1>1, <3>1 DEF Summary, OutMoves, IsDelivered
    <3>. QED  BY <3>2
  <2>2. CASE status[i] # "yielded"
    <3>1. out' = Append(out, i)
      BY <1>2, <2>2 DEF Summary, ToolMoves, Stays, Queues, Starts, GivenUp, Collects, Completes,
                        IsDelivered
    <3>2. Len(out) + 1 \in DOMAIN out' /\ out'[Len(out) + 1] = i
      BY <1>1, <3>1
    <3>. QED  BY <3>2
  <2>. QED  BY <2>1, <2>2
<1>3. ASSUME NEW i \in inProgress'
      PROVE  \/ status'[i] \in {"executing", "completed"}
             \/ pc' = "item" /\ item' = "results" /\ pos' = i
  <2>1. CASE Starts(i) \/ GivenUp(i)
    BY <2>1 DEF Starts, GivenUp
  <2>2. CASE i \in inProgress /\ status[i] \in {"executing", "completed"}
    <3>1. ToolMoves(i)
      BY <1>1, <2>2 DEF Summary
    <3>. QED
      BY <2>2, <3>1 DEF ToolMoves, Stays, Queues, Starts, GivenUp, Collects, Completes, IsDelivered
  <2>3. CASE i \in inProgress /\ pc = "item" /\ item = "results" /\ pos = i
    BY <1>3, <2>3 DEF EndMoves, Resume
  <2>. QED  BY <2>1, <2>2, <2>3 DEF Summary, IdMoves, DeliveryInv
<1>4. ASSUME mode' = "final"
      PROVE  /\ pc' \in {"pass", "item", "done"}
             /\ \A i \in ToolIds : status'[i] \in {"absent", "yielded"}
  <2>1. CASE mode = "final"
    <3>1. pc \in {"pass", "item", "done"} /\ \A i \in ToolIds : status[i] \in {"absent", "yielded"}
      BY <2>1 DEF DeliveryInv
    <3>2. \A i \in ToolIds : status'[i] \in {"absent", "yielded"}
      BY <3>1, ForwardLemma DEF Summary, IdMoves
    <3>. QED  BY <2>1, <3>1, <3>2 DEF EndMoves
  <2>2. CASE LoopExit
    BY <2>2 DEF LoopExit, HasUnfinishedTools, toolVars
  <2>. QED  BY <1>4, <2>1, <2>2 DEF EndMoves
<1>5. pc' = "done" => mode' = "final"
  BY DEF EndMoves, DeliveryInv
<1>. QED  BY <1>2, <1>3, <1>4, <1>5 DEF DeliveryInv

\* When getRemainingResults ends every call was delivered, nothing runs and no
\* id is left in progress, for every number of calls.
THEOREM DoneIsDone == Spec => []DoneMeansDelivered
PROOF
<1>1. Init => DeliveryInv
  BY DEF Init, DeliveryInv
<1>2. IInv /\ IInv' /\ DeliveryInv /\ [Next]_vars => DeliveryInv'
  BY SummaryLemma, EndLemma, DeliveryStep
<1>3. IInv /\ OrderInv /\ DeliveryInv => DoneMeansDelivered
  <2>. SUFFICES ASSUME IInv, OrderInv, DeliveryInv, pc = "done"
                PROVE  /\ inProgress = {} /\ ~HasPendingProgress
                       /\ \A i \in ToolIds : status[i] # "absent" =>
                            \E n \in DOMAIN out : out[n] = i
    BY DEF DoneMeansDelivered
  <2>1. \A i \in ToolIds : status[i] \in {"absent", "yielded"}
    BY DEF DeliveryInv
  <2>2. inProgress = {}
    BY <2>1 DEF DeliveryInv, IInv, TypeOK
  <2>3. ~HasPendingProgress
    BY <2>1 DEF HasPendingProgress, OrderInv, PendingRuns
  <2>. QED  BY <2>1, <2>2, <2>3 DEF DeliveryInv
<1>. QED  BY <1>1, <1>2, <1>3, Inductive, OrderInductive, PTL DEF Spec
=============================================================================
