--------------------------- MODULE TaskStoreProofs ---------------------------
(***************************************************************************)
(* Type correctness of TaskStore, and its two safety properties, each for  *)
(* the operations that keep it: no id is given twice while nobody deletes  *)
(* a task, and claims stand while nobody claims with the busy check or     *)
(* becomes the owner by starting a task.                                   *)
(***************************************************************************)
EXTENDS TaskStore, FilteringTheorems, FiniteSetTheorems, TLAPS

-----------------------------------------------------------------------------
(* The values the variables take                                           *)

Fields == {"owner", "status", "blocks", "blockedBy"}
Values == Procs \cup {None} \cup TaskStatus \cup SUBSET Ids

\* The fields an update may give, with values of their types.
Changes ==
  {f \in UNION {[F -> Values] : F \in SUBSET Fields} :
     /\ "owner" \in DOMAIN f => f["owner"] \in Procs \cup {None}
     /\ "status" \in DOMAIN f => f["status"] \in TaskStatus
     /\ "blocks" \in DOMAIN f => f["blocks"] \in SUBSET Ids
     /\ "blockedBy" \in DOMAIN f => f["blockedBy"] \in SUBSET Ids}
Patches == [id : Ids, set : Changes]
Plans == {s \in Seq(Patches) : Len(s) <= MaxId}
Views == UNION {[F -> Contents] : F \in SUBSET Ids}
Reading == [files : -1..MaxId, mark : -1..MaxId]

DiskTyped == file \in [Ids -> Contents] /\ mark \in 0..MaxId \cup {Torn}
LocksTyped == listLock \in Procs \cup {None} /\ taskLock \in [Ids -> Procs \cup {None}]
LocalsTyped ==
  /\ at \in [Procs -> Steps] /\ op \in [Procs -> AllOps \cup {None}]
  /\ id \in [Procs -> Ids \cup {0}] /\ high \in [Procs -> Reading]
  /\ todo \in [Procs -> SUBSET Ids] /\ view \in [Procs -> Views]
  /\ mine \in [Procs -> Contents] /\ plan \in [Procs -> Plans]
HistoryTyped ==
  /\ started \in 0..MaxOps /\ crashes \in 0..MaxCrashes
  /\ allocated \in [Ids -> Nat] /\ winners \in [Ids -> SUBSET Procs]

\* Where an operation may be, and what its locals hold there.
OnTask == {"delete", "claim", "claimBusy", "setStatus", "update", "start", "block"}
Updating == {"updCheck", "updLock", "updRead", "updTrunc", "updWrite"}

PathOf(q) ==
  /\ at[q] = "lockList" => op[q] \in {"create", "reset", "claimBusy"}
  /\ at[q] = "highest" => op[q] \in {"create", "reset"}
  /\ at[q] \in {"create", "createWrite"} => op[q] = "create"
  /\ at[q] \in {"readMark", "markTrunc", "markWrite"} => op[q] \in {"reset", "delete"}
  /\ at[q] \in {"clear", "unlinkAll"} => op[q] = "reset"
  /\ at[q] = "unlink" => op[q] = "delete"
  /\ at[q] = "check" => op[q] \in {"claim", "claimBusy"}
  /\ at[q] \in {"lockTask", "reread"} => op[q] = "claim"
  /\ at[q] = "list" => op[q] \in {"claim", "claimBusy", "unassign", "delete"}
  /\ at[q] \in {"readAll", "decide"} => op[q] \in {"claim", "claimBusy", "unassign", "delete", "block"}
  /\ at[q] = "look" => op[q] \in {"update", "start"}
  /\ at[q] \in {"updCheck", "updLock"} =>
       op[q] \in {"claimBusy", "setStatus", "update", "start", "unassign", "delete", "block"}
  /\ at[q] \in {"updRead", "updTrunc", "updWrite"} =>
       op[q] \in {"claim", "claimBusy", "setStatus", "update", "start", "unassign", "delete", "block"}

HoldsOf(q) ==
  /\ op[q] \in OnTask => id[q] \in Ids
  /\ at[q] \in {"create", "createWrite"} => high[q].files # -1 /\ high[q].mark # -1
  /\ at[q] \in {"readMark", "markTrunc", "markWrite"} /\ op[q] = "reset" => high[q].files >= 1
  /\ at[q] \in {"readAll", "decide"} /\ op[q] = "block" =>
       \E to \in Ids \ {id[q]} : todo[q] \cup DOMAIN view[q] = {id[q], to}
  /\ at[q] = "decide" => todo[q] = {}
  /\ at[q] \in Updating => plan[q] # <<>>
  /\ at[q] \in {"updTrunc", "updWrite"} => mine[q] \in Task
  /\ at[q] \in Updating /\ op[q] \in {"claim", "claimBusy"} => plan[q] = OwnIt(q)

FlowOf(q) ==
  /\ at[q] = "idle" => high[q] = Unread /\ view[q] = <<>>
  /\ at[q] \notin {"idle", "dead"} => op[q] \in Ops /\ PathOf(q) /\ HoldsOf(q)
Flow == \A q \in Procs : FlowOf(q)

Typed == DiskTyped /\ LocksTyped /\ LocalsTyped /\ HistoryTyped /\ Flow

-----------------------------------------------------------------------------
(* What holds of the values                                                *)

\* A task is neither of the two contents that do not parse.
LEMMA ParsesLemma ==
  ASSUME NEW c \in Contents
  PROVE  Parses(c) <=> c \in Task
PROOF
  BY StoreConstants DEF Contents, Parses

\* updateTaskUnsafe writes a task.
LEMMA UpdatedLemma ==
  ASSUME NEW t \in Task, NEW f \in Changes
  PROVE  Updated(t, f) \in Task
PROOF
<1>. DEFINE g == Updated(t, f)
<1>1. DOMAIN t = Fields
  BY DEF Task, Fields
<1>2. g = [x \in Fields |-> IF x \in DOMAIN f THEN f[x] ELSE t[x]]
  BY <1>1 DEF Updated
<1>. HIDE DEF g
<1>3. /\ t["owner"] \in Procs \cup {None} /\ t["status"] \in TaskStatus
      /\ t["blocks"] \in SUBSET Ids /\ t["blockedBy"] \in SUBSET Ids
  BY DEF Task
<1>4. /\ g["owner"] \in Procs \cup {None} /\ g["status"] \in TaskStatus
      /\ g["blocks"] \in SUBSET Ids /\ g["blockedBy"] \in SUBSET Ids
  BY <1>2, <1>3 DEF Changes, Fields
<1>5. g = [owner |-> g["owner"], status |-> g["status"],
           blocks |-> g["blocks"], blockedBy |-> g["blockedBy"]]
  BY <1>2 DEF Fields
<1>6. g \in Task
  BY <1>4, <1>5 DEF Task
<1>. QED  BY <1>6 DEF g

\* The fields that the operations update.
LEMMA ChangeLemma ==
  ASSUME NEW F \in SUBSET Fields, NEW f \in [F -> Values],
         "owner" \in F => f["owner"] \in Procs \cup {None},
         "status" \in F => f["status"] \in TaskStatus,
         "blocks" \in F => f["blocks"] \in SUBSET Ids,
         "blockedBy" \in F => f["blockedBy"] \in SUBSET Ids
  PROVE  f \in Changes
PROOF
<1>1. f \in UNION {[G -> Values] : G \in SUBSET Fields} /\ DOMAIN f = F
  OBVIOUS
<1>. QED  BY <1>1 DEF Changes

LEMMA ChangesLemma ==
  /\ \A q \in Procs \cup {None} : [owner |-> q] \in Changes
  /\ \A s \in TaskStatus : [status |-> s] \in Changes
  /\ \A s \in TaskStatus : [owner |-> None, status |-> s] \in Changes
  /\ \A b \in SUBSET Ids : [blocks |-> b] \in Changes
  /\ \A b \in SUBSET Ids : [blockedBy |-> b] \in Changes
  /\ \A b, c \in SUBSET Ids : [blocks |-> b, blockedBy |-> c] \in Changes
PROOF
<1>1. ASSUME NEW q \in Procs \cup {None}  PROVE [owner |-> q] \in Changes
  <2>. DEFINE f == [x \in {"owner"} |-> q]
  <2>1. f \in [{"owner"} -> Values] /\ f["owner"] = q
    BY DEF Values
  <2>2. f \in Changes
    <3>. HIDE DEF f
    <3>. QED  BY <2>1, ChangeLemma DEF Fields
  <2>3. f = [owner |-> q]
    OBVIOUS
  <2>. QED  BY <2>2, <2>3
<1>2. ASSUME NEW s \in TaskStatus  PROVE [status |-> s] \in Changes
  <2>. DEFINE f == [x \in {"status"} |-> s]
  <2>1. f \in [{"status"} -> Values] /\ f["status"] = s
    BY DEF Values
  <2>2. f \in Changes
    <3>. HIDE DEF f
    <3>. QED  BY <2>1, ChangeLemma DEF Fields
  <2>3. f = [status |-> s]
    OBVIOUS
  <2>. QED  BY <2>2, <2>3
<1>3. ASSUME NEW s \in TaskStatus  PROVE [owner |-> None, status |-> s] \in Changes
  <2>. DEFINE f == [x \in {"owner", "status"} |-> IF x = "owner" THEN None ELSE s]
  <2>1. f \in [{"owner", "status"} -> Values] /\ f["owner"] = None /\ f["status"] = s
    BY DEF Values
  <2>2. f \in Changes
    <3>. HIDE DEF f
    <3>. QED  BY <2>1, ChangeLemma DEF Fields
  <2>3. f = [owner |-> None, status |-> s]
    OBVIOUS
  <2>. QED  BY <2>2, <2>3
<1>4. ASSUME NEW b \in SUBSET Ids  PROVE [blocks |-> b] \in Changes
  <2>. DEFINE f == [x \in {"blocks"} |-> b]
  <2>1. f \in [{"blocks"} -> Values] /\ f["blocks"] = b
    BY DEF Values
  <2>2. f \in Changes
    <3>. HIDE DEF f
    <3>. QED  BY <2>1, ChangeLemma DEF Fields
  <2>3. f = [blocks |-> b]
    OBVIOUS
  <2>. QED  BY <2>2, <2>3
<1>5. ASSUME NEW b \in SUBSET Ids  PROVE [blockedBy |-> b] \in Changes
  <2>. DEFINE f == [x \in {"blockedBy"} |-> b]
  <2>1. f \in [{"blockedBy"} -> Values] /\ f["blockedBy"] = b
    BY DEF Values
  <2>2. f \in Changes
    <3>. HIDE DEF f
    <3>. QED  BY <2>1, ChangeLemma DEF Fields
  <2>3. f = [blockedBy |-> b]
    OBVIOUS
  <2>. QED  BY <2>2, <2>3
<1>6. ASSUME NEW b \in SUBSET Ids, NEW c \in SUBSET Ids  PROVE [blocks |-> b, blockedBy |-> c] \in Changes
  <2>. DEFINE f == [x \in {"blocks", "blockedBy"} |-> IF x = "blocks" THEN b ELSE c]
  <2>1. f \in [{"blocks", "blockedBy"} -> Values] /\ f["blocks"] = b /\ f["blockedBy"] = c
    BY DEF Values
  <2>2. f \in Changes
    <3>. HIDE DEF f
    <3>. QED  BY <2>1, ChangeLemma DEF Fields
  <2>3. f = [blocks |-> b, blockedBy |-> c]
    OBVIOUS
  <2>. QED  BY <2>2, <2>3
<1>. QED  BY <1>1, <1>2, <1>3, <1>4, <1>5, <1>6

\* SetToSeq of a set of ids: one entry for each.
LEMMA SetToSeqLemma ==
  ASSUME NEW S \in SUBSET Ids
  PROVE  /\ SetToSeq(S) \in Seq(S) /\ Len(SetToSeq(S)) <= MaxId
         /\ DOMAIN SetToSeq(S) = 1..Len(SetToSeq(S))
PROOF
<1>1. IsFiniteSet(Ids) /\ Cardinality(Ids) = MaxId
  <2>1. IsFiniteSet(1..MaxId) /\ Cardinality(1..MaxId) = IF 1 > MaxId THEN 0 ELSE MaxId - 1 + 1
    BY StoreConstants, FS_Interval
  <2>. QED  BY <2>1, StoreConstants DEF Ids
<1>2. IsFiniteSet(S) /\ Cardinality(S) <= MaxId
  BY <1>1, FS_Subset
<1>3. Cardinality(S) \in Nat /\ ExistsBijection(1..Cardinality(S), S)
  BY <1>2, FS_CardinalityType
<1>4. \E f \in [1..Cardinality(S) -> S] : IsInjective(f)
  BY <1>3 DEF ExistsBijection, Bijection, Injection, IsInjective
<1>5. SetToSeq(S) \in [1..Cardinality(S) -> S]
  BY <1>4 DEF SetToSeq
<1>. QED  BY <1>2, <1>3, <1>5

\* Updates of some ids are a plan when each of them is a patch.
LEMMA PlanLemma ==
  ASSUME NEW S \in SUBSET Ids, NEW u, u = [n \in DOMAIN SetToSeq(S) |-> u[n]],
         \A n \in DOMAIN SetToSeq(S) : u[n] \in Patches
  PROVE  u \in Plans
PROOF
<1>. DEFINE s == SetToSeq(S)
<1>1. s \in Seq(S) /\ Len(s) <= MaxId /\ DOMAIN s = 1..Len(s)
  BY SetToSeqLemma
<1>. HIDE DEF s
<1>2. u \in [1..Len(s) -> Patches] /\ Len(s) \in Nat
  <2>1. u = [n \in DOMAIN s |-> u[n]] /\ \A n \in DOMAIN s : u[n] \in Patches
    BY DEF s
  <2>. QED  BY <1>1, <2>1
<1>3. u \in Seq(Patches) /\ Len(u) = Len(s)
  BY <1>2
<1>. QED  BY <1>1, <1>3 DEF Plans

-----------------------------------------------------------------------------
(* What a step does to the locals of the processes                         *)

Same(q) ==
  /\ at'[q] = at[q] /\ op'[q] = op[q] /\ id'[q] = id[q] /\ high'[q] = high[q]
  /\ todo'[q] = todo[q] /\ view'[q] = view[q] /\ mine'[q] = mine[q] /\ plan'[q] = plan[q]
Others(p) == \A q \in Procs \ {p} : Same(q)

\* A step of p keeps the types of the locals and what holds of p's.
Keeps(p) == LocalsTyped' /\ FlowOf(p)' /\ Others(p)

\* Steps that move p on and leave its other locals.
Moves(p, step) ==
  /\ at' = [at EXCEPT ![p] = step]
  /\ UNCHANGED <<op, id, high, todo, view, mine, plan>>

LEMMA MovesLemma ==
  ASSUME Typed, NEW p \in Procs, NEW step \in Steps, Moves(p, step)
  PROVE  /\ LocalsTyped' /\ Others(p) /\ at'[p] = step
         /\ op'[p] = op[p] /\ id'[p] = id[p] /\ high'[p] = high[p] /\ todo'[p] = todo[p]
         /\ view'[p] = view[p] /\ mine'[p] = mine[p] /\ plan'[p] = plan[p]
PROOF
  BY DEF Typed, LocalsTyped, Moves, Others, Same

\* An operation that ends leaves nothing behind.
LEMMA EndLemma ==
  ASSUME Typed, NEW p \in Procs, End(p)
  PROVE  /\ Keeps(p) /\ LocksTyped' /\ at'[p] = "idle"
         /\ listLock' = (IF listLock = p THEN None ELSE listLock)
         /\ \A i \in Ids : taskLock'[i] = IF taskLock[i] = p THEN None ELSE taskLock[i]
PROOF
<1>1. Absent \in Contents /\ <<>> \in Views /\ <<>> \in Plans /\ Unread \in Reading
  <2>1. <<>> \in [{} -> Contents]
    OBVIOUS
  <2>2. <<>> \in Views
    BY <2>1 DEF Views
  <2>3. <<>> \in Seq(Patches) /\ Len(<<>>) = 0
    OBVIOUS
  <2>. QED  BY <2>2, <2>3, StoreConstants DEF Contents, Plans, Unread, Reading
<1>2. LocalsTyped'
  BY <1>1 DEF Typed, LocalsTyped, End, Steps
<1>3. Others(p)
  BY DEF Typed, LocalsTyped, End, Others, Same
<1>4. FlowOf(p)' /\ at'[p] = "idle"
  BY DEF Typed, LocalsTyped, End, FlowOf
<1>. QED  BY <1>2, <1>3, <1>4 DEF Keeps, Typed, LocksTyped, End

LEMMA FailLemma ==
  ASSUME Typed, NEW p \in Procs, Fail(p)
  PROVE  /\ Keeps(p) /\ LocksTyped' /\ at'[p] = "idle"
         /\ UNCHANGED <<disk, history>>
PROOF
  BY EndLemma DEF Fail

-----------------------------------------------------------------------------
(* Every step keeps the types                                              *)

KeepsAll(p) == DiskTyped' /\ LocksTyped' /\ HistoryTyped' /\ Keeps(p)

\* A step that fails, or moves on, or ends, without touching disk and history.
LEMMA FailKeeps ==
  ASSUME Typed, NEW p \in Procs, Fail(p)
  PROVE  KeepsAll(p)
PROOF
  BY FailLemma DEF Typed, DiskTyped, HistoryTyped, disk, history, KeepsAll

LEMMA BeginKeeps ==
  ASSUME Typed, NEW p \in Procs, Begins(p)
  PROVE  KeepsAll(p)
PROOF
<1>0. FlowOf(p)
  BY DEF Typed, Flow
<1>1. ASSUME NEW o \in Ops, NEW i \in Ids \cup {0}, Begin(p, o, i)
      PROVE  /\ started' \in 0..MaxOps /\ at' = [at EXCEPT ![p] = FirstStep[o]]
             /\ op' = [op EXCEPT ![p] = o] /\ id' = [id EXCEPT ![p] = i]
             /\ op' \in [Procs -> AllOps \cup {None}] /\ id' \in [Procs -> Ids \cup {0}]
             /\ at' \in [Procs -> Steps] /\ at[p] = "idle"
  <2>1. FirstStep[o] \in Steps
    BY StoreConstants DEF FirstStep, Steps, Waiting, AllOps
  <2>. QED  BY <1>1, <2>1, StoreConstants DEF Begin, Goto, Typed, LocalsTyped, HistoryTyped
<1>2. CASE BeginPlain(p)
  <2>1. PICK o \in Ops \cap {"create", "reset", "unassign"} : Begin(p, o, 0)
    BY <1>2 DEF BeginPlain
  <2>2. UNCHANGED <<disk, locks, high, todo, view, mine, plan, crashes, allocated, winners>>
    BY <1>2 DEF BeginPlain
  <2>3. LocalsTyped' /\ Others(p)
    BY <1>1, <2>1, <2>2 DEF Typed, LocalsTyped, Others, Same
  <2>4. at'[p] = FirstStep[o] /\ op'[p] = o
    BY <1>1, <2>1 DEF Typed, LocalsTyped
  <2>5. FlowOf(p)'
    BY <2>1, <2>4 DEF FlowOf, PathOf, HoldsOf, FirstStep, OnTask, Updating
  <2>. QED  BY <1>1, <2>1, <2>2, <2>3, <2>5
            DEF Typed, DiskTyped, LocksTyped, HistoryTyped, disk, locks, KeepsAll, Keeps
<1>3. CASE BeginOnTask(p)
  <2>1. PICK o \in Ops \cap {"delete", "claim", "claimBusy", "update", "start"}, i \in Ids : Begin(p, o, i)
    BY <1>3 DEF BeginOnTask
  <2>2. UNCHANGED <<disk, locks, high, todo, view, mine, plan, crashes, allocated, winners>>
    BY <1>3 DEF BeginOnTask
  <2>3. LocalsTyped' /\ Others(p)
    BY <1>1, <2>1, <2>2 DEF Typed, LocalsTyped, Others, Same
  <2>4. at'[p] = FirstStep[o] /\ op'[p] = o /\ id'[p] = i
    BY <1>1, <2>1 DEF Typed, LocalsTyped
  <2>5. FlowOf(p)'
    <3>1. /\ o \in {"claim", "claimBusy"} => at'[p] = "check"
          /\ o \in {"update", "start"} => at'[p] = "look"
      BY <2>1, <2>4 DEF FirstStep
    <3>2. o = "delete" => at'[p] = "readMark"
      BY <2>1, <2>4 DEF FirstStep
    <3>. QED  BY <2>1, <2>4, <3>1, <3>2 DEF FlowOf, PathOf, HoldsOf, OnTask, Updating
  <2>. QED  BY <1>1, <2>1, <2>2, <2>3, <2>5
            DEF Typed, DiskTyped, LocksTyped, HistoryTyped, disk, locks, KeepsAll, Keeps
<1>4. CASE BeginSetStatus(p)
  <2>. DEFINE s == "in_progress"
  <2>1. PICK i \in Ids :
          /\ Begin(p, "setStatus", i)
          /\ plan' = [plan EXCEPT ![p] = <<[id |-> i, set |-> [status |-> s]]>>]
    BY <1>4 DEF BeginSetStatus
  <2>2. UNCHANGED <<disk, locks, high, todo, view, mine, crashes, allocated, winners>> /\ "setStatus" \in Ops
    BY <1>4 DEF BeginSetStatus
  <2>3. <<[id |-> i, set |-> [status |-> s]]>> \in Plans
    <3>1. [status |-> s] \in Changes
      BY ChangesLemma DEF TaskStatus
    <3>2. [id |-> i, set |-> [status |-> s]] \in Patches
      BY <3>1 DEF Patches
    <3>3. MaxId >= 1
      BY StoreConstants DEF Ids
    <3>. QED  BY <3>2, <3>3, StoreConstants DEF Plans
  <2>4. LocalsTyped' /\ Others(p)
    BY <1>1, <2>1, <2>2, <2>3 DEF Typed, LocalsTyped, Others, Same
  <2>5. at'[p] = "updCheck" /\ op'[p] = "setStatus" /\ id'[p] = i /\ plan'[p] # <<>>
    BY <1>1, <2>1, <2>2 DEF Typed, LocalsTyped, FirstStep
  <2>6. FlowOf(p)'
    BY <2>2, <2>5 DEF FlowOf, PathOf, HoldsOf, OnTask, Updating
  <2>. QED  BY <1>1, <2>1, <2>2, <2>4, <2>6
            DEF Typed, DiskTyped, LocksTyped, HistoryTyped, disk, locks, KeepsAll, Keeps
<1>5. CASE BeginBlock(p)
  <2>1. PICK from \in Ids, to \in Ids :
          /\ from # to /\ Begin(p, "block", from)
          /\ todo' = [todo EXCEPT ![p] = {from, to}]
    BY <1>5 DEF BeginBlock
  <2>2. UNCHANGED <<disk, locks, high, view, mine, plan, crashes, allocated, winners>> /\ "block" \in Ops
    BY <1>5 DEF BeginBlock
  <2>3. LocalsTyped' /\ Others(p)
    BY <1>1, <2>1, <2>2 DEF Typed, LocalsTyped, Others, Same
  <2>4. at'[p] = "readAll" /\ op'[p] = "block" /\ id'[p] = from /\ todo'[p] = {from, to}
    BY <1>1, <2>1, <2>2 DEF Typed, LocalsTyped, FirstStep
  <2>5. view'[p] = <<>> /\ DOMAIN <<>> = {}
    BY <1>0, <1>1, <2>1, <2>2 DEF FlowOf
  <2>6. todo'[p] \cup DOMAIN view'[p] = {from, to}
    BY <2>4, <2>5
  <2>7. FlowOf(p)'
    BY <2>1, <2>2, <2>4, <2>6 DEF FlowOf, PathOf, HoldsOf, OnTask, Updating
  <2>. QED  BY <1>1, <2>1, <2>2, <2>3, <2>7
            DEF Typed, DiskTyped, LocksTyped, HistoryTyped, disk, locks, KeepsAll, Keeps
<1>. QED  BY <1>2, <1>3, <1>4, <1>5 DEF Begins

LEMMA LocksKeep ==
  ASSUME Typed, NEW p \in Procs, LockList(p) \/ LockTask(p) \/ LockGone(p) \/ LockTimesOut(p)
  PROVE  KeepsAll(p)
PROOF
<1>0. FlowOf(p) /\ at[p] \in Steps
  BY DEF Typed, LocalsTyped, Flow
<1>1. CASE LockList(p)
  <2>. DEFINE next == IF op[p] = "claimBusy" THEN "list" ELSE "highest"
  <2>1. Moves(p, next) /\ at[p] = "lockList" /\ next \in Steps
    BY <1>1 DEF LockList, Goto, Moves, Steps
  <2>2. /\ LocalsTyped' /\ Others(p) /\ at'[p] = next
        /\ op'[p] = op[p] /\ id'[p] = id[p] /\ high'[p] = high[p] /\ todo'[p] = todo[p]
        /\ view'[p] = view[p] /\ mine'[p] = mine[p] /\ plan'[p] = plan[p]
    BY <2>1, MovesLemma
  <2>3. FlowOf(p)'
    BY <1>0, <2>1, <2>2 DEF FlowOf, PathOf, HoldsOf, Updating
  <2>. QED  BY <1>1, <2>2, <2>3 DEF LockList, Typed, DiskTyped, LocksTyped, HistoryTyped,
                                    disk, history, KeepsAll, Keeps
<1>2. CASE LockTask(p)
  <2>. DEFINE next == IF at[p] = "lockTask" THEN "reread" ELSE "updRead"
  <2>1. Moves(p, next) /\ at[p] \in {"lockTask", "updLock"} /\ next \in Steps
    BY <1>2 DEF LockTask, Goto, Moves, Steps
  <2>2. /\ LocalsTyped' /\ Others(p) /\ at'[p] = next
        /\ op'[p] = op[p] /\ id'[p] = id[p] /\ high'[p] = high[p] /\ todo'[p] = todo[p]
        /\ view'[p] = view[p] /\ mine'[p] = mine[p] /\ plan'[p] = plan[p]
    BY <2>1, MovesLemma
  <2>3. FlowOf(p)'
    BY <1>0, <2>1, <2>2 DEF FlowOf, PathOf, HoldsOf, Updating, OwnIt
  <2>4. LocksTyped'
    BY <1>2 DEF LockTask, Typed, LocksTyped
  <2>. QED  BY <1>2, <2>2, <2>3, <2>4 DEF LockTask, Typed, DiskTyped, HistoryTyped,
                                    disk, history, KeepsAll, Keeps
<1>. QED  BY <1>1, <1>2, FailKeeps DEF LockGone, LockTimesOut

\* The highest id in the directory.
LEMMA FilesHighestLemma ==
  ASSUME DiskTyped
  PROVE  /\ FilesHighest \in 0..MaxId
         /\ \A j \in Ids : file[j] # Absent => j <= FilesHighest
         /\ FilesHighest # 0 => FilesHighest \in Ids /\ file[FilesHighest] # Absent
PROOF
<1>1. CASE \A i \in Ids : file[i] = Absent
  BY <1>1, StoreConstants DEF FilesHighest
<1>2. CASE \E i \in Ids : file[i] # Absent
  <2>. DEFINE S == {i \in Ids : file[i] # Absent}
              T == {MaxId - i : i \in S}
  <2>1. T \in SUBSET Nat /\ T # {}
    BY <1>2, StoreConstants DEF Ids
  <2>2. PICK t \in T : \A u \in T : t <= u
    BY <2>1, Least
  <2>3. PICK i \in S : t = MaxId - i
    BY <2>2
  <2>4. \A j \in S : MaxId - i <= MaxId - j
    BY <2>2, <2>3
  <2>5. \A j \in S : j <= i
    BY <2>3, <2>4, StoreConstants DEF Ids
  <2>6. \E k \in Ids : file[k] # Absent /\ \A j \in Ids : file[j] # Absent => j <= k
    BY <2>3, <2>5
  <2>7. FilesHighest \in Ids /\ file[FilesHighest] # Absent
        /\ \A j \in Ids : file[j] # Absent => j <= FilesHighest
    BY <1>2, <2>6 DEF FilesHighest
  <2>. QED  BY <2>7, StoreConstants DEF Ids
<1>. QED  BY <1>1, <1>2

LEMMA MarkLemma ==
  ASSUME DiskTyped
  PROVE  MarkValue \in 0..MaxId
PROOF
  BY StoreConstants DEF DiskTyped, MarkValue

\* createTask knows the highest id when it makes a file.
LEMMA NewIdLemma ==
  ASSUME Typed, NEW p \in Procs, at[p] \in {"create", "createWrite"}
  PROVE  /\ high[p].files \in 0..MaxId /\ high[p].mark \in 0..MaxId /\ op[p] = "create"
         /\ NewId(p) \in Nat /\ NewId(p) > high[p].files /\ NewId(p) > high[p].mark
PROOF
<1>1. high[p].files \in 0..MaxId /\ high[p].mark \in 0..MaxId /\ op[p] = "create"
  BY StoreConstants DEF Typed, LocalsTyped, Flow, FlowOf, PathOf, HoldsOf, Reading
<1>. QED  BY <1>1, StoreConstants DEF NewId

\* findHighestTaskIdFromFiles, the mark and createTask.
LEMMA CreateKeeps ==
  ASSUME Typed, NEW p \in Procs,
         \/ ReadFiles(p) \/ ReadMarkToCreate(p) \/ ReadMark(p) \/ TruncateMark(p) \/ WriteMark(p)
         \/ TruncateNew(p) \/ NoRoom(p) \/ WriteNew(p)
  PROVE  KeepsAll(p)
PROOF
<1>0. FlowOf(p) /\ at[p] \in Steps /\ high[p] \in Reading /\ DiskTyped /\ high \in [Procs -> Reading]
      /\ high[p].files \in -1..MaxId /\ high[p].mark \in -1..MaxId
  BY DEF Typed, LocalsTyped, Flow, Reading
<1>1. FilesHighest \in 0..MaxId /\ MarkValue \in 0..MaxId
  BY <1>0, FilesHighestLemma, MarkLemma
<1>2. CASE ReadFiles(p)
  <2>. DEFINE next == IF op[p] = "create" THEN (IF high[p].mark = -1 THEN "highest" ELSE "create")
                      ELSE IF FilesHighest > 0 THEN "readMark" ELSE "clear"
  <2>1. /\ at[p] = "highest" /\ high' = [high EXCEPT ![p].files = FilesHighest]
        /\ at' = [at EXCEPT ![p] = next] /\ next \in Steps
        /\ UNCHANGED <<disk, locks, op, id, todo, view, mine, plan, history>>
    BY <1>2 DEF ReadFiles, Goto, Steps
  <2>2. high' \in [Procs -> Reading] /\ high'[p].files = FilesHighest /\ high'[p].mark = high[p].mark
    BY <1>0, <1>1, <2>1, StoreConstants DEF Reading
  <2>3. LocalsTyped' /\ Others(p) /\ at'[p] = next
    BY <2>1, <2>2 DEF Typed, LocalsTyped, Others, Same
  <2>4. FlowOf(p)'
    <3>1. op[p] \in Ops /\ op[p] \in {"create", "reset"} /\ (op[p] \in OnTask => id[p] \in Ids)
      BY <1>0, <2>1 DEF FlowOf, PathOf, HoldsOf
    <3>2. next # "idle" /\ op'[p] = op[p] /\ id'[p] = id[p]
      BY <2>1
    <3>3. PathOf(p)'
      BY <2>1, <2>3, <3>1, <3>2 DEF PathOf
    <3>4. HoldsOf(p)'
      BY <1>1, <2>1, <2>2, <2>3, <3>1, <3>2, StoreConstants DEF HoldsOf, Updating, OnTask
    <3>. QED  BY <2>3, <3>1, <3>2, <3>3, <3>4 DEF FlowOf
  <2>. QED  BY <2>1, <2>3, <2>4 DEF Typed, DiskTyped, LocksTyped, HistoryTyped,
                                    disk, locks, history, KeepsAll, Keeps
<1>3. CASE ReadMarkToCreate(p)
  <2>. DEFINE next == IF high[p].files = -1 THEN "highest" ELSE "create"
  <2>1. /\ at[p] = "highest" /\ op[p] = "create" /\ high' = [high EXCEPT ![p].mark = MarkValue]
        /\ at' = [at EXCEPT ![p] = next] /\ next \in Steps
        /\ UNCHANGED <<disk, locks, op, id, todo, view, mine, plan, history>>
    BY <1>3 DEF ReadMarkToCreate, Goto, Steps
  <2>2. high' \in [Procs -> Reading] /\ high'[p].mark = MarkValue /\ high'[p].files = high[p].files
    BY <1>0, <1>1, <2>1, StoreConstants DEF Reading
  <2>3. LocalsTyped' /\ Others(p) /\ at'[p] = next
    BY <2>1, <2>2 DEF Typed, LocalsTyped, Others, Same
  <2>4. FlowOf(p)'
    <3>1. op[p] \in Ops /\ op'[p] = "create" /\ next # "idle"
      BY <1>0, <2>1 DEF FlowOf
    <3>2. PathOf(p)'
      BY <2>3, <3>1 DEF PathOf
    <3>3. HoldsOf(p)'
      BY <1>1, <2>2, <2>3, <3>1, StoreConstants DEF HoldsOf, Updating, OnTask
    <3>. QED  BY <2>1, <2>3, <3>1, <3>2, <3>3 DEF FlowOf
  <2>. QED  BY <2>1, <2>3, <2>4 DEF Typed, DiskTyped, LocksTyped, HistoryTyped,
                                    disk, locks, history, KeepsAll, Keeps
<1>4. CASE ReadMark(p) \/ TruncateMark(p) \/ WriteMark(p)
  <2>1. PICK next \in {"markTrunc", "markWrite", AfterMark(p)} : Moves(p, next)
    BY <1>4 DEF ReadMark, TruncateMark, WriteMark, Goto, Moves
  <2>2. at[p] \in {"readMark", "markTrunc", "markWrite"} /\ AfterMark(p) \in {"unlink", "clear"}
    BY <1>4 DEF ReadMark, TruncateMark, WriteMark, AfterMark
  <2>3. /\ LocalsTyped' /\ Others(p) /\ at'[p] = next
        /\ op'[p] = op[p] /\ id'[p] = id[p] /\ high'[p] = high[p] /\ todo'[p] = todo[p]
        /\ view'[p] = view[p] /\ mine'[p] = mine[p] /\ plan'[p] = plan[p]
    <3>1. next \in Steps
      BY <2>1, <2>2 DEF Steps
    <3>. QED  BY <2>1, <3>1, MovesLemma
  <2>4. op[p] \in {"reset", "delete"} /\ op[p] \in Ops /\ (op[p] = "reset" => high[p].files >= 1)
        /\ (op[p] = "delete" => id[p] \in Ids)
    BY <1>0, <2>2 DEF FlowOf, PathOf, HoldsOf, OnTask
  <2>5. FlowOf(p)'
    <3>1. AfterMark(p) = IF op[p] = "delete" THEN "unlink" ELSE "clear"
      BY DEF AfterMark
    <3>2. PathOf(p)'
      BY <2>1, <2>3, <2>4, <3>1 DEF PathOf
    <3>3. HoldsOf(p)'
      BY <2>1, <2>2, <2>3, <2>4 DEF HoldsOf, Updating, OnTask
    <3>. QED  BY <2>1, <2>2, <2>3, <2>4, <3>2, <3>3 DEF FlowOf
  <2>6. DiskTyped'
    <3>1. ToMark(p) \in 0..MaxId
      BY <1>0, <2>4, StoreConstants DEF ToMark, Ids
    <3>. QED  BY <1>0, <1>4, <3>1 DEF ReadMark, TruncateMark, WriteMark, DiskTyped, disk
  <2>7. UNCHANGED <<locks, history>>
    BY <1>4 DEF ReadMark, TruncateMark, WriteMark
  <2>. QED  BY <2>3, <2>5, <2>6, <2>7 DEF Typed, LocksTyped, HistoryTyped, locks, history, KeepsAll, Keeps
<1>5. CASE TruncateNew(p)
  <2>1. Moves(p, "createWrite") /\ at[p] = "create" /\ "createWrite" \in Steps
    BY <1>5 DEF TruncateNew, Goto, Moves, Steps
  <2>2. /\ LocalsTyped' /\ Others(p) /\ at'[p] = "createWrite"
        /\ op'[p] = op[p] /\ id'[p] = id[p] /\ high'[p] = high[p] /\ todo'[p] = todo[p]
        /\ view'[p] = view[p] /\ mine'[p] = mine[p] /\ plan'[p] = plan[p]
    BY <2>1, MovesLemma
  <2>3. FlowOf(p)'
    BY <1>0, <2>1, <2>2 DEF FlowOf, PathOf, HoldsOf, Updating
  <2>4. DiskTyped' /\ HistoryTyped'
    <3>1. Torn \in Contents
      BY DEF Contents
    <3>2. NewId(p) \in Ids
      BY <1>5, <2>1, NewIdLemma, StoreConstants DEF TruncateNew, Ids
    <3>3. allocated' \in [Ids -> Nat] /\ winners' \in [Ids -> SUBSET Procs]
      BY <1>5, <3>2 DEF TruncateNew, Typed, HistoryTyped
    <3>. QED  BY <1>5, <3>1, <3>2, <3>3 DEF TruncateNew, Typed, DiskTyped, HistoryTyped
  <2>. QED  BY <1>5, <2>2, <2>3, <2>4 DEF TruncateNew, Typed, LocksTyped, locks, KeepsAll, Keeps
<1>6. CASE WriteNew(p)
  <2>1. [owner |-> None, status |-> "pending", blocks |-> {}, blockedBy |-> {}] \in Contents
    BY DEF Contents, Task, TaskStatus
  <2>2. DiskTyped' /\ HistoryTyped'
    BY <1>6, <2>1 DEF WriteNew, Typed, DiskTyped, HistoryTyped, history
  <2>. QED  BY <1>6, <2>2, EndLemma DEF WriteNew, KeepsAll
<1>. QED  BY <1>2, <1>3, <1>4, <1>5, <1>6, FailKeeps DEF NoRoom

\* The rest of resetTaskList, unlink and the reading of the list.
LEMMA ListKeeps ==
  ASSUME Typed, NEW p \in Procs,
         \/ ReadDirToClear(p) \/ UnlinkOne(p) \/ ResetEnds(p) \/ Unlink(p) \/ UnlinkMissing(p)
         \/ ReadDir(p) \/ ReadOne(p) \/ ReadNone(p)
  PROVE  KeepsAll(p)
PROOF
<1>0. FlowOf(p) /\ at[p] \in Steps /\ todo \in [Procs -> SUBSET Ids] /\ view \in [Procs -> Views]
  BY DEF Typed, LocalsTyped, Flow
<1>1. CASE ReadDirToClear(p) \/ ReadDir(p)
  <2>. DEFINE S == {i \in Ids : file[i] # Absent}
              next == IF at[p] = "clear" THEN "unlinkAll" ELSE "readAll"
  <2>1. /\ at[p] \in {"clear", "list"} /\ todo' = [todo EXCEPT ![p] = S]
        /\ at' = [at EXCEPT ![p] = next] /\ next \in Steps
        /\ UNCHANGED <<disk, locks, op, id, high, view, mine, plan, history>>
    BY <1>1 DEF ReadDirToClear, ReadDir, Goto, Steps
  <2>2. LocalsTyped' /\ Others(p) /\ at'[p] = next
    <3>. HIDE DEF S, next
    <3>1. S \in SUBSET Ids
      BY DEF S
    <3>. QED  BY <2>1, <3>1 DEF Typed, LocalsTyped, Others, Same
  <2>3. FlowOf(p)'
    <3>1. op'[p] = op[p] /\ id'[p] = id[p] /\ at'[p] \in {"unlinkAll", "readAll"}
          /\ (at'[p] = "unlinkAll" <=> at[p] = "clear")
      BY <2>1, <2>2
    <3>2. op[p] \in Ops /\ (op[p] \in OnTask => id[p] \in Ids) /\ (at[p] = "clear" => op[p] = "reset")
          /\ (at[p] = "list" => op[p] \in {"claim", "claimBusy", "unassign", "delete"})
      BY <1>0, <2>1 DEF FlowOf, PathOf, HoldsOf
    <3>3. PathOf(p)'
      BY <2>1, <3>1, <3>2 DEF PathOf
    <3>4. HoldsOf(p)'
      BY <2>1, <3>1, <3>2 DEF HoldsOf, Updating
    <3>. QED  BY <3>1, <3>2, <3>3, <3>4 DEF FlowOf
  <2>. QED  BY <2>1, <2>2, <2>3 DEF Typed, DiskTyped, LocksTyped, HistoryTyped,
                                    disk, locks, history, KeepsAll, Keeps
<1>2. CASE UnlinkOne(p)
  <2>1. PICK i \in todo[p] : /\ file' = [file EXCEPT ![i] = Absent]
                             /\ todo' = [todo EXCEPT ![p] = @ \ {i}]
                             /\ winners' = [winners EXCEPT ![i] = {}]
    BY <1>2 DEF UnlinkOne
  <2>2. UNCHANGED <<mark, locks, at, op, id, high, view, mine, plan, started, crashes, allocated>>
        /\ at[p] = "unlinkAll"
    BY <1>2 DEF UnlinkOne
  <2>3. LocalsTyped' /\ Others(p)
    BY <2>1, <2>2 DEF Typed, LocalsTyped, Others, Same
  <2>4. FlowOf(p)'
    BY <1>0, <2>2 DEF FlowOf, PathOf, HoldsOf, Updating
  <2>5. DiskTyped' /\ HistoryTyped'
    <3>1. Absent \in Contents
      BY DEF Contents
    <3>. QED  BY <2>1, <2>2, <3>1 DEF Typed, DiskTyped, HistoryTyped
  <2>. QED  BY <2>2, <2>3, <2>4, <2>5 DEF Typed, LocksTyped, locks, KeepsAll, Keeps
<1>3. CASE Unlink(p)
  <2>1. Moves(p, "list") /\ at[p] = "unlink" /\ "list" \in Steps
    BY <1>3 DEF Unlink, Goto, Moves, Steps
  <2>2. /\ LocalsTyped' /\ Others(p) /\ at'[p] = "list"
        /\ op'[p] = op[p] /\ id'[p] = id[p] /\ high'[p] = high[p] /\ todo'[p] = todo[p]
        /\ view'[p] = view[p] /\ mine'[p] = mine[p] /\ plan'[p] = plan[p]
    BY <2>1, MovesLemma
  <2>3. FlowOf(p)'
    BY <1>0, <2>1, <2>2 DEF FlowOf, PathOf, HoldsOf, Updating
  <2>4. DiskTyped' /\ HistoryTyped'
    <3>1. Absent \in Contents
      BY DEF Contents
    <3>. QED  BY <1>3, <3>1 DEF Unlink, Typed, DiskTyped, HistoryTyped
  <2>. QED  BY <1>3, <2>2, <2>3, <2>4 DEF Unlink, Typed, LocksTyped, locks, KeepsAll, Keeps
<1>4. CASE ReadOne(p)
  <2>1. PICK i \in todo[p] :
          /\ todo' = [todo EXCEPT ![p] = @ \ {i}]
          /\ view' = [view EXCEPT ![p] = [j \in DOMAIN @ \cup {i} |-> IF j = i THEN file[i] ELSE @[j]]]
          /\ at' = [at EXCEPT ![p] = IF todo[p] = {i} THEN "decide" ELSE "readAll"]
    BY <1>4 DEF ReadOne, Goto
  <2>. DEFINE v == [j \in DOMAIN view[p] \cup {i} |-> IF j = i THEN file[i] ELSE view[p][j]]
  <2>2. UNCHANGED <<disk, locks, op, id, high, mine, plan, history>> /\ at[p] = "readAll" /\ i \in Ids
    BY <1>0, <1>4, <2>1 DEF ReadOne
  <2>3. v \in Views /\ DOMAIN v = DOMAIN view[p] \cup {i}
    <3>1. view[p] \in [DOMAIN view[p] -> Contents] /\ DOMAIN view[p] \in SUBSET Ids
      BY <1>0 DEF Views
    <3>2. v \in [DOMAIN view[p] \cup {i} -> Contents] /\ DOMAIN view[p] \cup {i} \in SUBSET Ids
      BY <2>2, <3>1 DEF Typed, DiskTyped
    <3>. HIDE DEF v
    <3>. QED  BY <3>2 DEF Views
  <2>4. view' = [view EXCEPT ![p] = v]
    BY <2>1
  <2>. HIDE DEF v
  <2>5. LocalsTyped' /\ Others(p) /\ at'[p] = (IF todo[p] = {i} THEN "decide" ELSE "readAll")
    <3>1. (IF todo[p] = {i} THEN "decide" ELSE "readAll") \in Steps
      BY DEF Steps
    <3>. QED  BY <2>1, <2>2, <2>3, <2>4, <3>1 DEF Typed, LocalsTyped, Others, Same
  <2>6. todo'[p] \cup DOMAIN view'[p] = todo[p] \cup DOMAIN view[p] /\ todo'[p] = todo[p] \ {i}
    BY <1>0, <2>1, <2>3, <2>4
  <2>7. FlowOf(p)'
    <3>1. op'[p] = op[p] /\ id'[p] = id[p] /\ at'[p] \in {"readAll", "decide"}
      BY <2>2, <2>5
    <3>2. op[p] \in Ops /\ (op[p] \in OnTask => id[p] \in Ids)
          /\ op[p] \in {"claim", "claimBusy", "unassign", "delete", "block"}
          /\ (op[p] = "block" => \E to \in Ids \ {id[p]} : todo[p] \cup DOMAIN view[p] = {id[p], to})
      BY <1>0, <2>2 DEF FlowOf, PathOf, HoldsOf
    <3>3. PathOf(p)'
      BY <3>1, <3>2 DEF PathOf
    <3>4. at'[p] = "decide" => todo'[p] = {}
      BY <2>5, <2>6
    <3>5. HoldsOf(p)'
      BY <2>6, <3>1, <3>2, <3>4 DEF HoldsOf, Updating
    <3>. QED  BY <3>1, <3>2, <3>3, <3>5 DEF FlowOf
  <2>. QED  BY <2>2, <2>5, <2>7 DEF Typed, DiskTyped, LocksTyped, HistoryTyped,
                                    disk, locks, history, KeepsAll, Keeps
<1>5. CASE ReadNone(p)
  <2>1. Moves(p, "decide") /\ at[p] = "readAll" /\ "decide" \in Steps /\ todo[p] = {}
    BY <1>5 DEF ReadNone, Goto, Moves, Steps
  <2>2. /\ LocalsTyped' /\ Others(p) /\ at'[p] = "decide"
        /\ op'[p] = op[p] /\ id'[p] = id[p] /\ high'[p] = high[p] /\ todo'[p] = todo[p]
        /\ view'[p] = view[p] /\ mine'[p] = mine[p] /\ plan'[p] = plan[p]
    BY <2>1, MovesLemma
  <2>3. FlowOf(p)'
    BY <1>0, <2>1, <2>2 DEF FlowOf, PathOf, HoldsOf, Updating
  <2>. QED  BY <1>5, <2>2, <2>3 DEF ReadNone, Typed, DiskTyped, LocksTyped, HistoryTyped,
                                    disk, locks, history, KeepsAll, Keeps
<1>. QED  BY <1>1, <1>2, <1>3, <1>4, <1>5, FailKeeps DEF ResetEnds, UnlinkMissing

\* An operation starts the updates it has decided on.
LEMMA GoUpdateLemma ==
  ASSUME Typed, NEW p \in Procs, NEW u \in Plans, NEW step \in Steps, GoUpdate(p, u, step)
  PROVE  /\ DiskTyped' /\ LocksTyped' /\ HistoryTyped' /\ LocalsTyped' /\ Others(p)
         /\ at'[p] = step /\ plan'[p] = u /\ op'[p] = op[p] /\ id'[p] = id[p] /\ todo'[p] = todo[p]
PROOF
<1>1. Absent \in Contents /\ <<>> \in Views
  <2>1. <<>> \in [{} -> Contents]
    OBVIOUS
  <2>. QED  BY <2>1 DEF Contents, Views
<1>2. LocalsTyped' /\ Others(p)
  BY <1>1 DEF GoUpdate, Goto, Typed, LocalsTyped, Others, Same
<1>3. at'[p] = step /\ plan'[p] = u /\ op'[p] = op[p] /\ id'[p] = id[p] /\ todo'[p] = todo[p]
  BY DEF GoUpdate, Goto, Typed, LocalsTyped
<1>. QED  BY <1>2, <1>3 DEF GoUpdate, Typed, DiskTyped, LocksTyped, HistoryTyped, disk, locks, history

\* What claimTask writes.
LEMMA OwnItLemma ==
  ASSUME NEW p \in Procs, id[p] \in Ids
  PROVE  /\ OwnIt(p) \in Plans /\ OwnIt(p) # <<>> /\ Len(OwnIt(p)) = 1
         /\ Head(OwnIt(p)) = [id |-> id[p], set |-> [owner |-> p]]
PROOF
<1>. DEFINE x == [id |-> id[p], set |-> [owner |-> p]]
<1>1. [owner |-> p] \in Changes
  BY ChangesLemma
<1>2. x \in Patches
  BY <1>1 DEF Patches
<1>3. OwnIt(p) = <<x>>
  BY DEF OwnIt
<1>. HIDE DEF x
<1>4. MaxId >= 1
  BY StoreConstants DEF Ids
<1>5. <<x>> \in Seq(Patches) /\ Len(<<x>>) = 1 /\ Head(<<x>>) = x /\ <<x>> # <<>>
  BY <1>2
<1>6. <<x>> \in Plans
  BY <1>4, <1>5 DEF Plans
<1>. QED  BY <1>3, <1>5, <1>6 DEF x

LEMMA ClaimKeeps ==
  ASSUME Typed, NEW p \in Procs,
         Check(p) \/ Reread(p) \/ DecideClaim(p) \/ DecideClaimBusy(p)
  PROVE  KeepsAll(p)
PROOF
<1>0. FlowOf(p) /\ at[p] \in Steps
  BY DEF Typed, LocalsTyped, Flow
<1>1. CASE Check(p) /\ Parses(file[id[p]])
  <2>. DEFINE next == IF op[p] = "claim" THEN "lockTask" ELSE "lockList"
  <2>1. Moves(p, next) /\ at[p] = "check" /\ next \in Steps
    BY <1>1 DEF Check, Goto, Moves, Steps, Waiting
  <2>2. /\ LocalsTyped' /\ Others(p) /\ at'[p] = next
        /\ op'[p] = op[p] /\ id'[p] = id[p] /\ high'[p] = high[p] /\ todo'[p] = todo[p]
        /\ view'[p] = view[p] /\ mine'[p] = mine[p] /\ plan'[p] = plan[p]
    BY <2>1, MovesLemma
  <2>3. FlowOf(p)'
    BY <1>0, <2>1, <2>2 DEF FlowOf, PathOf, HoldsOf, Updating
  <2>. QED  BY <1>1, <2>2, <2>3 DEF Check, Typed, DiskTyped, LocksTyped, HistoryTyped,
                                    disk, locks, history, KeepsAll, Keeps
<1>2. CASE Reread(p) /\ Claimable(p, file[id[p]])
  <2>1. /\ at[p] = "reread" /\ mine' = [mine EXCEPT ![p] = file[id[p]]]
        /\ at' = [at EXCEPT ![p] = "list"] /\ "list" \in Steps
        /\ UNCHANGED <<disk, locks, op, id, high, todo, view, plan, history>>
    BY <1>2 DEF Reread, Goto, Steps
  <2>2. op[p] = "claim" /\ op[p] \in Ops /\ id[p] \in Ids
    BY <1>0, <2>1 DEF FlowOf, PathOf, HoldsOf, OnTask
  <2>3. file[id[p]] \in Contents
    BY <2>2 DEF Typed, DiskTyped
  <2>4. LocalsTyped' /\ Others(p) /\ at'[p] = "list"
    BY <2>1, <2>3 DEF Typed, LocalsTyped, Others, Same
  <2>5. FlowOf(p)'
    BY <2>1, <2>2, <2>4 DEF FlowOf, PathOf, HoldsOf, Updating
  <2>. QED  BY <2>1, <2>4, <2>5 DEF Typed, DiskTyped, LocksTyped, HistoryTyped,
                                    disk, locks, history, KeepsAll, Keeps
<1>3. ASSUME NEW step \in {"updRead", "updCheck"}, GoUpdate(p, OwnIt(p), step), at[p] = "decide",
             op[p] = IF step = "updRead" THEN "claim" ELSE "claimBusy"
      PROVE  KeepsAll(p)
  <2>1. op[p] \in Ops /\ id[p] \in Ids
    BY <1>0, <1>3 DEF FlowOf, HoldsOf, OnTask
  <2>2. step \in Steps
    BY DEF Steps
  <2>3. OwnIt(p) \in Plans /\ OwnIt(p) # <<>>
    BY <2>1, OwnItLemma
  <2>4. /\ DiskTyped' /\ LocksTyped' /\ HistoryTyped' /\ LocalsTyped' /\ Others(p)
        /\ at'[p] = step /\ plan'[p] = OwnIt(p) /\ op'[p] = op[p] /\ id'[p] = id[p]
    BY <1>3, <2>2, <2>3, GoUpdateLemma
  <2>5. OwnIt(p)' = OwnIt(p)
    BY <2>4 DEF OwnIt
  <2>6. PathOf(p)'
    BY <1>3, <2>4 DEF PathOf
  <2>7. HoldsOf(p)'
    BY <1>3, <2>1, <2>3, <2>4, <2>5 DEF HoldsOf, Updating
  <2>8. FlowOf(p)'
    BY <1>3, <2>1, <2>4, <2>6, <2>7 DEF FlowOf
  <2>. QED  BY <2>4, <2>8 DEF KeepsAll, Keeps
<1>4. CASE Check(p) /\ ~Parses(file[id[p]])
  BY <1>4, FailKeeps DEF Check
<1>5. CASE Reread(p) /\ ~Claimable(p, file[id[p]])
  BY <1>5, FailKeeps DEF Reread
<1>6. CASE DecideClaim(p)
  BY <1>3, <1>6, FailKeeps DEF DecideClaim
<1>7. CASE DecideClaimBusy(p)
  BY <1>3, <1>7, FailKeeps DEF DecideClaimBusy
<1>. QED  BY <1>1, <1>2, <1>4, <1>5, <1>6, <1>7

LEMMA MakeAllKeeps ==
  ASSUME Typed, NEW p \in Procs, NEW u \in Plans, at[p] = "decide",
         op[p] \in {"delete", "unassign", "block"}, MakeAll(p, u)
  PROVE  KeepsAll(p)
PROOF
<1>1. CASE u # <<>>
  <2>1. GoUpdate(p, u, "updCheck") /\ "updCheck" \in Steps
    BY <1>1 DEF MakeAll, Steps
  <2>2. /\ DiskTyped' /\ LocksTyped' /\ HistoryTyped' /\ LocalsTyped' /\ Others(p)
        /\ at'[p] = "updCheck" /\ plan'[p] = u /\ op'[p] = op[p] /\ id'[p] = id[p]
    BY <2>1, GoUpdateLemma
  <2>3. FlowOf(p)'
    BY <1>1, <2>2 DEF Typed, Flow, FlowOf, PathOf, HoldsOf, Updating
  <2>. QED  BY <2>2, <2>3 DEF KeepsAll, Keeps
<1>2. CASE u = <<>>
  BY <1>2, FailKeeps DEF MakeAll
<1>. QED  BY <1>1, <1>2

\* A task in the list that p has read.
LEMMA ViewLemma ==
  ASSUME Typed, NEW p \in Procs
  PROVE  /\ DOMAIN view[p] \subseteq Ids
         /\ \A i \in DOMAIN view[p] : view[p][i] \in Contents /\ (Parses(view[p][i]) => view[p][i] \in Task)
PROOF
<1>1. view[p] \in Views
  BY DEF Typed, LocalsTyped
<1>2. PICK F \in SUBSET Ids : view[p] \in [F -> Contents]
  BY <1>1 DEF Views
<1>. QED  BY <1>2, ParsesLemma

\* At most one update each of two tasks.
LEMMA TwoUpdatesLemma ==
  ASSUME NEW x \in Patches, NEW y \in Patches, NEW s, s = <<>> \/ s = <<x>>,
         NEW t, t = <<>> \/ t = <<y>>, MaxId >= 2
  PROVE  s \o t \in Plans
PROOF
<1>1. ASSUME NEW z \in Patches, NEW r, r = <<>> \/ r = <<z>>
      PROVE  r \in Seq(Patches) /\ Len(r) \in Nat /\ Len(r) <= 1
  <2>1. CASE r = <<>>
    BY <2>1
  <2>2. CASE r = <<z>>
    BY <2>2
  <2>. QED  BY <1>1, <2>1, <2>2
<1>2. /\ s \in Seq(Patches) /\ Len(s) \in Nat /\ Len(s) <= 1
      /\ t \in Seq(Patches) /\ Len(t) \in Nat /\ Len(t) <= 1
  BY <1>1, Zenon
<1>3. s \o t \in Seq(Patches) /\ Len(s \o t) = Len(s) + Len(t)
  BY <1>2
<1>4. Len(s) + Len(t) <= MaxId
  BY <1>2, StoreConstants
<1>. QED  BY <1>3, <1>4 DEF Plans

\* TaskUpdate writes a status and an owner.
LEMMA PatchLemma ==
  ASSUME NEW p \in Procs, NEW seen \in Task, NEW given \in Requests
  PROVE  Patch(p, seen, given) \in Changes
PROOF
<1>. DEFINE asked == IF Joins(seen, given) THEN [status |-> "in_progress", owner |-> p] ELSE given
            F == {g \in DOMAIN asked : asked[g] # seen[g]}
            f == [x \in F |-> asked[x]]
<1>1. /\ DOMAIN asked \subseteq {"status", "owner"}
      /\ "status" \in DOMAIN asked => asked["status"] \in TaskStatus
      /\ "owner" \in DOMAIN asked => asked["owner"] \in Procs \cup {None}
  BY DEF Requests, TaskStatus
<1>. HIDE DEF asked
<1>2. F \in SUBSET Fields /\ F \subseteq {"status", "owner"}
  BY <1>1 DEF Fields
<1>3. /\ "status" \in F => f["status"] \in TaskStatus
      /\ "owner" \in F => f["owner"] \in Procs \cup {None}
  BY <1>1
<1>4. f \in [F -> Values]
  <2>1. \A x \in F : asked[x] \in Values
    BY <1>1, <1>2 DEF Values
  <2>. QED  BY <2>1
<1>. HIDE DEF F, f
<1>5. f \in Changes
  BY <1>2, <1>3, <1>4, ChangeLemma
<1>6. Patch(p, seen, given) = f
  BY DEF Patch, f, F, asked
<1>. QED  BY <1>5, <1>6

LEMMA LookKeeps ==
  ASSUME Typed, NEW p \in Procs, Look(p)
  PROVE  KeepsAll(p)
PROOF
<1>1. FlowOf(p) /\ at[p] = "look"
  BY DEF Typed, Flow, Look
<1>2. op[p] \in Ops /\ op[p] \in {"update", "start"} /\ id[p] \in Ids
  BY <1>1 DEF FlowOf, PathOf, HoldsOf, OnTask
<1>3. ASSUME NEW set \in Changes, GoUpdate(p, <<[id |-> id[p], set |-> set]>>, "updCheck")
      PROVE  KeepsAll(p)
  <2>. DEFINE x == [id |-> id[p], set |-> set]
  <2>1. x \in Patches /\ MaxId >= 1
    BY <1>2, StoreConstants DEF Patches, Ids
  <2>2. GoUpdate(p, <<x>>, "updCheck")
    BY <1>3
  <2>. HIDE DEF x
  <2>3. <<x>> \in Plans /\ <<x>> # <<>>
    BY <2>1, StoreConstants DEF Plans
  <2>4. /\ DiskTyped' /\ LocksTyped' /\ HistoryTyped' /\ LocalsTyped' /\ Others(p)
        /\ at'[p] = "updCheck" /\ plan'[p] = <<x>> /\ op'[p] = op[p] /\ id'[p] = id[p]
    BY <2>2, <2>3, GoUpdateLemma DEF Steps
  <2>5. FlowOf(p)'
    BY <1>2, <2>3, <2>4 DEF FlowOf, PathOf, HoldsOf, Updating
  <2>. QED  BY <2>4, <2>5 DEF KeepsAll, Keeps
<1>4. CASE Parses(file[id[p]])
  <2>1. PICK given \in Calls(p, file[id[p]]) :
          \/ GoUpdate(p, <<[id |-> id[p], set |-> Patch(p, file[id[p]], given)]>>, "updCheck")
          \/ Fail(p)
    BY <1>4 DEF Look
  <2>2. given \in Requests
    BY DEF Calls, Requests, TaskStatus
  <2>3. file[id[p]] \in Task
    BY <1>2, <1>4, ParsesLemma DEF Typed, DiskTyped
  <2>4. Patch(p, file[id[p]], given) \in Changes
    BY <2>2, <2>3, PatchLemma
  <2>. QED  BY <1>3, <2>1, <2>4, FailKeeps
<1>5. CASE ~Parses(file[id[p]])
  BY <1>5, FailKeeps DEF Look
<1>. QED  BY <1>4, <1>5

LEMMA DecideKeeps ==
  ASSUME Typed, NEW p \in Procs, DecideDelete(p) \/ DecideUnassign(p) \/ DecideBlock(p)
  PROVE  KeepsAll(p)
PROOF
<1>0. FlowOf(p) /\ at[p] = "decide" /\ DOMAIN view[p] \subseteq Ids
  BY ViewLemma DEF Typed, Flow, DecideDelete, DecideUnassign, DecideBlock
<1>1. CASE DecideDelete(p)
  <2>. DEFINE S == {i \in DOMAIN view[p] : /\ Parses(view[p][i])
                                           /\ id[p] \in view[p][i].blocks \cup view[p][i].blockedBy}
              s == SetToSeq(S)
              Cut(i) == [blocks |-> view[p][i].blocks \ {id[p]}, blockedBy |-> view[p][i].blockedBy \ {id[p]}]
              u == [n \in DOMAIN s |-> [id |-> s[n], set |-> Cut(s[n])]]
  <2>1. MakeAll(p, u) /\ op[p] = "delete"
    BY <1>1 DEF DecideDelete, Updates
  <2>2. S \in SUBSET Ids
    BY <1>0
  <2>3. \A i \in S : i \in Ids /\ Cut(i) \in Changes
    <3>1. \A i \in S : i \in Ids /\ view[p][i].blocks \in SUBSET Ids /\ view[p][i].blockedBy \in SUBSET Ids
      BY <2>2, ViewLemma DEF Task
    <3>. QED  BY <3>1, ChangesLemma
  <2>. HIDE DEF S, Cut
  <2>4. s \in Seq(S) /\ DOMAIN s = 1..Len(s)
    BY <2>2, SetToSeqLemma
  <2>5. \A n \in DOMAIN s : u[n] \in Patches
    BY <2>3, <2>4 DEF Patches
  <2>6. u = [n \in DOMAIN s |-> u[n]]
    OBVIOUS
  <2>. HIDE DEF u
  <2>7. u \in Plans
    BY <2>2, <2>5, <2>6, PlanLemma
  <2>. QED  BY <1>0, <2>1, <2>7, MakeAllKeeps
<1>2. CASE DecideUnassign(p)
  <2>0. PICK q \in Procs \ {p} :
          LET Free(i) == [owner |-> None, status |-> "pending"]
          IN MakeAll(p, Updates({i \in Open(p) : view[p][i].owner = q}, Free))
    BY <1>2 DEF DecideUnassign
  <2>. DEFINE S == {i \in Open(p) : view[p][i].owner = q}
              s == SetToSeq(S)
              u == [n \in DOMAIN s |-> [id |-> s[n], set |-> [owner |-> None, status |-> "pending"]]]
  <2>1. MakeAll(p, u) /\ op[p] = "unassign"
    BY <1>2, <2>0 DEF DecideUnassign, Updates
  <2>2. S \in SUBSET Ids
    BY <1>0 DEF Open
  <2>3. [owner |-> None, status |-> "pending"] \in Changes
    BY ChangesLemma DEF TaskStatus
  <2>. HIDE DEF S
  <2>4. s \in Seq(S) /\ DOMAIN s = 1..Len(s)
    BY <2>2, SetToSeqLemma
  <2>5. \A n \in DOMAIN s : u[n] \in Patches
    BY <2>2, <2>3, <2>4 DEF Patches
  <2>6. u = [n \in DOMAIN s |-> u[n]]
    OBVIOUS
  <2>. HIDE DEF u
  <2>7. u \in Plans
    BY <2>2, <2>5, <2>6, PlanLemma
  <2>. QED  BY <1>0, <2>1, <2>7, MakeAllKeeps
<1>3. CASE DecideBlock(p)
  <2>. DEFINE from == id[p]
              to == CHOOSE i \in DOMAIN view[p] : i # from
              x == [id |-> from, set |-> [blocks |-> view[p][from].blocks \cup {to}]]
              y == [id |-> to, set |-> [blockedBy |-> view[p][to].blockedBy \cup {from}]]
              source == IF to \in view[p][from].blocks THEN <<>> ELSE <<x>>
              target == IF from \in view[p][to].blockedBy THEN <<>> ELSE <<y>>
  <2>1. op[p] = "block" /\ IF Parses(view[p][from]) /\ Parses(view[p][to])
                           THEN MakeAll(p, source \o target) ELSE Fail(p)
    BY <1>3 DEF DecideBlock
  <2>2. from \in Ids /\ from \in DOMAIN view[p] /\ \E z \in Ids \ {from} : DOMAIN view[p] = {from, z}
    BY <1>0, <2>1 DEF FlowOf, HoldsOf, OnTask
  <2>3. to \in DOMAIN view[p] /\ to # from /\ to \in Ids
    BY <1>0, <2>2
  <2>. HIDE DEF from, to
  <2>4. CASE Parses(view[p][from]) /\ Parses(view[p][to])
    <3>1. view[p][from] \in Task /\ view[p][to] \in Task
      BY <2>2, <2>3, <2>4, ViewLemma
    <3>2. /\ [blocks |-> view[p][from].blocks \cup {to}] \in Changes
          /\ [blockedBy |-> view[p][to].blockedBy \cup {from}] \in Changes
      <4>1. view[p][from].blocks \cup {to} \in SUBSET Ids /\ view[p][to].blockedBy \cup {from} \in SUBSET Ids
        BY <2>2, <2>3, <3>1 DEF Task
      <4>. QED  BY <4>1, ChangesLemma
    <3>3. x \in Patches /\ y \in Patches
      BY <2>2, <2>3, <3>2 DEF Patches
    <3>. HIDE DEF x, y
    <3>4. (source = <<>> \/ source = <<x>>) /\ (target = <<>> \/ target = <<y>>)
      OBVIOUS
    <3>5. MaxId >= 2
      BY <2>2, <2>3, StoreConstants DEF Ids
    <3>. HIDE DEF source, target
    <3>6. source \o target \in Plans
      BY <3>3, <3>4, <3>5, TwoUpdatesLemma
    <3>. QED  BY <1>0, <2>1, <2>4, <3>6, MakeAllKeeps
  <2>. QED  BY <2>1, <2>4, FailKeeps
<1>. QED  BY <1>1, <1>2, <1>3

\* An update is about a task.
LEMMA TargetLemma ==
  ASSUME Typed, NEW p \in Procs, at[p] \in Updating
  PROVE  /\ plan[p] \in Seq(Patches) /\ plan[p] # <<>> /\ Len(plan[p]) \in Nat \ {0}
         /\ Len(plan[p]) <= MaxId /\ Head(plan[p]) \in Patches /\ Head(plan[p]).set \in Changes
         /\ Target(p) = Head(plan[p]).id /\ Target(p) \in Ids
PROOF
<1>1. plan[p] \in Seq(Patches) /\ plan[p] # <<>> /\ Len(plan[p]) <= MaxId
  BY DEF Typed, LocalsTyped, Flow, FlowOf, HoldsOf, Plans, Updating
<1>2. Head(plan[p]) \in Patches /\ Len(plan[p]) \in Nat \ {0}
  BY <1>1
<1>3. Target(p) = Head(plan[p]).id
  BY DEF Target, Updating
<1>. QED  BY <1>1, <1>2, <1>3, StoreConstants DEF Patches

LEMMA ReturnKeeps ==
  ASSUME Typed, NEW p \in Procs, at[p] \in Updating, NEW told \in [Ids -> SUBSET Procs],
         Return(p, told), UNCHANGED <<started, crashes, allocated>>
  PROVE  LocksTyped' /\ HistoryTyped' /\ Keeps(p)
PROOF
<1>0. /\ FlowOf(p) /\ plan[p] \in Seq(Patches)
      /\ Len(plan[p]) \in Nat /\ Len(plan[p]) # 0 /\ Len(plan[p]) <= MaxId
  BY TargetLemma DEF Typed, Flow
<1>1. CASE Len(plan[p]) > 1
  <2>1. /\ plan' = [plan EXCEPT ![p] = Tail(plan[p])]
        /\ taskLock' = [i \in Ids |-> IF taskLock[i] = p THEN None ELSE taskLock[i]]
        /\ mine' = [mine EXCEPT ![p] = Absent]
        /\ at' = [at EXCEPT ![p] = "updCheck"]
        /\ winners' = told
        /\ UNCHANGED <<listLock, op, id, high, todo, view>>
    BY <1>1 DEF Return, Goto
  <2>2. Tail(plan[p]) \in Plans /\ Tail(plan[p]) # <<>>
    <3>1. Tail(plan[p]) \in Seq(Patches) /\ Len(Tail(plan[p])) = Len(plan[p]) - 1
      BY <1>0, <1>1
    <3>2. Len(plan[p]) - 1 <= MaxId /\ Len(plan[p]) - 1 # 0
      <4>. DEFINE n == Len(plan[p])
      <4>1. n \in Nat /\ n > 1 /\ n <= MaxId
        BY <1>0, <1>1
      <4>. HIDE DEF n
      <4>2. n - 1 <= MaxId /\ n - 1 # 0
        BY <4>1, StoreConstants
      <4>. QED  BY <4>2 DEF n
    <3>. QED  BY <3>1, <3>2 DEF Plans
  <2>3. Absent \in Contents /\ "updCheck" \in Steps
    BY DEF Contents, Steps
  <2>4. LocalsTyped' /\ Others(p)
    BY <2>1, <2>2, <2>3 DEF Typed, LocalsTyped, Others, Same
  <2>5. at'[p] = "updCheck" /\ plan'[p] = Tail(plan[p]) /\ op'[p] = op[p] /\ id'[p] = id[p]
    BY <2>1 DEF Typed, LocalsTyped
  <2>6. op[p] \in Ops /\ op[p] \in {"setStatus", "update", "start", "unassign", "delete", "block"}
        /\ (op[p] \in OnTask => id[p] \in Ids)
    <3>1. op[p] \in Ops /\ op[p] \in {"claim", "claimBusy", "setStatus", "update", "start", "unassign", "delete", "block"}
          /\ (op[p] \in OnTask => id[p] \in Ids)
      BY <1>0 DEF FlowOf, PathOf, HoldsOf, Updating
    <3>2. op[p] \in {"claim", "claimBusy"} => plan[p] = OwnIt(p) /\ id[p] \in Ids
      BY <1>0 DEF FlowOf, HoldsOf, Updating, OnTask
    <3>3. op[p] \in {"claim", "claimBusy"} => Len(plan[p]) = 1
      BY <3>2, OwnItLemma
    <3>4. op[p] \notin {"claim", "claimBusy"}
      <4>. DEFINE n == Len(plan[p])
      <4>1. n \in Nat /\ n > 1
        BY <1>0, <1>1
      <4>2. op[p] \in {"claim", "claimBusy"} => n = 1
        BY <3>3
      <4>. HIDE DEF n
      <4>. QED  BY <4>1, <4>2
    <3>. QED  BY <3>1, <3>4
  <2>7. FlowOf(p)'
    BY <2>2, <2>5, <2>6 DEF FlowOf, PathOf, HoldsOf, Updating
  <2>. QED  BY <2>1, <2>4, <2>7 DEF Typed, LocksTyped, HistoryTyped, Keeps
<1>2. CASE Len(plan[p]) <= 1
  <2>1. End(p)
    BY <1>0, <1>2 DEF Return
  <2>2. winners' \in [Ids -> SUBSET Procs]
    BY <1>0, <1>2 DEF Return
  <2>. QED  BY <2>1, <2>2, EndLemma DEF Typed, HistoryTyped
<1>. QED  BY <1>0, <1>1, <1>2

LEMMA UpdateKeeps ==
  ASSUME Typed, NEW p \in Procs,
         UpdateCheck(p) \/ UpdateRead(p) \/ UpdateTruncate(p) \/ UpdateWrite(p)
  PROVE  KeepsAll(p)
PROOF
<1>0. FlowOf(p) /\ at[p] \in Updating
  BY DEF Typed, Flow, Updating, UpdateCheck, UpdateRead, UpdateTruncate, UpdateWrite
<1>1. op[p] \in Ops /\ op[p] \in {"claim", "claimBusy", "setStatus", "update", "start", "unassign", "delete", "block"}
      /\ plan[p] # <<>> /\ HoldsOf(p)
  BY <1>0, TargetLemma DEF FlowOf, PathOf, Updating
<1>2. Target(p) \in Ids /\ Head(plan[p]).set \in Changes
  BY <1>0, TargetLemma
<1>3. ASSUME Return(p, winners), UNCHANGED <<disk, started, crashes, allocated>>
      PROVE  KeepsAll(p)
  BY <1>0, <1>3, ReturnKeeps DEF Typed, DiskTyped, HistoryTyped, disk, KeepsAll
<1>4. CASE UpdateCheck(p) /\ Parses(file[Target(p)])
  <2>1. Moves(p, "updLock") /\ at[p] = "updCheck" /\ "updLock" \in Steps
    BY <1>4 DEF UpdateCheck, Goto, Moves, Steps, Waiting
  <2>2. /\ LocalsTyped' /\ Others(p) /\ at'[p] = "updLock"
        /\ op'[p] = op[p] /\ id'[p] = id[p] /\ high'[p] = high[p] /\ todo'[p] = todo[p]
        /\ view'[p] = view[p] /\ mine'[p] = mine[p] /\ plan'[p] = plan[p]
    BY <2>1, MovesLemma
  <2>3. FlowOf(p)'
    BY <1>0, <2>1, <2>2 DEF FlowOf, PathOf, HoldsOf, Updating, OwnIt
  <2>. QED  BY <1>4, <2>2, <2>3 DEF UpdateCheck, Typed, DiskTyped, LocksTyped, HistoryTyped,
                                    disk, locks, history, KeepsAll, Keeps
<1>5. CASE UpdateRead(p) /\ Parses(file[Target(p)])
  <2>. DEFINE m == Updated(file[Target(p)], Head(plan[p]).set)
  <2>1. /\ at[p] = "updRead" /\ mine' = [mine EXCEPT ![p] = m]
        /\ at' = [at EXCEPT ![p] = "updTrunc"] /\ "updTrunc" \in Steps
        /\ UNCHANGED <<disk, locks, op, id, high, todo, view, plan, history>>
    BY <1>5 DEF UpdateRead, Goto, Steps
  <2>2. m \in Task
    <3>1. file[Target(p)] \in Task
      BY <1>2, <1>5, ParsesLemma DEF Typed, DiskTyped
    <3>. QED  BY <1>2, <3>1, UpdatedLemma
  <2>. HIDE DEF m
  <2>3. LocalsTyped' /\ Others(p) /\ at'[p] = "updTrunc" /\ mine'[p] = m
    <3>1. m \in Contents
      BY <2>2 DEF Contents
    <3>. QED  BY <2>1, <3>1 DEF Typed, LocalsTyped, Others, Same
  <2>4. op'[p] = op[p] /\ id'[p] = id[p] /\ plan'[p] = plan[p] /\ OwnIt(p)' = OwnIt(p)
    BY <2>1 DEF OwnIt
  <2>5. PathOf(p)'
    BY <1>1, <2>3, <2>4 DEF PathOf
  <2>6. HoldsOf(p)'
    BY <1>0, <1>1, <2>2, <2>3, <2>4 DEF HoldsOf, Updating
  <2>7. FlowOf(p)'
    BY <1>1, <2>3, <2>4, <2>5, <2>6 DEF FlowOf
  <2>. QED  BY <2>1, <2>3, <2>7 DEF Typed, DiskTyped, LocksTyped, HistoryTyped,
                                    disk, locks, history, KeepsAll, Keeps
<1>6. CASE UpdateTruncate(p)
  <2>1. Moves(p, "updWrite") /\ at[p] = "updTrunc" /\ "updWrite" \in Steps
    BY <1>6 DEF UpdateTruncate, Goto, Moves, Steps
  <2>2. /\ LocalsTyped' /\ Others(p) /\ at'[p] = "updWrite"
        /\ op'[p] = op[p] /\ id'[p] = id[p] /\ high'[p] = high[p] /\ todo'[p] = todo[p]
        /\ view'[p] = view[p] /\ mine'[p] = mine[p] /\ plan'[p] = plan[p]
    BY <2>1, MovesLemma
  <2>3. FlowOf(p)'
    BY <1>0, <2>1, <2>2 DEF FlowOf, PathOf, HoldsOf, Updating, OwnIt
  <2>4. DiskTyped'
    BY <1>6 DEF UpdateTruncate, Typed, DiskTyped, Contents
  <2>. QED  BY <1>6, <2>2, <2>3, <2>4 DEF UpdateTruncate, Typed, LocksTyped, HistoryTyped,
                                    locks, history, KeepsAll, Keeps
<1>7. CASE UpdateWrite(p)
  <2>. DEFINE told == Told(p)
  <2>1. Return(p, told) /\ UNCHANGED <<started, crashes, allocated>>
    BY <1>7 DEF UpdateWrite
  <2>2. told \in [Ids -> SUBSET Procs]
    BY DEF Typed, HistoryTyped, Told
  <2>3. LocksTyped' /\ HistoryTyped' /\ Keeps(p)
    <3>. HIDE DEF told
    <3>. QED  BY <1>0, <2>1, <2>2, ReturnKeeps
  <2>4. DiskTyped'
    BY <1>7 DEF UpdateWrite, Typed, DiskTyped, LocalsTyped
  <2>. QED  BY <2>3, <2>4 DEF KeepsAll
<1>8. CASE (UpdateCheck(p) \/ UpdateRead(p)) /\ ~Parses(file[Target(p)])
  BY <1>3, <1>8 DEF UpdateCheck, UpdateRead
<1>. QED  BY <1>4, <1>5, <1>6, <1>7, <1>8

LEMMA CrashKeeps ==
  ASSUME Typed, NEW p \in Procs, Crash(p) \/ StaleLocks(p)
  PROVE  KeepsAll(p)
PROOF
<1>0. FlowOf(p)
  BY DEF Typed, Flow
<1>1. CASE Crash(p)
  <2>1. Moves(p, "dead") /\ "dead" \in Steps
    BY <1>1 DEF Crash, Goto, Moves, Steps
  <2>2. LocalsTyped' /\ Others(p) /\ at'[p] = "dead"
    BY <2>1, MovesLemma
  <2>3. FlowOf(p)'
    BY <2>2 DEF FlowOf
  <2>4. crashes' \in 0..MaxCrashes
    BY <1>1, StoreConstants DEF Crash, Typed, HistoryTyped
  <2>. QED  BY <1>1, <2>2, <2>3, <2>4 DEF Crash, Typed, DiskTyped, LocksTyped, HistoryTyped,
                                    disk, locks, KeepsAll, Keeps
<1>2. CASE StaleLocks(p)
  <2>1. UNCHANGED <<disk, at, op, id, high, todo, view, mine, plan, history>>
    BY <1>2 DEF StaleLocks
  <2>2. LocalsTyped' /\ Others(p)
    BY <2>1 DEF Typed, LocalsTyped, Others, Same
  <2>3. FlowOf(p)'
    BY <1>0, <2>1 DEF FlowOf, PathOf, HoldsOf, OwnIt
  <2>. QED  BY <1>2, <2>1, <2>2, <2>3 DEF StaleLocks, Typed, DiskTyped, LocksTyped, HistoryTyped,
                                    disk, history, KeepsAll, Keeps
<1>. QED  BY <1>1, <1>2

\* What holds of the others' locals stays.
LEMMA FlowLemma ==
  ASSUME Typed, NEW p \in Procs, Keeps(p)
  PROVE  Flow'
PROOF
<1>. SUFFICES ASSUME NEW q \in Procs  PROVE FlowOf(q)'
  BY DEF Flow
<1>1. CASE q = p
  BY <1>1 DEF Keeps
<1>2. CASE q # p
  <2>1. Same(q) /\ FlowOf(q)
    BY <1>2 DEF Keeps, Others, Typed, Flow
  <2>. QED  BY <2>1 DEF Same, FlowOf, PathOf, HoldsOf, OwnIt
<1>. QED  BY <1>1, <1>2

LEMMA ActionKeeps ==
  ASSUME Typed, NEW p \in Procs, Begins(p) \/ Step(p) \/ LockTimesOut(p) \/ Crash(p) \/ StaleLocks(p)
  PROVE  KeepsAll(p)
PROOF
<1>1. CASE Begins(p)
  BY <1>1, BeginKeeps
<1>2. CASE LockList(p) \/ LockTask(p) \/ LockGone(p) \/ LockTimesOut(p)
  BY <1>2, LocksKeep
<1>3. CASE \/ ReadFiles(p) \/ ReadMarkToCreate(p) \/ ReadMark(p) \/ TruncateMark(p) \/ WriteMark(p)
           \/ TruncateNew(p) \/ NoRoom(p) \/ WriteNew(p)
  BY <1>3, CreateKeeps
<1>4. CASE \/ ReadDirToClear(p) \/ UnlinkOne(p) \/ ResetEnds(p) \/ Unlink(p) \/ UnlinkMissing(p)
           \/ ReadDir(p) \/ ReadOne(p) \/ ReadNone(p)
  BY <1>4, ListKeeps
<1>5. CASE Check(p) \/ Reread(p) \/ DecideClaim(p) \/ DecideClaimBusy(p)
  BY <1>5, ClaimKeeps
<1>6. CASE DecideDelete(p) \/ DecideUnassign(p) \/ DecideBlock(p) \/ Look(p)
  BY <1>6, DecideKeeps, LookKeeps
<1>7. CASE UpdateCheck(p) \/ UpdateRead(p) \/ UpdateTruncate(p) \/ UpdateWrite(p)
  BY <1>7, UpdateKeeps
<1>8. CASE Crash(p) \/ StaleLocks(p)
  BY <1>8, CrashKeeps
<1>. QED  BY <1>1, <1>2, <1>3, <1>4, <1>5, <1>6, <1>7, <1>8 DEF Step

\* The types and the flow are inductive.
THEOREM TypesInductive == Spec => []Typed
PROOF
<1>1. Init => Typed
  <2>. SUFFICES ASSUME Init  PROVE Typed
    OBVIOUS
  <2>1. DiskTyped
    BY StoreConstants DEF Init, DiskTyped, Contents
  <2>2. LocksTyped
    BY DEF Init, LocksTyped
  <2>3. LocalsTyped
    <3>1. <<>> \in Views
      <4>1. <<>> \in [{} -> Contents]
        OBVIOUS
      <4>. QED  BY <4>1 DEF Views
    <3>2. <<>> \in Plans
      <4>1. <<>> \in Seq(Patches) /\ Len(<<>>) = 0
        OBVIOUS
      <4>. QED  BY <4>1, StoreConstants DEF Plans
    <3>3. Unread \in Reading /\ Absent \in Contents /\ "idle" \in Steps
      BY StoreConstants DEF Unread, Reading, Contents, Steps
    <3>. QED  BY <3>1, <3>2, <3>3 DEF Init, LocalsTyped
  <2>4. HistoryTyped
    BY StoreConstants DEF Init, HistoryTyped
  <2>5. Flow
    BY DEF Init, Flow, FlowOf
  <2>. QED  BY <2>1, <2>2, <2>3, <2>4, <2>5 DEF Typed
<1>2. Typed /\ [Next]_vars => Typed'
  <2>. SUFFICES ASSUME Typed, [Next]_vars  PROVE Typed'
    OBVIOUS
  <2>1. CASE UNCHANGED vars
    <3>1. DiskTyped' /\ LocksTyped' /\ LocalsTyped' /\ HistoryTyped'
      BY <2>1 DEF Typed, DiskTyped, LocksTyped, LocalsTyped, HistoryTyped, vars, disk, locks, history
    <3>2. Flow'
      <4>. SUFFICES ASSUME NEW q \in Procs  PROVE FlowOf(q)'
        BY DEF Flow
      <4>1. FlowOf(q) /\ UNCHANGED <<at, op, id, high, todo, view, mine, plan>>
        BY <2>1 DEF Typed, Flow, vars
      <4>. QED  BY <4>1 DEF FlowOf, PathOf, HoldsOf, OwnIt
    <3>. QED  BY <3>1, <3>2 DEF Typed
  <2>2. ASSUME NEW p \in Procs, Begins(p) \/ Step(p) \/ LockTimesOut(p) \/ Crash(p) \/ StaleLocks(p)
        PROVE  Typed'
    <3>1. KeepsAll(p)
      BY <2>2, ActionKeeps
    <3>2. Flow'
      BY <3>1, FlowLemma DEF KeepsAll
    <3>. QED  BY <3>1, <3>2 DEF Typed, KeepsAll, Keeps
  <2>. QED  BY <2>1, <2>2 DEF Next, Terminated
<1>. QED  BY <1>1, <1>2, PTL DEF Spec

\* The variables keep their types: ids and marks are numbers there is room
\* for, a file holds a task or is absent or torn (all of tasks.ts).
THEOREM TypesAreKept == Spec => []TypeOK
PROOF
<1>1. Typed => TypeOK
  <2>. SUFFICES ASSUME Typed  PROVE TypeOK
    OBVIOUS
  <2>1. \A p \in Procs : DOMAIN view[p] \subseteq Ids /\ \A i \in DOMAIN view[p] : view[p][i] \in Contents
    BY ViewLemma
  <2>2. ASSUME NEW p \in Procs
        PROVE  Len(plan[p]) <= MaxId /\ \A n \in 1..Len(plan[p]) : plan[p][n].id \in Ids
    <3>1. plan[p] \in Seq(Patches) /\ Len(plan[p]) <= MaxId
      BY DEF Typed, LocalsTyped, Plans
    <3>2. \A n \in 1..Len(plan[p]) : plan[p][n] \in Patches
      BY <3>1
    <3>. QED  BY <3>1, <3>2 DEF Patches
  <2>3. DiskTyped /\ LocksTyped /\ HistoryTyped /\ LocalsTyped
    BY DEF Typed
  <2>4. \A i \in Ids : winners[i] \subseteq Procs /\ allocated[i] \in Nat
    BY <2>3 DEF HistoryTyped
  <2>. QED  BY <2>1, <2>2, <2>3, <2>4 DEF TypeOK, DiskTyped, LocksTyped, HistoryTyped, LocalsTyped, Reading
<1>. QED  BY <1>1, TypesInductive, PTL

-----------------------------------------------------------------------------
(* No id is given twice                                                    *)

\* Where create and reset hold the lock of the list.
ListSteps == {"highest", "create", "createWrite", "readMark", "markTrunc", "markWrite",
              "clear", "unlinkAll"}

FreshOf(q) == at[q] \in {"idle", "check", "lockList"} => high[q] = Unread
ListGuardOf(q) == at[q] \in ListSteps => listLock = q

Given == {i \in Ids : allocated[i] > 0}

\* An id that was given is not above the mark or there is a file above it.
Remembered == \A i \in Given : i <= MarkValue \/ \E j \in Ids : i <= j /\ file[j] # Absent

\* What the holder of the lock knows of the ids that were given.
CountOf(q) ==
  /\ at[q] = "highest" /\ op[q] = "create" =>
       /\ high[q].files # -1 => \A i \in Given : i <= high[q].files \/ i <= MarkValue
       /\ high[q].mark # -1 => high[q].mark = MarkValue
  /\ at[q] = "create" => \A i \in Given : i <= high[q].files \/ i <= high[q].mark
  /\ at[q] = "readMark" => \A i \in Given : i <= high[q].files \/ i <= MarkValue
  /\ at[q] \in {"markTrunc", "markWrite"} => \A i \in Given : i <= high[q].files
  /\ at[q] \in {"readMark", "markTrunc", "markWrite"} =>
       high[q].files \in Ids /\ file[high[q].files] # Absent
  /\ at[q] \in {"clear", "unlinkAll"} => \A i \in Given : i <= MarkValue

Numbered ==
  /\ UniqueIds /\ Remembered
  /\ \A q \in Procs : FreshOf(q) /\ ListGuardOf(q) /\ CountOf(q)

\* Steps that leave the mark and the given ids, and unlink no file, of a process
\* that is not, or is no longer, where the list is locked.
Calm == mark' = mark /\ allocated' = allocated /\ \A j \in Ids : file[j] # Absent => file'[j] # Absent
Quiet(p) ==
  /\ Calm /\ at'[p] \notin ListSteps
  /\ at'[p] \in {"idle", "check", "lockList"} => high'[p] = Unread
  /\ listLock' = listLock \/ (listLock = p /\ listLock' = None)

\* The steps of createTask and resetTaskList under the lock.
ListStep(p) ==
  \/ LockList(p) \/ ReadFiles(p) \/ ReadMarkToCreate(p) \/ ReadMark(p) \/ TruncateMark(p)
  \/ WriteMark(p) \/ TruncateNew(p) \/ ReadDirToClear(p) \/ UnlinkOne(p)

LEMMA EndQuiet ==
  ASSUME Typed, NEW p \in Procs, End(p), Calm
  PROVE  Quiet(p)
PROOF
<1>1. at'[p] = "idle" /\ high'[p] = Unread
  BY DEF End, Typed, LocalsTyped
<1>. QED  BY <1>1 DEF End, Quiet, ListSteps

LEMMA FailQuiet ==
  ASSUME Typed, NEW p \in Procs, Fail(p)
  PROVE  Quiet(p)
PROOF
  BY EndQuiet DEF Fail, Calm, disk, history

\* An update writes a task where there was one, or the file comes back.
LEMMA UpdateCalm ==
  ASSUME Typed, NEW p \in Procs, UpdateCheck(p) \/ UpdateRead(p) \/ UpdateTruncate(p) \/ UpdateWrite(p)
  PROVE  Quiet(p)
PROOF
<1>0. at[p] \in Updating
  BY DEF Updating, UpdateCheck, UpdateRead, UpdateTruncate, UpdateWrite
<1>1. Target(p) \in Ids /\ file \in [Ids -> Contents]
  BY <1>0, TargetLemma DEF Typed, DiskTyped
<1>2. Calm
  <2>1. CASE UpdateTruncate(p)
    BY <1>1, <2>1, StoreConstants DEF UpdateTruncate, Calm, history
  <2>2. CASE UpdateWrite(p)
    <3>1. mine[p] # Absent
      BY <2>2, StoreConstants DEF UpdateWrite, Typed, Flow, FlowOf, HoldsOf
    <3>. QED  BY <1>1, <2>2, <3>1 DEF UpdateWrite, Calm
  <2>3. CASE UpdateCheck(p) \/ UpdateRead(p)
    BY <2>3 DEF UpdateCheck, UpdateRead, Calm, disk, history
  <2>. QED  BY <2>1, <2>2, <2>3
<1>3. ASSUME NEW told, Return(p, told)  PROVE Quiet(p)
  <2>1. CASE End(p)
    BY <1>2, <2>1, EndQuiet
  <2>2. CASE ~End(p)
    <3>1. at' = [at EXCEPT ![p] = "updCheck"] /\ listLock' = listLock
      BY <1>3, <2>2 DEF Return, Goto
    <3>2. at'[p] = "updCheck"
      BY <3>1 DEF Typed, LocalsTyped
    <3>. QED  BY <1>2, <3>1, <3>2 DEF Quiet, ListSteps
  <2>. QED  BY <2>1, <2>2
<1>4. ASSUME NEW step \in {"updLock", "updTrunc", "updWrite"}, Goto(p, step), UNCHANGED listLock
      PROVE  Quiet(p)
  <2>1. at'[p] = step
    BY <1>4 DEF Goto, Typed, LocalsTyped
  <2>. QED  BY <1>2, <1>4, <2>1 DEF Quiet, ListSteps
<1>5. CASE UpdateCheck(p)
  BY <1>3, <1>4, <1>5 DEF UpdateCheck, locks
<1>6. CASE UpdateRead(p)
  BY <1>3, <1>4, <1>6 DEF UpdateRead, locks
<1>7. CASE UpdateTruncate(p)
  BY <1>4, <1>7 DEF UpdateTruncate, locks
<1>8. CASE UpdateWrite(p)
  BY <1>3, <1>8 DEF UpdateWrite
<1>. QED  BY <1>5, <1>6, <1>7, <1>8

\* A step that goes somewhere else on the way, the disk and the locks of the list as they are.
LEMMA GoQuiet ==
  ASSUME Typed, NEW p \in Procs,
         NEW step \in Steps \ (ListSteps \cup {"idle", "check", "lockList"}), Goto(p, step), Calm,
         UNCHANGED listLock
  PROVE  Quiet(p)
PROOF
<1>1. at'[p] = step
  BY DEF Goto, Typed, LocalsTyped
<1>. QED  BY <1>1 DEF Quiet

LEMMA BeginQuiet ==
  ASSUME Typed, NEW p \in Procs, "delete" \notin Ops, Begins(p)
  PROVE  Quiet(p)
PROOF
<1>1. UNCHANGED <<mark, allocated, file, listLock, high>>
  BY DEF Begins, BeginPlain, BeginOnTask, BeginSetStatus, BeginBlock, disk, locks
<1>2. PICK o \in Ops, i \in Ids \cup {0} : Begin(p, o, i)
  BY DEF Begins, BeginPlain, BeginOnTask, BeginSetStatus, BeginBlock
<1>3. at'[p] = FirstStep[o] /\ high[p] = Unread
  BY <1>2 DEF Begin, Goto, Typed, LocalsTyped, Flow, FlowOf
<1>4. FirstStep[o] \notin ListSteps
  BY StoreConstants DEF FirstStep, ListSteps, AllOps
<1>. QED  BY <1>1, <1>3, <1>4 DEF Quiet, Calm

\* Everything else is quiet while nobody deletes a task.
LEMMA OthersQuiet ==
  ASSUME Typed, NEW p \in Procs, FreshOf(p), "delete" \notin Ops,
         Begins(p) \/ Step(p) \/ LockTimesOut(p) \/ Crash(p) \/ StaleLocks(p), ~ListStep(p)
  PROVE  Quiet(p)
PROOF
<1>0. FlowOf(p) /\ at[p] \in Steps
  BY DEF Typed, LocalsTyped, Flow
<1>1. CASE Begins(p)
  BY <1>1, BeginQuiet
<1>2. CASE \/ LockGone(p) \/ LockTimesOut(p) \/ NoRoom(p) \/ ResetEnds(p) \/ UnlinkMissing(p)
           \/ Fail(p)
  BY <1>2, FailQuiet DEF LockGone, LockTimesOut, NoRoom, ResetEnds, UnlinkMissing
<1>3. CASE LockTask(p)
  BY <1>3, GoQuiet DEF LockTask, Steps, ListSteps, Calm, disk, history
<1>4. CASE WriteNew(p)
  <2>1. Calm
    BY <1>4, StoreConstants DEF WriteNew, Typed, DiskTyped, Calm, history, Task, TaskStatus
  <2>. QED  BY <1>4, <2>1, EndQuiet DEF WriteNew
<1>5. CASE ReadDir(p) \/ ReadNone(p)
  BY <1>5, GoQuiet DEF ReadDir, ReadNone, Steps, ListSteps, Calm, disk, locks, history
<1>6. CASE ReadOne(p)
  BY <1>6, GoQuiet DEF ReadOne, Steps, ListSteps, Calm, disk, locks, history
<1>7. CASE Check(p) /\ ~Fail(p)
  <2>. DEFINE next == IF op[p] = "claim" THEN "lockTask" ELSE "lockList"
  <2>1. at'[p] = next /\ high'[p] = high[p] /\ at[p] = "check"
    BY <1>7 DEF Check, Goto, Typed, LocalsTyped
  <2>. QED  BY <1>7, <2>1 DEF FreshOf, Check, Quiet, Calm, ListSteps, disk, locks, history
<1>8. CASE Reread(p) /\ ~Fail(p)
  BY <1>8, GoQuiet DEF Reread, Steps, ListSteps, Calm, disk, locks, history
<1>9. ASSUME NEW u, NEW step \in {"updRead", "updCheck"}, GoUpdate(p, u, step)  PROVE Quiet(p)
  BY <1>9, GoQuiet DEF GoUpdate, Steps, ListSteps, Calm, disk, locks, history
<1>10. CASE DecideClaim(p) \/ DecideClaimBusy(p)
  BY <1>2, <1>9, <1>10 DEF DecideClaim, DecideClaimBusy
<1>11. ASSUME NEW u, MakeAll(p, u)  PROVE Quiet(p)
  BY <1>2, <1>9, <1>11 DEF MakeAll
<1>12. CASE DecideDelete(p) \/ DecideUnassign(p)
  BY <1>11, <1>12 DEF DecideDelete, DecideUnassign
<1>13. CASE DecideBlock(p) \/ Look(p)
  BY <1>2, <1>9, <1>11, <1>13 DEF DecideBlock, Look
<1>14. CASE Unlink(p)
  BY <1>0, <1>14 DEF Unlink, FlowOf, PathOf
<1>15. CASE UpdateCheck(p) \/ UpdateRead(p) \/ UpdateTruncate(p) \/ UpdateWrite(p)
  BY <1>15, UpdateCalm
<1>16. CASE Crash(p)
  BY <1>16, GoQuiet DEF Crash, Steps, ListSteps, Calm, disk, locks
<1>17. CASE StaleLocks(p)
  <2>1. at'[p] = "dead"
    BY <1>17 DEF StaleLocks, Typed, LocalsTyped
  <2>. QED  BY <1>17, <2>1 DEF StaleLocks, Quiet, Calm, ListSteps, disk, history
<1>. QED  BY <1>1, <1>2, <1>3, <1>4, <1>5, <1>6, <1>7, <1>8, <1>10, <1>12, <1>13, <1>14, <1>15,
             <1>16, <1>17 DEF Step, ListStep

LEMMA QuietNumbered ==
  ASSUME Typed, Numbered, NEW p \in Procs, Keeps(p), Quiet(p)
  PROVE  Numbered'
PROOF
<1>1. /\ Given' = Given /\ MarkValue' = MarkValue /\ allocated' = allocated
      /\ \A j \in Ids : file[j] # Absent => file'[j] # Absent
  BY DEF Quiet, Calm, Given, MarkValue
<1>2. UniqueIds' /\ Remembered'
  BY <1>1 DEF Numbered, UniqueIds, Remembered
<1>3. FreshOf(p)' /\ ListGuardOf(p)' /\ CountOf(p)'
  BY DEF Quiet, FreshOf, ListGuardOf, CountOf, ListSteps
<1>4. ASSUME NEW q \in Procs \ {p}  PROVE FreshOf(q)' /\ ListGuardOf(q)' /\ CountOf(q)'
  <2>1. Same(q) /\ FreshOf(q) /\ ListGuardOf(q) /\ CountOf(q)
    BY DEF Keeps, Others, Numbered
  <2>2. FreshOf(q)'
    BY <2>1 DEF FreshOf, Same
  <2>3. ListGuardOf(q)'
    BY <2>1 DEF ListGuardOf, Same, Quiet
  <2>4. CountOf(q)'
    BY <1>1, <2>1 DEF CountOf, Same
  <2>. QED  BY <2>2, <2>3, <2>4
<1>. QED  BY <1>2, <1>3, <1>4 DEF Numbered

\* Only the holder of the lock is where the list is locked.
LEMMA AloneLemma ==
  ASSUME Typed, Numbered, NEW p \in Procs, Keeps(p), ListStep(p)
  PROVE  /\ \A q \in Procs \ {p} : FreshOf(q)' /\ ListGuardOf(q)' /\ CountOf(q)'
         /\ listLock' = p /\ at[p] \in ListSteps \cup {"lockList"} /\ FlowOf(p) /\ CountOf(p) /\ FreshOf(p)
PROOF
<1>1. FlowOf(p) /\ CountOf(p) /\ FreshOf(p) /\ ListGuardOf(p)
  BY DEF Typed, Flow, Numbered
<1>2. /\ listLock = p \/ listLock = None
      /\ listLock' = p /\ at[p] \in ListSteps \cup {"lockList"}
  <2>1. CASE LockList(p)
    BY <2>1 DEF LockList
  <2>2. CASE ~LockList(p)
    <3>1. listLock' = listLock /\ at[p] \in ListSteps
      BY <2>2 DEF ListStep, ReadFiles, ReadMarkToCreate, ReadMark, TruncateMark, WriteMark,
                  TruncateNew, ReadDirToClear, UnlinkOne, ListSteps, locks
    <3>. QED  BY <1>1, <3>1 DEF ListGuardOf
  <2>. QED  BY <2>1, <2>2
<1>3. ASSUME NEW q \in Procs \ {p}  PROVE FreshOf(q)' /\ ListGuardOf(q)' /\ CountOf(q)'
  <2>1. Same(q) /\ FreshOf(q) /\ ListGuardOf(q)
    BY DEF Keeps, Others, Numbered
  <2>2. at'[q] \notin ListSteps
    BY <1>2, <2>1, StoreConstants DEF ListGuardOf, Same
  <2>3. FreshOf(q)'
    BY <2>1 DEF FreshOf, Same
  <2>. QED  BY <2>2, <2>3 DEF ListGuardOf, CountOf, ListSteps
<1>. QED  BY <1>1, <1>2, <1>3

\* What a step under the lock has to show.
LEMMA OwnCount ==
  ASSUME Typed, Numbered, NEW p \in Procs, Keeps(p), ListStep(p),
         UniqueIds', Remembered', CountOf(p)', at'[p] \in ListSteps \cup {"list"}
  PROVE  Numbered'
PROOF
<1>1. FreshOf(p)' /\ ListGuardOf(p)'
  BY AloneLemma DEF FreshOf, ListGuardOf, ListSteps
<1>. QED  BY <1>1, AloneLemma DEF Numbered

LEMMA ReadingNumbered ==
  ASSUME Typed, Numbered, NEW p \in Procs, Keeps(p), "delete" \notin Ops,
         LockList(p) \/ ReadFiles(p) \/ ReadMarkToCreate(p) \/ ReadMark(p) \/ ReadDirToClear(p)
  PROVE  Numbered'
PROOF
<1>0. ListStep(p)
  BY DEF ListStep
<1>1. /\ FlowOf(p) /\ CountOf(p) /\ FreshOf(p) /\ DiskTyped /\ high[p] \in Reading
      /\ high \in [Procs -> Reading] /\ at \in [Procs -> Steps]
  BY <1>0, AloneLemma DEF Typed, LocalsTyped
<1>2. UNCHANGED <<file, mark, allocated>>
  BY DEF LockList, ReadFiles, ReadMarkToCreate, ReadMark, ReadDirToClear, disk, history
<1>3. Given' = Given /\ MarkValue' = MarkValue /\ UniqueIds' /\ Remembered' /\ Remembered
  BY <1>2 DEF Given, MarkValue, Numbered, UniqueIds, Remembered
<1>4. Given \subseteq Ids
  BY DEF Given
<1>5. CASE LockList(p)
  <2>1. /\ at[p] = "lockList" /\ high' = high /\ op' = op
        /\ at'[p] = IF op[p] = "claimBusy" THEN "list" ELSE "highest"
    BY <1>1, <1>5 DEF LockList, Goto
  <2>2. high'[p] = Unread
    BY <1>1, <2>1 DEF FreshOf
  <2>3. CountOf(p)' /\ at'[p] \in ListSteps \cup {"list"}
    BY <2>1, <2>2 DEF CountOf, ListSteps, Unread
  <2>. QED  BY <1>0, <1>3, <2>3, OwnCount
<1>6. CASE ReadFiles(p)
  <2>1. /\ at[p] = "highest" /\ high' = [high EXCEPT ![p].files = FilesHighest] /\ op' = op
        /\ at'[p] = IF op[p] = "create" THEN (IF high[p].mark = -1 THEN "highest" ELSE "create")
                    ELSE IF FilesHighest > 0 THEN "readMark" ELSE "clear"
    BY <1>1, <1>6 DEF ReadFiles, Goto
  <2>2. high'[p].files = FilesHighest /\ high'[p].mark = high[p].mark
    BY <1>1, <2>1 DEF Reading
  <2>3. /\ FilesHighest \in 0..MaxId
        /\ \A j \in Ids : file[j] # Absent => j <= FilesHighest
        /\ FilesHighest # 0 => FilesHighest \in Ids /\ file[FilesHighest] # Absent
    BY <1>1, FilesHighestLemma
  <2>4. \A i \in Given : i <= FilesHighest \/ i <= MarkValue
    <3>. SUFFICES ASSUME NEW i \in Given, ~(i <= MarkValue)  PROVE i <= FilesHighest
      OBVIOUS
    <3>1. PICK j \in Ids : i <= j /\ file[j] # Absent
      BY <1>3 DEF Remembered
    <3>2. j <= FilesHighest /\ i \in Ids
      BY <1>4, <2>3, <3>1
    <3>. QED  BY <2>3, <3>1, <3>2, StoreConstants DEF Ids
  <2>5. CASE op[p] = "create"
    <3>1. high[p].mark # -1 => high[p].mark = MarkValue
      BY <1>1, <2>1, <2>5 DEF CountOf
    <3>2. at'[p] = "create" => \A i \in Given : i <= FilesHighest \/ i <= high[p].mark
      BY <2>1, <2>4, <2>5, <3>1
    <3>3. CountOf(p)' /\ at'[p] \in ListSteps \cup {"list"}
      BY <1>3, <2>1, <2>2, <2>4, <2>5, <3>1, <3>2 DEF CountOf, ListSteps
    <3>. QED  BY <1>0, <1>3, <3>3, OwnCount
  <2>6. CASE op[p] # "create"
    <3>1. CASE FilesHighest = 0
      <4>1. \A i \in Given : i <= MarkValue
        BY <1>4, <2>4, <3>1, StoreConstants DEF Ids
      <4>2. CountOf(p)' /\ at'[p] \in ListSteps \cup {"list"}
        BY <1>3, <2>1, <2>6, <3>1, <4>1 DEF CountOf, ListSteps
      <4>. QED  BY <1>0, <1>3, <4>2, OwnCount
    <3>2. CASE FilesHighest # 0
      <4>1. FilesHighest > 0
        BY <2>3, <3>2
      <4>2. CountOf(p)' /\ at'[p] \in ListSteps \cup {"list"}
        BY <1>2, <1>3, <2>1, <2>2, <2>3, <2>4, <2>6, <3>2, <4>1 DEF CountOf, ListSteps
      <4>. QED  BY <1>0, <1>3, <4>2, OwnCount
    <3>. QED  BY <3>1, <3>2
  <2>. QED  BY <2>5, <2>6
<1>7. CASE ReadMarkToCreate(p)
  <2>1. /\ at[p] = "highest" /\ high' = [high EXCEPT ![p].mark = MarkValue] /\ op' = op
        /\ op[p] = "create" /\ at'[p] = IF high[p].files = -1 THEN "highest" ELSE "create"
    BY <1>1, <1>7 DEF ReadMarkToCreate, Goto
  <2>2. high'[p].mark = MarkValue /\ high'[p].files = high[p].files
    BY <1>1, <2>1 DEF Reading
  <2>3. high[p].files # -1 => \A i \in Given : i <= high[p].files \/ i <= MarkValue
    BY <1>1, <2>1 DEF CountOf
  <2>4. CountOf(p)' /\ at'[p] \in ListSteps \cup {"list"}
    BY <1>3, <2>1, <2>2, <2>3 DEF CountOf, ListSteps
  <2>. QED  BY <1>0, <1>3, <2>4, OwnCount
<1>8. CASE ReadMark(p)
  <2>1. at[p] = "readMark" /\ high' = high /\ op' = op
        /\ at'[p] = IF ToMark(p) > MarkValue THEN "markTrunc" ELSE AfterMark(p)
    BY <1>1, <1>8 DEF ReadMark, Goto
  <2>2. op[p] # "delete"
    BY <1>1, <2>1 DEF FlowOf
  <2>3. ToMark(p) = high[p].files /\ AfterMark(p) = "clear"
    BY <2>2 DEF ToMark, AfterMark
  <2>4. /\ \A i \in Given : i <= high[p].files \/ i <= MarkValue
        /\ high[p].files \in Ids /\ file[high[p].files] # Absent
    BY <1>1, <2>1 DEF CountOf
  <2>5. MarkValue \in Nat /\ high[p].files \in Nat /\ Given \subseteq Nat
    BY <1>1, <1>4, <2>4, MarkLemma, StoreConstants DEF Ids
  <2>6. CASE ToMark(p) > MarkValue
    <3>1. \A i \in Given : i <= high[p].files
      <4>. DEFINE h == high[p].files  m == MarkValue
      <4>1. h \in Nat /\ m \in Nat /\ Given \subseteq Nat /\ h > m /\ \A i \in Given : i <= h \/ i <= m
        BY <2>3, <2>4, <2>5, <2>6
      <4>. HIDE DEF h, m
      <4>2. \A i \in Given : i <= h
        BY <4>1
      <4>. QED  BY <4>2 DEF h
    <3>2. CountOf(p)' /\ at'[p] \in ListSteps \cup {"list"}
      BY <1>2, <1>3, <2>1, <2>4, <2>6, <3>1 DEF CountOf, ListSteps
    <3>. QED  BY <1>0, <1>3, <3>2, OwnCount
  <2>7. CASE ~(ToMark(p) > MarkValue)
    <3>1. \A i \in Given : i <= MarkValue
      <4>. DEFINE h == high[p].files  m == MarkValue
      <4>1. h \in Nat /\ m \in Nat /\ Given \subseteq Nat /\ ~(h > m) /\ \A i \in Given : i <= h \/ i <= m
        BY <2>3, <2>4, <2>5, <2>7
      <4>. HIDE DEF h, m
      <4>2. \A i \in Given : i <= m
        BY <4>1
      <4>. QED  BY <4>2 DEF m
    <3>2. CountOf(p)' /\ at'[p] \in ListSteps \cup {"list"}
      BY <1>3, <2>1, <2>3, <2>7, <3>1 DEF CountOf, ListSteps
    <3>. QED  BY <1>0, <1>3, <3>2, OwnCount
  <2>. QED  BY <2>6, <2>7
<1>9. CASE ReadDirToClear(p)
  <2>1. at[p] = "clear" /\ at'[p] = "unlinkAll"
    BY <1>1, <1>9 DEF ReadDirToClear, Goto
  <2>2. \A i \in Given : i <= MarkValue
    BY <1>1, <2>1 DEF CountOf
  <2>3. CountOf(p)' /\ at'[p] \in ListSteps \cup {"list"}
    BY <1>3, <2>1, <2>2 DEF CountOf, ListSteps
  <2>. QED  BY <1>0, <1>3, <2>3, OwnCount
<1>. QED  BY <1>5, <1>6, <1>7, <1>8, <1>9

LEMMA WritingNumbered ==
  ASSUME Typed, Numbered, NEW p \in Procs, Keeps(p), "delete" \notin Ops,
         TruncateMark(p) \/ WriteMark(p) \/ TruncateNew(p) \/ UnlinkOne(p)
  PROVE  Numbered'
PROOF
<1>0. ListStep(p)
  BY DEF ListStep
<1>1. /\ FlowOf(p) /\ CountOf(p) /\ DiskTyped /\ at \in [Procs -> Steps]
      /\ UniqueIds /\ Remembered
  BY <1>0, AloneLemma DEF Typed, LocalsTyped, Numbered
<1>2. Given \subseteq Ids
  BY DEF Given
<1>3. CASE TruncateMark(p) \/ WriteMark(p)
  <2>1. at[p] \in {"markTrunc", "markWrite"} /\ UNCHANGED <<file, allocated, op, high>>
    BY <1>3 DEF TruncateMark, WriteMark, history
  <2>2. /\ \A i \in Given : i <= high[p].files
        /\ high[p].files \in Ids /\ file[high[p].files] # Absent
    BY <1>1, <2>1 DEF CountOf
  <2>3. Given' = Given /\ UniqueIds'
    BY <1>1, <2>1 DEF Given, UniqueIds
  <2>4. Remembered'
    BY <2>1, <2>2, <2>3 DEF Remembered
  <2>5. CASE TruncateMark(p)
    <3>1. at'[p] = "markWrite"
      BY <1>1, <2>5 DEF TruncateMark, Goto
    <3>2. CountOf(p)' /\ at'[p] \in ListSteps \cup {"list"}
      BY <2>1, <2>2, <2>3, <3>1 DEF CountOf, ListSteps
    <3>. QED  BY <1>0, <2>3, <2>4, <3>2, OwnCount
  <2>6. CASE WriteMark(p)
    <3>1. op[p] # "delete"
      BY <1>1, <2>1 DEF FlowOf
    <3>2. at'[p] = "clear" /\ mark' = high[p].files
      BY <1>1, <2>6, <3>1 DEF WriteMark, Goto, ToMark, AfterMark
    <3>3. MarkValue' = high[p].files
      BY <2>2, <3>2, StoreConstants DEF MarkValue, Ids
    <3>4. CountOf(p)' /\ at'[p] \in ListSteps \cup {"list"}
      BY <2>2, <2>3, <3>2, <3>3 DEF CountOf, ListSteps
    <3>. QED  BY <1>0, <2>3, <2>4, <3>4, OwnCount
  <2>. QED  BY <1>3, <2>5, <2>6
<1>4. CASE TruncateNew(p)
  <2>1. /\ at[p] = "create" /\ at'[p] = "createWrite" /\ NewId(p) <= MaxId
        /\ file' = [file EXCEPT ![NewId(p)] = Torn] /\ mark' = mark
        /\ allocated' = [allocated EXCEPT ![NewId(p)] = @ + 1]
    BY <1>1, <1>4 DEF TruncateNew, Goto
  <2>2. /\ NewId(p) \in Ids /\ NewId(p) > high[p].files /\ NewId(p) > high[p].mark
        /\ high[p].files \in Int /\ high[p].mark \in Int
    BY <2>1, NewIdLemma, StoreConstants DEF Ids
  <2>3. NewId(p) \notin Given
    <3>1. \A i \in Given : i <= high[p].files \/ i <= high[p].mark
      BY <1>1, <2>1 DEF CountOf
    <3>. QED  BY <2>2, <3>1 DEF Ids
  <2>. DEFINE n == NewId(p)
  <2>. HIDE DEF n
  <2>4. allocated \in [Ids -> Nat] /\ allocated[n] = 0
    BY <2>2, <2>3 DEF Typed, HistoryTyped, Given, n
  <2>5. allocated'[n] = 1 /\ \A i \in Ids \ {n} : allocated'[i] = allocated[i]
    BY <2>1, <2>2, <2>4 DEF n
  <2>6. UniqueIds'
    BY <1>1, <2>5 DEF UniqueIds
  <2>7. file'[n] # Absent /\ n \in Ids /\ \A j \in Ids : file[j] # Absent => file'[j] # Absent
    BY <1>1, <2>1, <2>2, StoreConstants DEF DiskTyped, n
  <2>8. Remembered'
    <3>. SUFFICES ASSUME NEW i \in Ids, allocated'[i] > 0
                  PROVE  i <= MarkValue' \/ \E j \in Ids : i <= j /\ file'[j] # Absent
      BY DEF Remembered, Given
    <3>1. CASE i = n
      BY <2>7, <3>1 DEF Ids
    <3>2. CASE i # n
      <4>1. i \in Given
        BY <2>5, <3>2 DEF Given
      <4>2. i <= MarkValue \/ \E j \in Ids : i <= j /\ file[j] # Absent
        BY <1>1, <4>1 DEF Remembered
      <4>3. MarkValue' = MarkValue
        BY <2>1 DEF MarkValue
      <4>. QED  BY <2>7, <4>2, <4>3
    <3>. QED  BY <3>1, <3>2
  <2>9. CountOf(p)' /\ at'[p] \in ListSteps \cup {"list"}
    BY <2>1 DEF CountOf, ListSteps
  <2>. QED  BY <1>0, <2>6, <2>8, <2>9, OwnCount
<1>5. CASE UnlinkOne(p)
  <2>1. at[p] = "unlinkAll" /\ UNCHANGED <<mark, allocated, at>>
    BY <1>5 DEF UnlinkOne
  <2>2. Given' = Given /\ MarkValue' = MarkValue /\ UniqueIds'
    BY <1>1, <2>1 DEF Given, MarkValue, UniqueIds
  <2>3. \A i \in Given : i <= MarkValue
    BY <1>1, <2>1 DEF CountOf
  <2>4. Remembered' /\ CountOf(p)' /\ at'[p] \in ListSteps \cup {"list"}
    BY <2>1, <2>2, <2>3 DEF Remembered, CountOf, ListSteps
  <2>. QED  BY <1>0, <2>2, <2>4, OwnCount
<1>. QED  BY <1>3, <1>4, <1>5

LEMMA NumberedInductive ==
  ASSUME "delete" \notin Ops
  PROVE  Spec => []Numbered
PROOF
<1>1. Init => Numbered
  <2>. SUFFICES ASSUME Init  PROVE Numbered
    OBVIOUS
  <2>1. UniqueIds
    BY DEF Init, UniqueIds
  <2>2. Remembered
    BY StoreConstants DEF Init, Remembered, Given, Task, Ids
  <2>3. \A q \in Procs : at[q] = "idle" /\ high[q] = Unread
    BY DEF Init
  <2>. QED  BY <2>1, <2>2, <2>3 DEF Numbered, FreshOf, ListGuardOf, CountOf, ListSteps
<1>2. Typed /\ Typed' /\ Numbered /\ [Next]_vars => Numbered'
  <2>. SUFFICES ASSUME Typed, Typed', Numbered, [Next]_vars  PROVE Numbered'
    OBVIOUS
  <2>1. CASE UNCHANGED vars
    <3>1. UNCHANGED <<file, mark, allocated, at, op, high, listLock>>
      BY <2>1 DEF vars, disk, locks, history
    <3>2. Given' = Given /\ MarkValue' = MarkValue
      BY <3>1 DEF Given, MarkValue
    <3>3. UniqueIds' /\ Remembered'
      BY <3>1, <3>2 DEF Numbered, UniqueIds, Remembered
    <3>4. \A q \in Procs : FreshOf(q)' /\ ListGuardOf(q)' /\ CountOf(q)'
      <4>. TAKE q \in Procs
      <4>1. FreshOf(q) /\ ListGuardOf(q) /\ CountOf(q)
        BY DEF Numbered
      <4>. QED  BY <3>1, <3>2, <4>1 DEF FreshOf, ListGuardOf, CountOf
    <3>. QED  BY <3>3, <3>4 DEF Numbered
  <2>2. ASSUME NEW p \in Procs, Begins(p) \/ Step(p) \/ LockTimesOut(p) \/ Crash(p) \/ StaleLocks(p)
        PROVE  Numbered'
    <3>1. Keeps(p) /\ FreshOf(p)
      BY <2>2, ActionKeeps DEF KeepsAll, Numbered
    <3>2. CASE ListStep(p)
      BY <3>1, <3>2, ReadingNumbered, WritingNumbered DEF ListStep
    <3>3. CASE ~ListStep(p)
      BY <2>2, <3>1, <3>3, OthersQuiet, QuietNumbered
    <3>. QED  BY <3>2, <3>3
  <2>. QED  BY <2>1, <2>2 DEF Next, Terminated
<1>. QED  BY <1>1, <1>2, TypesInductive, PTL DEF Spec

\* createTask gives no id twice, through resets and crashes, while nobody
\* deletes a task (the high water mark and the list lock, tasks.ts).
THEOREM IdsAreUnique ==
  ASSUME "delete" \notin Ops
  PROVE  Spec => []UniqueIds
PROOF
<1>1. Numbered => UniqueIds
  BY DEF Numbered
<1>. QED  BY <1>1, NumberedInductive, PTL

-----------------------------------------------------------------------------
(* A claim stands                                                          *)

\* The task whose file q has locked, to read and write it, and the one it has
\* read and is going to write.
LockedBy(q, i) ==
  \/ at[q] \in {"reread", "list", "readAll", "decide"} /\ op[q] = "claim" /\ i = id[q]
  \/ at[q] \in {"updRead", "updTrunc", "updWrite"} /\ i = Head(plan[q]).id
BusyWith(q, i) ==
  \/ at[q] \in {"list", "readAll", "decide", "updRead"} /\ op[q] = "claim" /\ i = id[q]
  \/ at[q] \in {"updTrunc", "updWrite"} /\ i = Head(plan[q]).id

TaskGuardOf(q) == \A i \in Ids : LockedBy(q, i) => taskLock[i] = q

\* Only claims, and those who are asked to, change the owner.
NoOwner(u) == \A n \in DOMAIN u : "owner" \notin DOMAIN u[n].set
OwnerOf(q) == at[q] \in Updating /\ op[q] \notin {"claim", "update", "unassign"} => NoOwner(plan[q])

\* What the holder of a task's lock knows of those who claimed it.
WonOf(q) ==
  /\ at[q] \in {"list", "readAll", "decide", "updRead"} /\ op[q] = "claim" => winners[id[q]] \subseteq {q}
  /\ at[q] \in {"updTrunc", "updWrite"} =>
       /\ op[q] = "claim" => mine[q].owner = q
       /\ op[q] = "claim" \/ "owner" \notin DOMAIN Head(plan[q]).set =>
            winners[Head(plan[q]).id] \subseteq {mine[q].owner}

\* Only ids that were given have files or are worked on.
FilesGiven == \A i \in Ids : file[i] # Absent => i \in Given
KnownOf(q) == \A i \in Ids : BusyWith(q, i) => i \in Given

\* Nobody has read or claimed the task that is being created.
NewOf(q) ==
  at[q] = "createWrite" =>
    /\ NewId(q) \in Given /\ ~Parses(file[NewId(q)]) /\ winners[NewId(q)] = {}
    /\ \A r \in Procs : ~BusyWith(r, NewId(q))

ClaimOf(q) == TaskGuardOf(q) /\ OwnerOf(q) /\ WonOf(q) /\ KnownOf(q) /\ NewOf(q)
Claimed == ClaimStands /\ FilesGiven /\ \A q \in Procs : ClaimOf(q)

\* While nobody claims with the busy check or starts a task unclaimed, and ids
\* are given once if any is given at all.
ClaimOps == Ops \cap {"claimBusy", "start"} = {} /\ ("create" \in Ops => "delete" \notin Ops)
Before == Typed /\ Claimed /\ ClaimOps /\ ("create" \in Ops => Numbered)

\* What a step of p may do to the tasks without harm to what the others hold.
Tame(p) ==
  /\ Given \subseteq Given'
  /\ \A i \in Ids :
       /\ taskLock'[i] = taskLock[i] \/ taskLock[i] \in {p, None}
       /\ winners'[i] \subseteq winners[i] \/ BusyWith(p, i)
       /\ BusyWith(p, i)' => BusyWith(p, i) \/ Parses(file[i])
       /\ Parses(file'[i]) => \/ Parses(file[i]) \/ BusyWith(p, i)
                              \/ at[p] = "createWrite" /\ i = NewId(p)

\* Whoever has read a task has locked it, and works on a task.
LEMMA BusyLocked ==
  ASSUME Typed, NEW q \in Procs, NEW i, BusyWith(q, i)
  PROVE  LockedBy(q, i) /\ i \in Ids
PROOF
<1>1. FlowOf(q)
  BY DEF Typed, Flow
<1>2. CASE at[q] \in {"list", "readAll", "decide"} /\ op[q] = "claim" /\ i = id[q]
  BY <1>1, <1>2 DEF LockedBy, FlowOf, HoldsOf, OnTask
<1>3. CASE at[q] = "updRead" /\ op[q] = "claim" /\ i = id[q]
  <2>1. id[q] \in Ids /\ plan[q] = OwnIt(q)
    BY <1>1, <1>3 DEF FlowOf, HoldsOf, OnTask, Updating
  <2>2. Head(OwnIt(q)) = [id |-> id[q], set |-> [owner |-> q]]
    BY <2>1, OwnItLemma
  <2>3. Head(plan[q]).id = id[q]
    BY <2>1, <2>2
  <2>. QED  BY <1>3, <2>1, <2>3 DEF LockedBy
<1>4. CASE at[q] \in {"updTrunc", "updWrite"} /\ i = Head(plan[q]).id
  <2>1. Head(plan[q]).id \in Ids
    BY <1>4, TargetLemma DEF Updating
  <2>. QED  BY <1>4, <2>1 DEF LockedBy
<1>. QED  BY <1>2, <1>3, <1>4 DEF BusyWith

\* The others keep what they hold.
LEMMA OthersClaim ==
  ASSUME Before, NEW p \in Procs, Keeps(p), Tame(p), NEW q \in Procs \ {p}
  PROVE  ClaimOf(q)'
PROOF
<1>0. Typed /\ Claimed /\ ClaimOf(q) /\ TaskGuardOf(p) /\ FlowOf(q)
  BY DEF Before, Claimed, ClaimOf, Typed, Flow
<1>1. Same(q) /\ \A r \in Procs \ {p} : Same(r)
  BY DEF Keeps, Others
<1>2. \A r \in Procs \ {p}, i \in Ids : /\ LockedBy(r, i)' <=> LockedBy(r, i)
                                        /\ BusyWith(r, i)' <=> BusyWith(r, i)
  BY <1>1 DEF Same, LockedBy, BusyWith
<1>3. TaskGuardOf(q)'
  <2>. SUFFICES ASSUME NEW i \in Ids, LockedBy(q, i)'  PROVE taskLock'[i] = q
    BY DEF TaskGuardOf
  <2>1. taskLock[i] = q
    BY <1>0, <1>2 DEF ClaimOf, TaskGuardOf
  <2>. QED  BY <2>1, StoreConstants DEF Tame
<1>4. OwnerOf(q)'
  BY <1>0, <1>1 DEF ClaimOf, OwnerOf, Same, NoOwner
<1>5. \A i \in Ids : BusyWith(q, i) => winners'[i] \subseteq winners[i]
  <2>. SUFFICES ASSUME NEW i \in Ids, BusyWith(q, i), BusyWith(p, i)  PROVE FALSE
    BY DEF Tame
  <2>1. LockedBy(q, i) /\ LockedBy(p, i)
    BY <1>0, BusyLocked
  <2>. QED  BY <1>0, <2>1 DEF ClaimOf, TaskGuardOf
<1>6. WonOf(q)'
  <2>1. at[q] \in {"list", "readAll", "decide", "updRead"} /\ op[q] = "claim" =>
          winners'[id[q]] \subseteq winners[id[q]]
    BY <1>0, <1>5, BusyLocked DEF BusyWith
  <2>2. at[q] \in {"updTrunc", "updWrite"} => winners'[Head(plan[q]).id] \subseteq winners[Head(plan[q]).id]
    BY <1>0, <1>5, BusyLocked DEF BusyWith
  <2>. QED  BY <1>0, <1>1, <2>1, <2>2 DEF ClaimOf, WonOf, Same
<1>7. KnownOf(q)'
  BY <1>0, <1>2 DEF ClaimOf, KnownOf, Tame
<1>8. NewOf(q)'
  <2>. SUFFICES ASSUME at'[q] = "createWrite"  PROVE NewOf(q)'
    BY DEF NewOf
  <2>1. at[q] = "createWrite" /\ NewId(q)' = NewId(q)
    BY <1>1 DEF Same, NewId
  <2>0. PICK n : n = NewId(q)
    OBVIOUS
  <2>2. n \in Given /\ n \in Ids /\ ~Parses(file[n]) /\ winners[n] = {} /\ \A r \in Procs : ~BusyWith(r, n)
    BY <1>0, <2>0, <2>1 DEF ClaimOf, NewOf, Given
  <2>3. at[p] # "createWrite"
    <3>1. op[q] = "create" /\ "create" \in Ops
      BY <1>0, <2>1 DEF FlowOf, PathOf
    <3>2. listLock = q
      BY <2>1, <3>1 DEF Before, Numbered, ListGuardOf, ListSteps
    <3>3. at[p] = "createWrite" => listLock = p
      BY <3>1 DEF Before, Numbered, ListGuardOf, ListSteps
    <3>. QED  BY <3>2, <3>3
  <2>4. n \in Given' /\ ~Parses(file'[n]) /\ winners'[n] = {}
    BY <2>2, <2>3 DEF Tame
  <2>5. ~BusyWith(p, n)'
    BY <2>2 DEF Tame
  <2>6. \A r \in Procs \ {p} : ~BusyWith(r, n)'
    BY <1>2, <2>2
  <2>7. \A r \in Procs : ~BusyWith(r, n)'
    BY <2>5, <2>6
  <2>. QED  BY <2>0, <2>1, <2>4, <2>7 DEF NewOf
<1>. QED  BY <1>3, <1>4, <1>6, <1>7, <1>8 DEF ClaimOf

\* A step that touches no task, of a process that does not hold one afterwards.
Shy(p) ==
  /\ UNCHANGED <<file, winners, allocated>>
  /\ \A i \in Ids : taskLock'[i] = taskLock[i] \/ taskLock[i] = p
  /\ at'[p] # "createWrite" /\ OwnerOf(p)'
  /\ at'[p] \notin {"reread", "updRead", "updTrunc", "updWrite"}
  /\ at'[p] \in {"list", "readAll", "decide"} => op'[p] # "claim"

LEMMA ShyClaimed ==
  ASSUME Before, NEW p \in Procs, Keeps(p), Shy(p)
  PROVE  Claimed'
PROOF
<1>1. \A i : ~LockedBy(p, i)' /\ ~BusyWith(p, i)'
  BY DEF Shy, LockedBy, BusyWith
<1>2. Given' = Given
  BY DEF Shy, Given
<1>3. Tame(p)
  BY <1>1, <1>2 DEF Shy, Tame
<1>4. ClaimStands' /\ FilesGiven'
  BY <1>2 DEF Shy, Before, Claimed, ClaimStands, FilesGiven
<1>5. ClaimOf(p)'
  <2>1. TaskGuardOf(p)' /\ KnownOf(p)'
    BY <1>1 DEF TaskGuardOf, KnownOf
  <2>2. WonOf(p)' /\ NewOf(p)' /\ OwnerOf(p)'
    BY DEF Shy, WonOf, NewOf
  <2>. QED  BY <2>1, <2>2 DEF ClaimOf
<1>. QED  BY <1>3, <1>4, <1>5, OthersClaim DEF Claimed

LEMMA EndShy ==
  ASSUME Typed, NEW p \in Procs, End(p), UNCHANGED <<file, winners, allocated>>
  PROVE  Shy(p)
PROOF
<1>1. at'[p] = "idle"
  BY DEF End, Typed, LocalsTyped
<1>2. \A i \in Ids : taskLock'[i] = taskLock[i] \/ taskLock[i] = p
  BY DEF End
<1>. QED  BY <1>1, <1>2 DEF Shy, OwnerOf, Updating

LEMMA FailShy ==
  ASSUME Typed, NEW p \in Procs, Fail(p)
  PROVE  Shy(p)
PROOF
  BY EndShy DEF Fail, disk, history

LEMMA GoShy ==
  ASSUME Typed, NEW p \in Procs, NEW step \in Steps \ (Updating \cup {"createWrite", "reread"}),
         Goto(p, step), UNCHANGED <<file, winners, allocated, taskLock, op>>,
         op[p] # "claim" \/ step \notin {"list", "readAll", "decide"}
  PROVE  Shy(p)
PROOF
<1>1. at'[p] = step /\ op'[p] = op[p]
  BY DEF Goto, Typed, LocalsTyped
<1>. QED  BY <1>1 DEF Shy, OwnerOf, Updating

\* An update of a plan that gives no owner, or is asked to, is to be checked.
LEMMA PlanShy ==
  ASSUME Typed, NEW p \in Procs, at'[p] \in {"updCheck", "updLock"},
         op'[p] \in {"update", "unassign"} \/ NoOwner(plan'[p]),
         UNCHANGED <<file, winners, allocated>>,
         \A i \in Ids : taskLock'[i] = taskLock[i] \/ taskLock[i] = p
  PROVE  Shy(p)
PROOF
  BY DEF Shy, OwnerOf

LEMMA BeginShy ==
  ASSUME Typed, NEW p \in Procs, Begins(p)
  PROVE  Shy(p)
PROOF
<1>1. UNCHANGED <<file, winners, allocated, taskLock>>
  BY DEF Begins, BeginPlain, BeginOnTask, BeginSetStatus, BeginBlock, disk, locks
<1>2. ASSUME NEW o \in Ops, NEW i, Begin(p, o, i), o # "setStatus"  PROVE Shy(p)
  <2>1. at'[p] = FirstStep[o] /\ op'[p] = o
    BY <1>2 DEF Begin, Goto, Typed, LocalsTyped
  <2>2. /\ FirstStep[o] \in {"lockList", "readMark", "check", "look", "list", "readAll"}
        /\ o = "claim" => FirstStep[o] = "check"
    BY <1>2, StoreConstants DEF FirstStep, AllOps
  <2>. QED  BY <1>1, <2>1, <2>2 DEF Shy, OwnerOf, Updating
<1>3. CASE BeginSetStatus(p)
  <2>. DEFINE s == "in_progress"
  <2>1. PICK i \in Ids :
          /\ Begin(p, "setStatus", i)
          /\ plan' = [plan EXCEPT ![p] = <<[id |-> i, set |-> [status |-> s]]>>]
    BY <1>3 DEF BeginSetStatus
  <2>2. at'[p] = "updCheck" /\ plan'[p] = <<[id |-> i, set |-> [status |-> s]]>>
    BY <2>1 DEF Begin, Goto, FirstStep, Typed, LocalsTyped
  <2>3. NoOwner(plan'[p])
    BY <2>2 DEF NoOwner
  <2>. QED  BY <1>1, <2>2, <2>3, PlanShy
<1>4. CASE BeginPlain(p) \/ BeginOnTask(p) \/ BeginBlock(p)
  BY <1>2, <1>4 DEF BeginPlain, BeginOnTask, BeginBlock
<1>. QED  BY <1>3, <1>4 DEF Begins

\* deleteTask and blockTask give no owner, unassignTeammateTasks takes it away.
LEMMA MakeAllShy ==
  ASSUME Typed, NEW p \in Procs, NEW u, op[p] = "unassign" \/ NoOwner(u), MakeAll(p, u)
  PROVE  Shy(p)
PROOF
<1>1. CASE u = <<>>
  BY <1>1, FailShy DEF MakeAll
<1>2. CASE u # <<>>
  <2>1. /\ at'[p] = "updCheck" /\ plan'[p] = u /\ op'[p] = op[p]
        /\ UNCHANGED <<file, winners, allocated, taskLock>>
    BY <1>2 DEF MakeAll, GoUpdate, Goto, Typed, LocalsTyped, disk, locks, history
  <2>. QED  BY <2>1, PlanShy
<1>. QED  BY <1>1, <1>2

LEMMA ConcatNoOwner ==
  ASSUME NEW S, NEW u \in Seq(S), NEW v \in Seq(S), NoOwner(u), NoOwner(v)
  PROVE  NoOwner(u \o v)
PROOF
<1>1. ASSUME NEW n \in DOMAIN (u \o v)
      PROVE  \/ n \in DOMAIN u /\ (u \o v)[n] = u[n]
             \/ n - Len(u) \in DOMAIN v /\ (u \o v)[n] = v[n - Len(u)]
  OBVIOUS
<1>. QED  BY <1>1 DEF NoOwner

LEMMA DecideShy ==
  ASSUME Typed, NEW p \in Procs, DecideDelete(p) \/ DecideUnassign(p) \/ DecideBlock(p)
  PROVE  Shy(p)
PROOF
<1>1. CASE DecideDelete(p)
  <2>. DEFINE S == {i \in DOMAIN view[p] : /\ Parses(view[p][i])
                                           /\ id[p] \in view[p][i].blocks \cup view[p][i].blockedBy}
              s == SetToSeq(S)
              Cut(i) == [blocks |-> view[p][i].blocks \ {id[p]}, blockedBy |-> view[p][i].blockedBy \ {id[p]}]
              u == [n \in DOMAIN s |-> [id |-> s[n], set |-> Cut(s[n])]]
  <2>1. MakeAll(p, u)
    BY <1>1 DEF DecideDelete, Updates
  <2>2. NoOwner(u)
    <3>. HIDE DEF S
    <3>. QED  BY DEF NoOwner
  <2>. QED  BY <2>1, <2>2, MakeAllShy
<1>2. CASE DecideUnassign(p)
  <2>0. PICK q \in Procs \ {p} :
          LET Free(i) == [owner |-> None, status |-> "pending"]
          IN MakeAll(p, Updates({i \in Open(p) : view[p][i].owner = q}, Free))
    BY <1>2 DEF DecideUnassign
  <2>. DEFINE S == {i \in Open(p) : view[p][i].owner = q}
              s == SetToSeq(S)
              u == [n \in DOMAIN s |-> [id |-> s[n], set |-> [owner |-> None, status |-> "pending"]]]
  <2>1. MakeAll(p, u) /\ op[p] = "unassign"
    BY <1>2, <2>0 DEF DecideUnassign, Updates
  <2>. HIDE DEF u
  <2>. QED  BY <2>1, MakeAllShy
<1>3. CASE DecideBlock(p)
  <2>. DEFINE from == id[p]
              to == CHOOSE i \in DOMAIN view[p] : i # from
              x == [id |-> from, set |-> [blocks |-> view[p][from].blocks \cup {to}]]
              y == [id |-> to, set |-> [blockedBy |-> view[p][to].blockedBy \cup {from}]]
              source == IF to \in view[p][from].blocks THEN <<>> ELSE <<x>>
              target == IF from \in view[p][to].blockedBy THEN <<>> ELSE <<y>>
  <2>1. MakeAll(p, source \o target) \/ Fail(p)
    BY <1>3 DEF DecideBlock
  <2>2. /\ "owner" \notin DOMAIN x.set /\ "owner" \notin DOMAIN y.set
        /\ (source = <<>> \/ source = <<x>>) /\ (target = <<>> \/ target = <<y>>)
    OBVIOUS
  <2>. HIDE DEF x, y, source, target
  <2>3. ASSUME NEW z \in {x, y}, NEW r, r = <<>> \/ r = <<z>>  PROVE r \in Seq({x, y}) /\ NoOwner(r)
    <3>1. CASE r = <<>>
      BY <3>1 DEF NoOwner
    <3>2. CASE r = <<z>>
      BY <2>2, <3>2 DEF NoOwner
    <3>. QED  BY <2>3, <3>1, <3>2
  <2>4. NoOwner(source \o target)
    <3>1. source \in Seq({x, y}) /\ NoOwner(source) /\ target \in Seq({x, y}) /\ NoOwner(target)
      BY <2>2, <2>3
    <3>. QED  BY <3>1, ConcatNoOwner
  <2>. QED  BY <2>1, <2>4, FailShy, MakeAllShy
<1>. QED  BY <1>1, <1>2, <1>3

\* After an update the plan is to be continued, or the operation has ended.
LEMMA ReturnLemma ==
  ASSUME Before, NEW p \in Procs, at[p] \in Updating, NEW told, Return(p, told)
  PROVE  /\ at'[p] \in {"idle", "updCheck"} /\ OwnerOf(p)'
         /\ \A i \in Ids : taskLock'[i] = taskLock[i] \/ taskLock[i] = p
         /\ winners' = IF op[p] = "claim" THEN [told EXCEPT ![id[p]] = @ \cup {p}] ELSE told
PROOF
<1>1. Typed /\ FlowOf(p) /\ OwnerOf(p) /\ op[p] # "claimBusy"
  BY DEF Before, ClaimOps, Typed, Flow, FlowOf, Updating, Claimed, ClaimOf
<1>2. CASE Len(plan[p]) > 1
  <2>1. /\ plan' = [plan EXCEPT ![p] = Tail(plan[p])] /\ at' = [at EXCEPT ![p] = "updCheck"]
        /\ \A i \in Ids : taskLock'[i] = taskLock[i] \/ taskLock[i] = p
        /\ winners' = told /\ op' = op
    BY <1>2 DEF Return, Goto
  <2>2. plan'[p] = Tail(plan[p]) /\ at'[p] = "updCheck"
    BY <1>1, <2>1 DEF Typed, LocalsTyped
  <2>3. op[p] # "claim"
    <3>1. op[p] = "claim" => plan[p] = OwnIt(p) /\ id[p] \in Ids
      BY <1>1 DEF FlowOf, HoldsOf, Updating, OnTask
    <3>2. op[p] = "claim" => Len(plan[p]) = 1
      BY <3>1, OwnItLemma
    <3>. DEFINE n == Len(plan[p])
    <3>3. n > 1 /\ (op[p] = "claim" => n = 1)
      BY <1>2, <3>2
    <3>. HIDE DEF n
    <3>. QED  BY <3>3
  <2>4. plan[p] \in Seq(Patches) /\ Len(plan[p]) # 0
    BY <1>1, TargetLemma
  <2>5. NoOwner(plan[p]) => NoOwner(Tail(plan[p]))
    <3>1. \A n \in DOMAIN Tail(plan[p]) : n + 1 \in DOMAIN plan[p] /\ Tail(plan[p])[n] = plan[p][n + 1]
      BY <2>4
    <3>. QED  BY <2>4, <3>1 DEF NoOwner
  <2>6. OwnerOf(p)'
    BY <1>1, <2>1, <2>2, <2>5 DEF OwnerOf
  <2>. QED  BY <2>1, <2>2, <2>3, <2>6
<1>3. CASE ~(Len(plan[p]) > 1)
  BY <1>1, <1>3, EndLemma DEF Return, OwnerOf, Updating
<1>. QED  BY <1>2, <1>3

\* An update that finds no task, unless it is a claim.
LEMMA ReturnShy ==
  ASSUME Before, NEW p \in Procs, at[p] \in Updating, op[p] # "claim", Return(p, winners),
         UNCHANGED <<disk, started, crashes, allocated>>
  PROVE  Shy(p)
PROOF
  BY ReturnLemma DEF Shy, OwnerOf, Updating, disk


\* The steps that hold a task, or change one, or create or remove its file.
TaskStep(p) ==
  \/ LockTask(p) \/ (Reread(p) /\ Claimable(p, file[id[p]]))
  \/ (ReadDir(p) \/ ReadOne(p) \/ ReadNone(p) \/ DecideClaim(p)) /\ op[p] = "claim"
  \/ UpdateRead(p) /\ (Parses(file[Target(p)]) \/ op[p] = "claim")
  \/ UpdateTruncate(p) \/ UpdateWrite(p)
  \/ TruncateNew(p) \/ WriteNew(p) \/ UnlinkOne(p) \/ Unlink(p)

LEMMA OthersShy ==
  ASSUME Before, NEW p \in Procs,
         Begins(p) \/ Step(p) \/ LockTimesOut(p) \/ Crash(p) \/ StaleLocks(p), ~TaskStep(p)
  PROVE  Shy(p)
PROOF
<1>0. Typed /\ FlowOf(p) /\ OwnerOf(p)
  BY DEF Before, Typed, Flow, Claimed, ClaimOf
<1>1. CASE Begins(p)
  BY <1>0, <1>1, BeginShy
<1>2. CASE \/ LockGone(p) \/ LockTimesOut(p) \/ NoRoom(p) \/ ResetEnds(p) \/ UnlinkMissing(p)
           \/ Fail(p)
  BY <1>0, <1>2, FailShy DEF LockGone, LockTimesOut, NoRoom, ResetEnds, UnlinkMissing
<1>3. CASE LockList(p)
  <2>1. op[p] # "claim"
    BY <1>0, <1>3 DEF LockList, FlowOf, PathOf
  <2>. QED  BY <1>0, <1>3, <2>1, GoShy DEF LockList, Steps, Updating, disk, history
<1>4. CASE ReadFiles(p) \/ ReadMarkToCreate(p) \/ ReadDirToClear(p)
  BY <1>0, <1>4, GoShy DEF ReadFiles, ReadMarkToCreate, ReadDirToClear, Steps, Updating,
                           disk, locks, history
<1>5. CASE ReadMark(p) \/ TruncateMark(p) \/ WriteMark(p)
  BY <1>0, <1>5, GoShy DEF ReadMark, TruncateMark, WriteMark, AfterMark, Steps, Updating,
                           disk, locks, history
<1>6. CASE (ReadDir(p) \/ ReadOne(p) \/ ReadNone(p)) /\ op[p] # "claim"
  BY <1>0, <1>6, GoShy DEF ReadDir, ReadOne, ReadNone, Steps, Updating, disk, locks, history
<1>7. CASE Check(p) /\ ~Fail(p)
  BY <1>0, <1>7, GoShy DEF Check, Steps, Waiting, Updating, disk, locks, history
<1>8. CASE Reread(p) /\ ~Claimable(p, file[id[p]])
  BY <1>2, <1>8 DEF Reread
<1>9. CASE DecideClaimBusy(p)
  BY <1>0, <1>9 DEF DecideClaimBusy, FlowOf, Before, ClaimOps
<1>10. CASE DecideDelete(p) \/ DecideUnassign(p) \/ DecideBlock(p)
  BY <1>0, <1>10, DecideShy
<1>17. CASE Look(p) /\ ~Fail(p)
  <2>1. op[p] = "update"
    BY <1>0, <1>17 DEF Look, FlowOf, PathOf, Before, ClaimOps
  <2>2. \E u : GoUpdate(p, u, "updCheck")
    BY <1>17 DEF Look
  <2>3. at'[p] = "updCheck" /\ op'[p] = "update" /\ UNCHANGED <<file, winners, allocated, taskLock>>
    BY <1>0, <2>1, <2>2 DEF GoUpdate, Goto, Typed, LocalsTyped, disk, locks, history
  <2>. QED  BY <1>0, <2>3, PlanShy
<1>11. CASE UpdateCheck(p)
  <2>1. at[p] = "updCheck" /\ op[p] # "claim"
    BY <1>0, <1>11 DEF UpdateCheck, FlowOf, PathOf
  <2>2. CASE Parses(file[Target(p)])
    <3>1. /\ at'[p] = "updLock" /\ plan' = plan /\ op' = op
          /\ UNCHANGED <<file, winners, allocated, taskLock>>
      BY <1>0, <1>11, <2>2 DEF UpdateCheck, Goto, Typed, LocalsTyped, disk, locks, history
    <3>2. op'[p] \in {"update", "unassign"} \/ NoOwner(plan'[p])
      BY <1>0, <2>1, <3>1 DEF OwnerOf, Updating
    <3>. QED  BY <1>0, <3>1, <3>2, PlanShy
  <2>3. CASE ~Parses(file[Target(p)])
    BY <1>11, <2>1, <2>3, ReturnShy DEF UpdateCheck, Updating
  <2>. QED  BY <2>2, <2>3
<1>12. CASE UpdateRead(p) /\ ~Parses(file[Target(p)]) /\ op[p] # "claim"
  BY <1>12, ReturnShy DEF UpdateRead, Updating
<1>13. CASE Crash(p)
  BY <1>0, <1>13, GoShy DEF Crash, Steps, Updating, disk, locks
<1>14. CASE StaleLocks(p)
  <2>1. at'[p] = "dead" /\ UNCHANGED <<file, winners, allocated>>
        /\ \A i \in Ids : taskLock'[i] = taskLock[i] \/ taskLock[i] = p
    BY <1>0, <1>14 DEF StaleLocks, Typed, LocalsTyped, disk, history
  <2>. QED  BY <2>1 DEF Shy, OwnerOf, Updating
<1>15. CASE Check(p) /\ Fail(p)
  BY <1>2, <1>15
<1>16. DecideClaim(p) => op[p] = "claim"
  BY DEF DecideClaim
<1>. QED  BY <1>1, <1>2, <1>3, <1>4, <1>5, <1>6, <1>7, <1>8, <1>9, <1>10, <1>11, <1>12, <1>13,
             <1>14, <1>15, <1>16, <1>17 DEF Step, TaskStep

LEMMA OwnClaimed ==
  ASSUME Before, NEW p \in Procs, Keeps(p), Tame(p), ClaimStands', FilesGiven', ClaimOf(p)'
  PROVE  Claimed'
PROOF
  BY OthersClaim DEF Claimed

\* Steps of the holder of a task that leave the tasks alone.
LEMMA HoldingClaimed ==
  ASSUME Before, NEW p \in Procs, Keeps(p),
         \/ LockTask(p) \/ (Reread(p) /\ Claimable(p, file[id[p]]))
         \/ (ReadDir(p) \/ ReadOne(p) \/ ReadNone(p) \/ DecideClaim(p)) /\ op[p] = "claim"
         \/ UpdateRead(p) /\ Parses(file[Target(p)])
  PROVE  Claimed'
PROOF
<1>0. /\ Typed /\ FlowOf(p) /\ ClaimOf(p) /\ ClaimStands /\ FilesGiven /\ at \in [Procs -> Steps]
      /\ file \in [Ids -> Contents] /\ winners \in [Ids -> SUBSET Procs]
  BY DEF Before, Typed, Flow, Claimed, LocalsTyped, DiskTyped, HistoryTyped
<1>1. ASSUME UNCHANGED <<file, winners, allocated>>
      PROVE  Given' = Given /\ ClaimStands' /\ FilesGiven'
  BY <1>0, <1>1 DEF Given, ClaimStands, FilesGiven
<1>2. CASE Fail(p)
  BY <1>0, <1>2, FailShy, ShyClaimed
<1>3. CASE LockTask(p)
  <2>. DEFINE t == Target(p)
  <2>1. /\ at[p] \in {"lockTask", "updLock"} /\ file[t] # Absent /\ taskLock[t] = None
        /\ taskLock' = [taskLock EXCEPT ![t] = p]
        /\ at'[p] = IF at[p] = "lockTask" THEN "reread" ELSE "updRead"
        /\ UNCHANGED <<file, winners, allocated, op, id, mine, plan>>
    BY <1>0, <1>3 DEF LockTask, Goto, disk, history
  <2>2. t \in Ids
    <3>1. at[p] = "lockTask" => id[p] \in Ids
      BY <1>0 DEF FlowOf, PathOf, HoldsOf, OnTask
    <3>2. at[p] = "updLock" => Target(p) \in Ids
      BY <1>0, TargetLemma DEF Updating
    <3>. QED  BY <2>1, <3>1, <3>2 DEF Target
  <2>3. \A i \in Ids : LockedBy(p, i)' => i = t
    BY <2>1 DEF LockedBy, Target
  <2>4. \A i \in Ids : ~BusyWith(p, i)'
    <3>1. at[p] = "updLock" => op[p] # "claim"
      BY <1>0 DEF FlowOf, PathOf
    <3>. QED  BY <2>1, <3>1 DEF BusyWith
  <2>. HIDE DEF t
  <2>5. taskLock'[t] = p /\ \A i \in Ids \ {t} : taskLock'[i] = taskLock[i]
    BY <1>0, <2>1, <2>2 DEF Typed, LocksTyped
  <2>6. Given' = Given /\ ClaimStands' /\ FilesGiven'
    BY <1>1, <2>1
  <2>7. Tame(p)
    BY <2>1, <2>4, <2>5, <2>6 DEF Tame
  <2>8. ClaimOf(p)'
    <3>1. TaskGuardOf(p)' /\ KnownOf(p)'
      BY <2>3, <2>4, <2>5 DEF TaskGuardOf, KnownOf
    <3>2. OwnerOf(p)'
      BY <1>0, <2>1 DEF ClaimOf, OwnerOf, Updating
    <3>3. at[p] = "updLock" => op[p] # "claim"
      BY <1>0 DEF FlowOf, PathOf
    <3>4. WonOf(p)' /\ NewOf(p)'
      BY <2>1, <3>3 DEF WonOf, NewOf
    <3>. QED  BY <3>1, <3>2, <3>4 DEF ClaimOf
  <2>. QED  BY <2>6, <2>7, <2>8, OwnClaimed
<1>4. CASE Reread(p) /\ Claimable(p, file[id[p]])
  <2>1. /\ at[p] = "reread" /\ at'[p] = "list"
        /\ UNCHANGED <<file, winners, allocated, taskLock, op, id, plan>>
    BY <1>0, <1>4 DEF Reread, Goto, disk, locks, history
  <2>2. op[p] = "claim" /\ id[p] \in Ids
    BY <1>0, <2>1 DEF FlowOf, PathOf, HoldsOf, OnTask
  <2>3. Parses(file[id[p]]) /\ file[id[p]].owner \in {None, p}
    BY <1>4 DEF Claimable
  <2>4. \A i : /\ LockedBy(p, i)' => LockedBy(p, i)
               /\ BusyWith(p, i)' => i = id[p]
    BY <2>1, <2>2 DEF LockedBy, BusyWith
  <2>5. Given' = Given /\ ClaimStands' /\ FilesGiven'
    BY <1>1, <2>1
  <2>6. Tame(p)
    BY <2>1, <2>3, <2>4, <2>5 DEF Tame
  <2>7. winners[id[p]] \subseteq {p}
    <3>. SUFFICES ASSUME NEW w \in winners[id[p]]  PROVE w = p
      OBVIOUS
    <3>1. w \in Procs
      BY <1>0, <2>2
    <3>2. file[id[p]].owner = w
      BY <1>0, <2>2, <2>3, <3>1 DEF ClaimStands
    <3>. QED  BY <2>3, <3>1, <3>2, StoreConstants
  <2>8. id[p] \in Given
    BY <1>0, <2>2, <2>3 DEF FilesGiven, Parses
  <2>9. ClaimOf(p)'
    <3>1. TaskGuardOf(p)' /\ KnownOf(p)'
      BY <1>0, <2>1, <2>4, <2>5, <2>8 DEF ClaimOf, TaskGuardOf, KnownOf
    <3>2. OwnerOf(p)' /\ WonOf(p)' /\ NewOf(p)'
      BY <2>1, <2>7 DEF OwnerOf, Updating, WonOf, NewOf
    <3>. QED  BY <3>1, <3>2 DEF ClaimOf
  <2>. QED  BY <2>5, <2>6, <2>9, OwnClaimed
<1>5. CASE (ReadDir(p) \/ ReadOne(p) \/ ReadNone(p)) /\ op[p] = "claim"
  <2>1. /\ at[p] \in {"list", "readAll"} /\ at'[p] \in {"readAll", "decide"}
        /\ UNCHANGED <<file, winners, allocated, taskLock, op, id, plan>>
    BY <1>0, <1>5 DEF ReadDir, ReadOne, ReadNone, Goto, disk, locks, history
  <2>2. \A i : /\ LockedBy(p, i)' => LockedBy(p, i)
               /\ BusyWith(p, i)' => BusyWith(p, i)
    BY <1>5, <2>1 DEF LockedBy, BusyWith
  <2>3. Given' = Given /\ ClaimStands' /\ FilesGiven'
    BY <1>1, <2>1
  <2>4. Tame(p)
    BY <2>1, <2>2, <2>3 DEF Tame
  <2>5. ClaimOf(p)'
    <3>1. TaskGuardOf(p)' /\ KnownOf(p)'
      BY <1>0, <2>1, <2>2, <2>3 DEF ClaimOf, TaskGuardOf, KnownOf
    <3>2. OwnerOf(p)' /\ WonOf(p)' /\ NewOf(p)'
      BY <1>0, <1>5, <2>1 DEF ClaimOf, OwnerOf, Updating, WonOf, NewOf
    <3>. QED  BY <3>1, <3>2 DEF ClaimOf
  <2>. QED  BY <2>3, <2>4, <2>5, OwnClaimed
<1>6. CASE DecideClaim(p) /\ ~Fail(p)
  <2>1. /\ at[p] = "decide" /\ op[p] = "claim" /\ at'[p] = "updRead" /\ plan'[p] = OwnIt(p)
        /\ UNCHANGED <<file, winners, allocated, taskLock, op, id>>
    BY <1>0, <1>6 DEF DecideClaim, GoUpdate, Goto, Typed, LocalsTyped, disk, locks, history
  <2>2. id[p] \in Ids
    BY <1>0, <2>1 DEF FlowOf, HoldsOf, OnTask
  <2>3. Head(plan'[p]).id = id[p]
    <3>1. Head(OwnIt(p)) = [id |-> id[p], set |-> [owner |-> p]]
      BY <2>2, OwnItLemma
    <3>. QED  BY <2>1, <3>1
  <2>4. \A i : /\ LockedBy(p, i)' => LockedBy(p, i)
               /\ BusyWith(p, i)' => BusyWith(p, i)
    BY <2>1, <2>3 DEF LockedBy, BusyWith
  <2>5. Given' = Given /\ ClaimStands' /\ FilesGiven'
    BY <1>1, <2>1
  <2>6. Tame(p)
    BY <2>1, <2>4, <2>5 DEF Tame
  <2>7. ClaimOf(p)'
    <3>1. TaskGuardOf(p)' /\ KnownOf(p)'
      BY <1>0, <2>1, <2>4, <2>5 DEF ClaimOf, TaskGuardOf, KnownOf
    <3>2. OwnerOf(p)' /\ WonOf(p)' /\ NewOf(p)'
      BY <1>0, <2>1 DEF ClaimOf, OwnerOf, WonOf, NewOf
    <3>. QED  BY <3>1, <3>2 DEF ClaimOf
  <2>. QED  BY <2>5, <2>6, <2>7, OwnClaimed
<1>7. CASE UpdateRead(p) /\ Parses(file[Target(p)])
  <2>. DEFINE t == Target(p)
              set == Head(plan[p]).set
              m == Updated(file[t], set)
  <2>1. /\ at[p] = "updRead" /\ at'[p] = "updTrunc" /\ mine'[p] = m
        /\ UNCHANGED <<file, winners, allocated, taskLock, op, id, plan>>
    BY <1>0, <1>7 DEF UpdateRead, Goto, Typed, LocalsTyped, disk, locks, history
  <2>2. t \in Ids /\ t = Head(plan[p]).id /\ plan[p] \in Seq(Patches) /\ plan[p] # <<>>
    BY <1>0, <2>1, TargetLemma DEF Updating
  <2>3. file[t] \in Task
    BY <1>0, <1>7, <2>2, ParsesLemma
  <2>4. m.owner = IF "owner" \in DOMAIN set THEN set["owner"] ELSE file[t].owner
    BY <2>3 DEF Updated, Task
  <2>5. op[p] = "claim" => m.owner = p /\ winners[t] \subseteq {p}
    <3>. SUFFICES ASSUME op[p] = "claim"  PROVE m.owner = p /\ winners[t] \subseteq {p}
      OBVIOUS
    <3>1. plan[p] = OwnIt(p) /\ id[p] \in Ids
      BY <1>0, <2>1 DEF FlowOf, HoldsOf, Updating, OnTask
    <3>2. Head(OwnIt(p)) = [id |-> id[p], set |-> [owner |-> p]]
      BY <3>1, OwnItLemma
    <3>3. set = [owner |-> p] /\ t = id[p]
      BY <2>2, <3>1, <3>2
    <3>4. "owner" \in DOMAIN set /\ set["owner"] = p
      BY <3>3
    <3>5. winners[id[p]] \subseteq {p}
      BY <1>0, <2>1 DEF ClaimOf, WonOf
    <3>. QED  BY <2>4, <3>3, <3>4, <3>5
  <2>7. winners[t] \subseteq {file[t].owner}
    BY <1>0, <1>7, <2>2 DEF ClaimStands
  <2>8. op[p] = "claim" \/ "owner" \notin DOMAIN Head(plan[p]).set => winners[t] \subseteq {m.owner}
    BY <2>4, <2>5, <2>7
  <2>. HIDE DEF m, set
  <2>9. \A i : /\ LockedBy(p, i)' => LockedBy(p, i)
               /\ BusyWith(p, i)' => i = t
    BY <2>1, <2>2 DEF LockedBy, BusyWith
  <2>10. Given' = Given /\ ClaimStands' /\ FilesGiven' /\ t \in Given
    BY <1>0, <1>1, <1>7, <2>1, <2>2 DEF FilesGiven, Parses
  <2>. HIDE DEF t
  <2>11. Tame(p)
    <3>1. Parses(file[t])
      BY <1>7 DEF t
    <3>. QED  BY <2>1, <2>9, <2>10, <3>1 DEF Tame
  <2>12. ClaimOf(p)'
    <3>1. TaskGuardOf(p)' /\ KnownOf(p)'
      BY <1>0, <2>1, <2>9, <2>10 DEF ClaimOf, TaskGuardOf, KnownOf
    <3>2. OwnerOf(p)' /\ NewOf(p)'
      BY <1>0, <2>1 DEF ClaimOf, OwnerOf, Updating, NewOf
    <3>3. WonOf(p)'
      BY <2>1, <2>2, <2>5, <2>8 DEF WonOf
    <3>. QED  BY <3>1, <3>2, <3>3 DEF ClaimOf
  <2>. QED  BY <2>10, <2>11, <2>12, OwnClaimed
<1>. QED  BY <1>2, <1>3, <1>4, <1>5, <1>6, <1>7

\* The holder of a task writes it: truncates the file, or writes what it has
\* made of it, or finds that the file it has locked does not parse.
LEMMA UpdateClaimed ==
  ASSUME Before, NEW p \in Procs, Keeps(p),
         \/ UpdateRead(p) /\ ~Parses(file[Target(p)]) /\ op[p] = "claim"
         \/ UpdateTruncate(p) \/ UpdateWrite(p)
  PROVE  Claimed'
PROOF
<1>. DEFINE t == Target(p)
<1>0. /\ Typed /\ FlowOf(p) /\ ClaimOf(p) /\ ClaimStands /\ FilesGiven
      /\ file \in [Ids -> Contents] /\ winners \in [Ids -> SUBSET Procs] /\ at[p] \in Updating
  BY DEF Before, Typed, Flow, Claimed, DiskTyped, HistoryTyped, Updating, UpdateRead,
         UpdateTruncate, UpdateWrite
<1>1. t \in Ids /\ t = Head(plan[p]).id /\ (op[p] = "claim" => t = id[p])
  <2>1. op[p] = "claim" => plan[p] = OwnIt(p) /\ id[p] \in Ids
    BY <1>0 DEF FlowOf, HoldsOf, Updating, OnTask
  <2>2. id[p] \in Ids => Head(OwnIt(p)) = [id |-> id[p], set |-> [owner |-> p]]
    BY OwnItLemma
  <2>3. op[p] = "claim" => Head(plan[p]).id = id[p]
    BY <2>1, <2>2
  <2>. QED  BY <1>0, <2>3, TargetLemma
<1>2. BusyWith(p, t)
  BY <1>1 DEF BusyWith, UpdateRead, UpdateTruncate, UpdateWrite
<1>3. t \in Given /\ UNCHANGED allocated
  BY <1>0, <1>1, <1>2 DEF ClaimOf, KnownOf, UpdateRead, UpdateTruncate, UpdateWrite, history
<1>4. Given' = Given
  BY <1>3 DEF Given
<1>5. CASE UpdateTruncate(p)
  <2>1. /\ at[p] = "updTrunc" /\ at'[p] = "updWrite" /\ file' = [file EXCEPT ![t] = Torn]
        /\ UNCHANGED <<winners, taskLock, op, id, plan, mine>>
    BY <1>0, <1>5 DEF UpdateTruncate, Goto, Typed, LocalsTyped, locks, history
  <2>. HIDE DEF t
  <2>2. file'[t] = Torn /\ \A i \in Ids \ {t} : file'[i] = file[i]
    BY <1>0, <1>1, <2>1
  <2>3. ~Parses(file'[t]) /\ ClaimStands' /\ FilesGiven'
    BY <1>0, <1>3, <1>4, <2>1, <2>2 DEF Parses, ClaimStands, FilesGiven
  <2>4. \A i : /\ LockedBy(p, i)' <=> LockedBy(p, i)
               /\ BusyWith(p, i)' <=> BusyWith(p, i)
    BY <2>1 DEF LockedBy, BusyWith
  <2>5. Tame(p)
    BY <1>4, <2>1, <2>2, <2>3, <2>4 DEF Tame
  <2>6. ClaimOf(p)'
    <3>1. TaskGuardOf(p)' /\ KnownOf(p)'
      BY <1>0, <1>4, <2>1, <2>4 DEF ClaimOf, TaskGuardOf, KnownOf
    <3>2. OwnerOf(p)' /\ WonOf(p)' /\ NewOf(p)'
      BY <1>0, <2>1 DEF ClaimOf, OwnerOf, Updating, NoOwner, WonOf, NewOf
    <3>. QED  BY <3>1, <3>2 DEF ClaimOf
  <2>. QED  BY <2>3, <2>5, <2>6, OwnClaimed
<1>6. ASSUME NEW told \in [Ids -> SUBSET Procs], Return(p, told),
             \A i \in Ids \ {t} : told[i] = winners[i] /\ file'[i] = file[i],
             file'[t] # Absent \/ file'[t] = file[t],
             Parses(file'[t]) => /\ told[t] \subseteq {file'[t].owner}
                                 /\ op[p] = "claim" => file'[t].owner = p
      PROVE  Claimed'
  <2>. HIDE DEF t
  <2>1. /\ at'[p] \in {"idle", "updCheck"} /\ OwnerOf(p)'
        /\ \A i \in Ids : taskLock'[i] = taskLock[i] \/ taskLock[i] = p
        /\ winners' = IF op[p] = "claim" THEN [told EXCEPT ![id[p]] = @ \cup {p}] ELSE told
    BY <1>0, <1>6, ReturnLemma
  <2>2. /\ \A i \in Ids \ {t} : winners'[i] = winners[i]
        /\ winners'[t] = IF op[p] = "claim" THEN told[t] \cup {p} ELSE told[t]
    <3>1. CASE op[p] = "claim"
      <4>1. winners' = [told EXCEPT ![t] = @ \cup {p}]
        BY <1>1, <2>1, <3>1
      <4>. QED  BY <1>1, <1>6, <3>1, <4>1
    <3>2. CASE op[p] # "claim"
      BY <1>6, <2>1, <3>2
    <3>. QED  BY <3>1, <3>2
  <2>3. \A i : ~LockedBy(p, i)' /\ ~BusyWith(p, i)'
    BY <2>1 DEF LockedBy, BusyWith
  <2>4. Parses(file'[t]) => winners'[t] \subseteq {file'[t].owner}
    BY <1>6, <2>2
  <2>5. ClaimStands'
    <3>. SUFFICES ASSUME NEW i \in Ids, NEW q \in Procs, q \in winners'[i], Parses(file'[i])
                  PROVE  file'[i].owner = q
      BY DEF ClaimStands, Parses
    <3>1. CASE i = t
      BY <2>4, <3>1
    <3>2. CASE i # t
      BY <1>0, <1>6, <2>2, <3>2 DEF ClaimStands
    <3>. QED  BY <3>1, <3>2
  <2>6. FilesGiven'
    BY <1>0, <1>3, <1>4, <1>6 DEF FilesGiven
  <2>7. Tame(p)
    <3>1. \A i \in Ids \ {t} : winners'[i] \subseteq winners[i] /\ file'[i] = file[i]
      BY <1>6, <2>2
    <3>2. BusyWith(p, t)
      BY <1>2
    <3>. QED  BY <1>4, <2>1, <2>3, <3>1, <3>2 DEF Tame
  <2>8. ClaimOf(p)'
    <3>1. TaskGuardOf(p)' /\ KnownOf(p)'
      BY <2>3 DEF TaskGuardOf, KnownOf
    <3>2. OwnerOf(p)' /\ WonOf(p)' /\ NewOf(p)'
      BY <2>1 DEF OwnerOf, Updating, WonOf, NewOf
    <3>. QED  BY <3>1, <3>2 DEF ClaimOf
  <2>. QED  BY <2>5, <2>6, <2>7, <2>8, OwnClaimed
<1>7. CASE UpdateRead(p) /\ ~Parses(file[t])
  <2>1. Return(p, winners) /\ file' = file
    BY <1>7 DEF UpdateRead, disk
  <2>. HIDE DEF t
  <2>. QED  BY <1>0, <1>6, <1>7, <2>1
<1>8. CASE UpdateWrite(p)
  <2>. DEFINE m == mine[p]
              given == op[p] \in {"unassign", "update"} /\ "owner" \in DOMAIN Head(plan[p]).set
              told == IF given THEN [winners EXCEPT ![t] = @ \cap {m.owner}] ELSE winners
  <2>1. at[p] = "updWrite" /\ file' = [file EXCEPT ![t] = m] /\ Return(p, told)
    BY <1>8 DEF UpdateWrite, Told
  <2>2. m \in Task /\ m # Absent
    BY <1>0, <2>1, StoreConstants DEF FlowOf, HoldsOf
  <2>3. /\ op[p] = "claim" => m.owner = p
        /\ ~given => winners[t] \subseteq {m.owner}
    <3>1. op[p] = "claim" \/ given \/ "owner" \notin DOMAIN Head(plan[p]).set
      <4>1. plan[p] \in Seq(Patches) /\ plan[p] # <<>>
        BY <1>0, TargetLemma
      <4>2. 1 \in DOMAIN plan[p] /\ Head(plan[p]) = plan[p][1]
        BY <4>1
      <4>. QED  BY <1>0, <4>2 DEF ClaimOf, OwnerOf, NoOwner
    <3>. QED  BY <1>0, <1>1, <2>1, <3>1 DEF ClaimOf, WonOf
  <2>. HIDE DEF t, m, given
  <2>4. /\ told \in [Ids -> SUBSET Procs] /\ told[t] \subseteq {m.owner}
        /\ \A i \in Ids \ {t} : told[i] = winners[i]
    <3>1. CASE given
      BY <1>0, <1>1, <3>1
    <3>2. CASE ~given
      BY <1>0, <1>1, <2>3, <3>2
    <3>. QED  BY <3>1, <3>2
  <2>5. file'[t] = m /\ \A i \in Ids \ {t} : file'[i] = file[i]
    BY <1>0, <1>1, <2>1
  <2>. HIDE DEF told
  <2>. QED  BY <1>6, <2>1, <2>2, <2>3, <2>4, <2>5
<1>. QED  BY <1>5, <1>7, <1>8

\* createTask gives an id that nobody works on, and writes a task nobody owns.
LEMMA CreateClaimed ==
  ASSUME Before, NEW p \in Procs, Keeps(p), TruncateNew(p) \/ WriteNew(p)
  PROVE  Claimed'
PROOF
<1>0. /\ Typed /\ FlowOf(p) /\ ClaimOf(p) /\ ClaimStands /\ FilesGiven /\ Others(p)
      /\ file \in [Ids -> Contents] /\ winners \in [Ids -> SUBSET Procs]
      /\ allocated \in [Ids -> Nat] /\ \A q \in Procs : KnownOf(q)
  BY DEF Before, Typed, Flow, Claimed, ClaimOf, DiskTyped, HistoryTyped, Keeps
<1>1. PICK n : n = NewId(p)
  OBVIOUS
<1>2. CASE TruncateNew(p)
  <2>1. /\ at[p] = "create" /\ at'[p] = "createWrite" /\ NewId(p) <= MaxId
        /\ file' = [file EXCEPT ![n] = Torn] /\ allocated' = [allocated EXCEPT ![n] = @ + 1]
        /\ winners' = [winners EXCEPT ![n] = {}] /\ UNCHANGED <<taskLock, high>>
    BY <1>0, <1>1, <1>2 DEF TruncateNew, Goto, Typed, LocalsTyped, locks
  <2>2. "create" \in Ops
    BY <1>0, <2>1 DEF FlowOf, PathOf
  <2>3. /\ n \in Ids /\ n > high[p].files /\ n > high[p].mark
        /\ high[p].files \in Int /\ high[p].mark \in Int
    BY <1>0, <1>1, <2>1, NewIdLemma, StoreConstants DEF Ids
  <2>4. n \notin Given
    <3>1. \A i \in Given : i <= high[p].files \/ i <= high[p].mark
      BY <2>1, <2>2 DEF Before, Numbered, CountOf
    <3>. QED  BY <2>3, <3>1 DEF Ids
  <2>5. /\ file'[n] = Torn /\ winners'[n] = {} /\ allocated'[n] > 0
        /\ \A i \in Ids \ {n} : file'[i] = file[i] /\ winners'[i] = winners[i]
                                /\ allocated'[i] = allocated[i]
    <3>1. allocated'[n] = allocated[n] + 1 /\ allocated[n] \in Nat
      BY <1>0, <2>1, <2>3
    <3>2. allocated'[n] > 0
      BY <3>1
    <3>. QED  BY <1>0, <2>1, <2>3, <3>2
  <2>6. Given' = Given \cup {n}
    BY <2>3, <2>5 DEF Given
  <2>7. ClaimStands' /\ FilesGiven' /\ ~Parses(file'[n])
    BY <1>0, <2>5, <2>6 DEF ClaimStands, FilesGiven, Parses
  <2>8. \A i : ~LockedBy(p, i)' /\ ~BusyWith(p, i)'
    BY <2>1 DEF LockedBy, BusyWith
  <2>9. Tame(p)
    BY <2>1, <2>5, <2>6, <2>7, <2>8 DEF Tame
  <2>10. \A r \in Procs : ~BusyWith(r, n)'
    <3>. SUFFICES ASSUME NEW r \in Procs \ {p}, BusyWith(r, n)'  PROVE FALSE
      BY <2>8
    <3>1. BusyWith(r, n)
      BY <1>0 DEF Others, Same, BusyWith
    <3>. QED  BY <1>0, <2>3, <2>4, <3>1 DEF KnownOf
  <2>11. ClaimOf(p)'
    <3>1. NewId(p)' = n
      BY <1>1, <2>1 DEF NewId
    <3>2. n \in Given' /\ ~Parses(file'[n]) /\ winners'[n] = {}
      BY <2>5, <2>6, <2>7
    <3>3. NewOf(p)'
      BY <2>10, <3>1, <3>2 DEF NewOf
    <3>4. TaskGuardOf(p)' /\ KnownOf(p)' /\ OwnerOf(p)' /\ WonOf(p)'
      BY <2>1, <2>8 DEF TaskGuardOf, KnownOf, OwnerOf, Updating, WonOf
    <3>. QED  BY <3>3, <3>4 DEF ClaimOf
  <2>. QED  BY <2>7, <2>9, <2>11, OwnClaimed
<1>3. CASE WriteNew(p)
  <2>1. /\ at[p] = "createWrite" /\ at'[p] = "idle" /\ UNCHANGED <<winners, allocated>>
        /\ \A i \in Ids : taskLock'[i] = taskLock[i] \/ taskLock[i] = p
        /\ \A i \in Ids \ {n} : file'[i] = file[i]
    BY <1>0, <1>1, <1>3, EndLemma DEF WriteNew, history
  <2>2. n \in Given /\ winners[n] = {} /\ Given' = Given
    BY <1>0, <1>1, <2>1 DEF ClaimOf, NewOf, Given
  <2>3. ClaimStands' /\ FilesGiven'
    BY <1>0, <2>1, <2>2 DEF ClaimStands, FilesGiven
  <2>4. \A i : ~LockedBy(p, i)' /\ ~BusyWith(p, i)'
    BY <2>1 DEF LockedBy, BusyWith
  <2>5. Tame(p)
    BY <1>1, <2>1, <2>2, <2>4 DEF Tame
  <2>6. ClaimOf(p)'
    BY <2>1, <2>4 DEF ClaimOf, TaskGuardOf, KnownOf, OwnerOf, Updating, WonOf, NewOf
  <2>. QED  BY <2>3, <2>5, <2>6, OwnClaimed
<1>. QED  BY <1>2, <1>3

\* A task that is deleted, or reset, is nobody's.
LEMMA UnlinkClaimed ==
  ASSUME Before, NEW p \in Procs, Keeps(p), UnlinkOne(p) \/ Unlink(p)
  PROVE  Claimed'
PROOF
<1>0. /\ Typed /\ FlowOf(p) /\ ClaimStands /\ FilesGiven
      /\ file \in [Ids -> Contents] /\ winners \in [Ids -> SUBSET Procs]
  BY DEF Before, Typed, Flow, Claimed, DiskTyped, HistoryTyped
<1>1. /\ at'[p] \in {"unlinkAll", "list"} /\ op'[p] # "claim" /\ UNCHANGED <<taskLock, allocated>>
      /\ \E n : file' = [file EXCEPT ![n] = Absent] /\ winners' = [winners EXCEPT ![n] = {}]
  <2>1. CASE UnlinkOne(p)
    BY <1>0, <2>1 DEF UnlinkOne, FlowOf, PathOf, locks
  <2>2. CASE Unlink(p)
    BY <1>0, <2>2 DEF Unlink, Goto, FlowOf, PathOf, locks, Typed, LocalsTyped
  <2>. QED  BY <2>1, <2>2
<1>2. PICK n : file' = [file EXCEPT ![n] = Absent] /\ winners' = [winners EXCEPT ![n] = {}]
  BY <1>1
<1>3. \A i \in Ids : \/ file'[i] = Absent /\ winners'[i] = {}
                     \/ file'[i] = file[i] /\ winners'[i] = winners[i]
  BY <1>0, <1>2
<1>4. Given' = Given
  BY <1>1 DEF Given
<1>5. ClaimStands' /\ FilesGiven'
  BY <1>0, <1>3, <1>4 DEF ClaimStands, FilesGiven, Parses
<1>6. \A i : ~LockedBy(p, i)' /\ ~BusyWith(p, i)'
  BY <1>1 DEF LockedBy, BusyWith
<1>7. Tame(p)
  BY <1>1, <1>3, <1>4, <1>6 DEF Tame, Parses
<1>8. ClaimOf(p)'
  <2>1. TaskGuardOf(p)' /\ KnownOf(p)'
    BY <1>6 DEF TaskGuardOf, KnownOf
  <2>2. OwnerOf(p)' /\ WonOf(p)' /\ NewOf(p)'
    BY <1>1 DEF OwnerOf, Updating, WonOf, NewOf
  <2>. QED  BY <2>1, <2>2 DEF ClaimOf
<1>. QED  BY <1>5, <1>7, <1>8, OwnClaimed

LEMMA ClaimedInductive ==
  ASSUME ClaimOps
  PROVE  Spec => []Claimed
PROOF
<1>1. Init => Claimed
  <2>. SUFFICES ASSUME Init  PROVE Claimed
    OBVIOUS
  <2>1. ClaimStands
    BY DEF Init, ClaimStands
  <2>2. FilesGiven
    BY DEF Init, FilesGiven, Given
  <2>3. \A q \in Procs : at[q] = "idle"
    BY DEF Init
  <2>4. \A q \in Procs : ClaimOf(q)
    BY <2>3 DEF ClaimOf, TaskGuardOf, LockedBy, OwnerOf, Updating, WonOf, KnownOf, BusyWith, NewOf
  <2>. QED  BY <2>1, <2>2, <2>4 DEF Claimed
<1>2. Typed /\ ("create" \in Ops => Numbered) /\ Claimed /\ [Next]_vars => Claimed'
  <2>. SUFFICES ASSUME Typed, "create" \in Ops => Numbered, Claimed, [Next]_vars  PROVE Claimed'
    OBVIOUS
  <2>0. Before
    BY DEF Before
  <2>1. CASE UNCHANGED vars
    <3>1. UNCHANGED <<file, allocated, winners, taskLock, at, op, id, high, mine, plan>>
      BY <2>1 DEF vars, disk, locks, history
    <3>2. Given' = Given /\ ClaimStands' /\ FilesGiven'
      BY <3>1 DEF Given, Claimed, ClaimStands, FilesGiven
    <3>3. \A r, i : (LockedBy(r, i)' <=> LockedBy(r, i)) /\ (BusyWith(r, i)' <=> BusyWith(r, i))
      BY <3>1 DEF LockedBy, BusyWith
    <3>4. \A q \in Procs : ClaimOf(q)'
      <4>. TAKE q \in Procs
      <4>1. ClaimOf(q)
        BY DEF Claimed
      <4>2. TaskGuardOf(q)' /\ KnownOf(q)'
        BY <3>1, <3>2, <3>3, <4>1 DEF ClaimOf, TaskGuardOf, KnownOf
      <4>3. OwnerOf(q)' /\ WonOf(q)'
        BY <3>1, <4>1 DEF ClaimOf, OwnerOf, NoOwner, WonOf
      <4>4. NewOf(q)'
        <5>1. PICK n : n = NewId(q)
          OBVIOUS
        <5>2. NewId(q)' = n
          BY <3>1, <5>1 DEF NewId
        <5>. QED  BY <3>1, <3>2, <3>3, <4>1, <5>1, <5>2 DEF ClaimOf, NewOf
      <4>. QED  BY <4>2, <4>3, <4>4 DEF ClaimOf
    <3>. QED  BY <3>2, <3>4 DEF Claimed
  <2>2. ASSUME NEW p \in Procs, Begins(p) \/ Step(p) \/ LockTimesOut(p) \/ Crash(p) \/ StaleLocks(p)
        PROVE  Claimed'
    <3>1. Keeps(p)
      BY <2>2, ActionKeeps DEF KeepsAll
    <3>2. CASE TaskStep(p)
      BY <2>0, <3>1, <3>2, HoldingClaimed, UpdateClaimed, CreateClaimed, UnlinkClaimed DEF TaskStep
    <3>3. CASE ~TaskStep(p)
      BY <2>0, <2>2, <3>1, <3>3, OthersShy, ShyClaimed
    <3>. QED  BY <3>1, <3>2, <3>3
  <2>. QED  BY <2>1, <2>2 DEF Next, Terminated
<1>3. CASE "create" \in Ops
  <2>1. "delete" \notin Ops
    BY <1>3 DEF ClaimOps
  <2>2. Typed /\ Numbered /\ Claimed /\ [Next]_vars => Claimed'
    BY <1>2
  <2>. QED  BY <1>1, <2>1, <2>2, TypesInductive, NumberedInductive, PTL DEF Spec
<1>4. CASE "create" \notin Ops
  <2>1. Typed /\ Claimed /\ [Next]_vars => Claimed'
    BY <1>2, <1>4
  <2>. QED  BY <1>1, <2>1, TypesInductive, PTL DEF Spec
<1>. QED  BY <1>3, <1>4

\* An agent that was told its claim succeeded stays the owner until somebody
\* unassigns it or, by a TaskUpdate that names an owner, gives it to another
\* (claimTask under the lock of the task file, tasks.ts).  Not so with the busy
\* check, which claims through updateTask after its checks, and not with a
\* TaskUpdate that starts a task it read as nobody's and so makes its agent the
\* owner (op start); and not shown for an id that is given again after deleteTask.
THEOREM ClaimsStand ==
  ASSUME "claimBusy" \notin Ops, "start" \notin Ops, "create" \in Ops => "delete" \notin Ops
  PROVE  Spec => []ClaimStands
PROOF
<1>1. Claimed => ClaimStands
  BY DEF Claimed
<1>2. ClaimOps
  BY DEF ClaimOps
<1>. QED  BY <1>1, <1>2, ClaimedInductive, PTL

-----------------------------------------------------------------------------
(* What OperationsEnd rests on: no operation waits in a circle             *)

\* p waits for a lock that q holds.
WaitsFor(p, q) ==
  \/ at[p] = "lockList" /\ listLock = q
  \/ at[p] \in {"lockTask", "updLock"} /\ taskLock[Target(p)] = q

\* Who keeps an operation that others wait for from going on waits for nobody.
NoEmbrace == \A p, q, r \in Procs : WaitsFor(p, q) /\ WaitsFor(q, r) => at[r] \notin Waiting

\* Where the holder of a lock is: the list is locked before a task, and while an
\* operation holds a task's lock it takes no other.
OnList == {"create", "reset", "claimBusy"}
OnTaskLock == {"dead", "reread", "updRead", "updTrunc", "updWrite"}
OnTaskList == {"list", "readAll", "decide"}
HolderOf(q) ==
  /\ listLock = q => at[q] \notin {"idle", "check", "lockList"} /\ op[q] \in OnList
  /\ \A i \in Ids :
       taskLock[i] = q => at[q] \in OnTaskLock \/ (at[q] \in OnTaskList /\ op[q] = "claim")

\* A step of p gives no lock to another.
Holding(p) ==
  /\ HolderOf(p)'
  /\ \A q \in Procs \ {p} : /\ listLock' = q => listLock = q
                            /\ \A i \in Ids : taskLock'[i] = q => taskLock[i] = q

LEMMA EndReleases ==
  ASSUME Typed, NEW p \in Procs, End(p)
  PROVE  Holding(p)
PROOF
<1>1. p # None /\ \A q \in Procs : q # None
  BY StoreConstants
<1>2. /\ listLock' = (IF listLock = p THEN None ELSE listLock)
      /\ \A i \in Ids : taskLock'[i] = IF taskLock[i] = p THEN None ELSE taskLock[i]
  BY EndLemma
<1>. QED  BY <1>1, <1>2 DEF Holding, HolderOf

LEMMA FailReleases == ASSUME Typed, NEW p \in Procs, Fail(p) PROVE Holding(p)
PROOF
  BY EndReleases DEF Fail

\* A step that leaves the locks: it goes nowhere its locks must not be taken to.
LEMMA GoHolding ==
  ASSUME Typed, NEW p \in Procs, HolderOf(p), NEW step, Goto(p, step), UNCHANGED <<locks, op>>,
         at[p] = "check" \/ step \notin {"idle", "check", "lockList"},
         \/ at[p] \notin OnTaskLock \cup OnTaskList
         \/ at[p] \in OnTaskList /\ op[p] # "claim"
         \/ step \in OnTaskLock
         \/ step \in OnTaskList /\ op[p] = "claim"
  PROVE  Holding(p)
PROOF
<1>1. at'[p] = step
  BY DEF Goto, Typed, LocalsTyped
<1>2. UNCHANGED <<listLock, taskLock, op>>
  BY DEF locks
<1>3. listLock' = p => at'[p] \notin {"idle", "check", "lockList"} /\ op'[p] \in OnList
  BY <1>1, <1>2 DEF HolderOf
<1>4. \A i \in Ids :
        taskLock'[i] = p => at'[p] \in OnTaskLock \/ (at'[p] \in OnTaskList /\ op'[p] = "claim")
  BY <1>1, <1>2 DEF HolderOf, OnTaskLock, OnTaskList
<1>. QED  BY <1>2, <1>3, <1>4 DEF Holding, HolderOf

LEMMA BeginHolding ==
  ASSUME Typed, NEW p \in Procs, HolderOf(p), Begins(p)
  PROVE  Holding(p)
PROOF
<1>1. UNCHANGED <<listLock, taskLock>>
  BY DEF Begins, BeginPlain, BeginOnTask, BeginSetStatus, BeginBlock, locks
<1>2. at[p] = "idle"
  BY DEF Begins, BeginPlain, BeginOnTask, BeginSetStatus, BeginBlock, Begin
<1>3. listLock # p /\ \A i \in Ids : taskLock[i] # p
  BY <1>2 DEF HolderOf, OnTaskLock, OnTaskList
<1>. QED  BY <1>1, <1>3 DEF Holding, HolderOf

\* A lock is taken by who holds none, or the list's and then one task's.
LEMMA TakeHolding ==
  ASSUME Typed, NEW p \in Procs, HolderOf(p), LockList(p) \/ LockTask(p)
  PROVE  Holding(p)
PROOF
<1>0. FlowOf(p) /\ op' = op
  BY DEF Typed, Flow, LockList, LockTask
<1>1. CASE LockList(p)
  <2>. DEFINE next == IF op[p] = "claimBusy" THEN "list" ELSE "highest"
  <2>1. at[p] = "lockList" /\ listLock' = p /\ at'[p] = next /\ taskLock' = taskLock
    BY <1>1 DEF LockList, Goto, Typed, LocalsTyped
  <2>2. op[p] \in OnList
    BY <1>0, <2>1 DEF FlowOf, PathOf, OnList
  <2>3. \A i \in Ids : taskLock'[i] # p
    BY <2>1 DEF HolderOf, OnTaskLock, OnTaskList
  <2>. QED  BY <1>0, <2>1, <2>2, <2>3 DEF Holding, HolderOf
<1>2. CASE LockTask(p)
  <2>. DEFINE next == IF at[p] = "lockTask" THEN "reread" ELSE "updRead"
  <2>1. /\ at[p] \in {"lockTask", "updLock"} /\ listLock' = listLock /\ at'[p] = next
        /\ taskLock' = [taskLock EXCEPT ![Target(p)] = p]
    BY <1>2 DEF LockTask, Goto, Typed, LocalsTyped
  <2>2. \A i \in Ids : taskLock'[i] = taskLock[i] \/ taskLock'[i] = p
    BY <2>1 DEF Typed, LocksTyped
  <2>3. next \in OnTaskLock
    BY <2>1 DEF OnTaskLock
  <2>. QED  BY <1>0, <2>1, <2>2, <2>3 DEF Holding, HolderOf
<1>. QED  BY <1>1, <1>2

LEMMA ReturnHolding ==
  ASSUME Typed, NEW p \in Procs, HolderOf(p), at[p] \in Updating, NEW told, Return(p, told)
  PROVE  Holding(p)
PROOF
<1>1. CASE End(p)
  BY <1>1, EndReleases
<1>2. CASE ~End(p)
  <2>1. /\ at' = [at EXCEPT ![p] = "updCheck"] /\ UNCHANGED <<listLock, op>>
        /\ taskLock' = [i \in Ids |-> IF taskLock[i] = p THEN None ELSE taskLock[i]]
    BY <1>2 DEF Return, Goto
  <2>2. at'[p] = "updCheck" /\ \A q \in Procs : q # None
    BY <2>1, StoreConstants DEF Typed, LocalsTyped
  <2>. QED  BY <2>1, <2>2 DEF Holding, HolderOf
<1>. QED  BY <1>1, <1>2

LEMMA UpdateHolding ==
  ASSUME Typed, NEW p \in Procs, HolderOf(p),
         UpdateCheck(p) \/ UpdateRead(p) \/ UpdateTruncate(p) \/ UpdateWrite(p)
  PROVE  Holding(p)
PROOF
<1>0. at[p] \in Updating
  BY DEF Updating, UpdateCheck, UpdateRead, UpdateTruncate, UpdateWrite
<1>1. \A told : Return(p, told) => Holding(p)
  BY <1>0, ReturnHolding
<1>2. CASE UpdateCheck(p)
  BY <1>1, <1>2, GoHolding DEF UpdateCheck, OnTaskLock, OnTaskList
<1>3. CASE UpdateRead(p)
  BY <1>1, <1>3, GoHolding DEF UpdateRead, OnTaskLock
<1>4. CASE UpdateTruncate(p)
  BY <1>4, GoHolding DEF UpdateTruncate, OnTaskLock
<1>5. CASE UpdateWrite(p)
  BY <1>1, <1>5 DEF UpdateWrite
<1>. QED  BY <1>2, <1>3, <1>4, <1>5

LEMMA CrashHolding ==
  ASSUME Typed, NEW p \in Procs, HolderOf(p), Crash(p) \/ StaleLocks(p)
  PROVE  Holding(p)
PROOF
<1>1. CASE Crash(p)
  BY <1>1, GoHolding DEF Crash, OnTaskLock
<1>2. CASE StaleLocks(p)
  BY <1>2, StoreConstants DEF StaleLocks, Holding, HolderOf
<1>. QED  BY <1>1, <1>2

LEMMA ActionHolding ==
  ASSUME Typed, NEW p \in Procs, HolderOf(p),
         Begins(p) \/ Step(p) \/ LockTimesOut(p) \/ Crash(p) \/ StaleLocks(p)
  PROVE  Holding(p)
PROOF
<1>0. FlowOf(p)
  BY DEF Typed, Flow
<1>1. CASE \/ LockGone(p) \/ LockTimesOut(p) \/ NoRoom(p) \/ ResetEnds(p) \/ UnlinkMissing(p)
           \/ Fail(p)
  BY <1>1, FailReleases DEF LockGone, LockTimesOut, NoRoom, ResetEnds, UnlinkMissing
<1>2. CASE WriteNew(p)
  BY <1>2, EndReleases DEF WriteNew
<1>3. CASE \/ ReadFiles(p) \/ ReadMarkToCreate(p) \/ ReadMark(p) \/ TruncateMark(p) \/ WriteMark(p)
           \/ TruncateNew(p) \/ ReadDirToClear(p) \/ Unlink(p)
  BY <1>3, GoHolding DEF ReadFiles, ReadMarkToCreate, ReadMark, TruncateMark, WriteMark, TruncateNew,
     ReadDirToClear, Unlink, AfterMark, OnTaskLock, OnTaskList
<1>4. CASE UnlinkOne(p)
  BY <1>4 DEF UnlinkOne, locks, Holding, HolderOf
<1>5. CASE ReadDir(p) \/ ReadOne(p) \/ ReadNone(p)
  BY <1>5, GoHolding DEF ReadDir, ReadOne, ReadNone, OnTaskLock, OnTaskList
<1>6. CASE (Check(p) \/ Reread(p)) /\ ~Fail(p)
  <2>1. at[p] = "reread" => op[p] = "claim"
    BY <1>0 DEF FlowOf, PathOf
  <2>. QED  BY <1>6, <2>1, GoHolding DEF Check, Reread, OnTaskLock, OnTaskList
<1>7. ASSUME NEW u, GoUpdate(p, u, "updRead"), at[p] = "decide"  PROVE Holding(p)
  BY <1>7, GoHolding DEF GoUpdate, OnTaskLock
<1>8. ASSUME NEW u, GoUpdate(p, u, "updCheck"), at[p] = "look" \/ (at[p] = "decide" /\ op[p] # "claim")
      PROVE  Holding(p)
  BY <1>8, GoHolding DEF GoUpdate, OnTaskLock, OnTaskList
<1>9. ASSUME NEW u, MakeAll(p, u), at[p] = "decide", op[p] # "claim"  PROVE Holding(p)
  BY <1>1, <1>8, <1>9 DEF MakeAll
<1>10. CASE DecideClaim(p) \/ DecideClaimBusy(p)
  BY <1>1, <1>7, <1>8, <1>10 DEF DecideClaim, DecideClaimBusy
<1>11. CASE DecideDelete(p) \/ DecideUnassign(p)
  BY <1>9, <1>11 DEF DecideDelete, DecideUnassign
<1>12. CASE DecideBlock(p) \/ Look(p)
  BY <1>1, <1>8, <1>9, <1>12 DEF DecideBlock, Look
<1>. QED
  BY <1>1, <1>2, <1>3, <1>4, <1>5, <1>6, <1>10, <1>11, <1>12, BeginHolding, TakeHolding,
     UpdateHolding, CrashHolding DEF Step

\* Whatever the processes do to the list, and whoever dies: a lock is held by an
\* operation that waits for nothing, or, the list's, for one task's lock, whose
\* holder waits for nothing.  So no two operations wait for each other (the lock
\* calls of createTask, claimTask, claimTaskWithBusyCheck, resetTaskList and
\* updateTask).
THEOREM NobodyWaitsInACircle == Spec => []NoEmbrace
PROOF
<1>. DEFINE Held == \A q \in Procs : HolderOf(q)
<1>1. Init => Held
  BY StoreConstants DEF Init, HolderOf
<1>2. Typed /\ Held /\ [Next]_vars => Held'
  <2>. SUFFICES ASSUME Typed, Held, [Next]_vars  PROVE Held'
    OBVIOUS
  <2>1. CASE UNCHANGED vars
    BY <2>1 DEF vars, locks, HolderOf
  <2>2. ASSUME NEW p \in Procs, Begins(p) \/ Step(p) \/ LockTimesOut(p) \/ Crash(p) \/ StaleLocks(p)
        PROVE  Held'
    <3>1. Holding(p)
      BY <2>2, ActionHolding
    <3>2. \A q \in Procs \ {p} : at'[q] = at[q] /\ op'[q] = op[q]
      BY <2>2, ActionKeeps DEF KeepsAll, Keeps, Others, Same
    <3>. QED  BY <3>1, <3>2 DEF Holding, HolderOf
  <2>. QED  BY <2>1, <2>2 DEF Next, Terminated
<1>3. Typed /\ Held => NoEmbrace
  <2>. SUFFICES ASSUME Typed, Held, NEW p \in Procs, NEW q \in Procs, NEW r \in Procs,
                       WaitsFor(p, q), WaitsFor(q, r)
                PROVE  at[r] \notin Waiting
    BY DEF NoEmbrace
  <2>1. at[q] \in Waiting /\ at[q] \notin OnTaskLock \cup OnTaskList
    BY DEF WaitsFor, Waiting, OnTaskLock, OnTaskList
  <2>2. \A x \in Procs : at[x] \in {"lockTask", "updLock"} => Target(x) \in Ids
    <3>1. \A x \in Procs : at[x] = "lockTask" => Target(x) \in Ids
      BY DEF Target, Typed, Flow, FlowOf, PathOf, HoldsOf, OnTask
    <3>. QED  BY <3>1, TargetLemma DEF Updating
  <2>3. at[p] = "lockList" /\ listLock = q
    BY <2>1, <2>2 DEF WaitsFor, HolderOf
  <2>4. at[q] = "updLock"
    <3>1. at[q] # "lockList" /\ op[q] \in OnList
      BY <2>3 DEF HolderOf
    <3>2. at[q] = "lockTask" => op[q] = "claim"
      BY DEF Typed, Flow, FlowOf, PathOf
    <3>. QED  BY <2>1, <3>1, <3>2 DEF Waiting, OnList
  <2>5. taskLock[Target(q)] = r
    BY <2>4 DEF WaitsFor
  <2>. QED  BY <2>2, <2>4, <2>5 DEF HolderOf, Waiting, OnTaskLock, OnTaskList
<1>. HIDE DEF Held
<1>. QED  BY <1>1, <1>2, <1>3, TypesInductive, PTL DEF Spec
=============================================================================
