------------------------------ MODULE TaskStore ------------------------------
(***************************************************************************)
(* utils/tasks.ts: the task list a swarm of agents shares on disk.  A task *)
(* is a file; a process creates, claims, updates, blocks, unassigns,       *)
(* deletes tasks or resets the list.  One action is one file-system call:  *)
(* writeFile truncates the file and then writes it, and other processes    *)
(* read in between (Torn).  proper-lockfile gives one lock for the list    *)
(* and one per task file; what each operation locks, and what it does not, *)
(* is the point of the model.                                              *)
(***************************************************************************)
EXTENDS Integers, Sequences, FiniteSets, SequencesExt

CONSTANTS
  Procs,       \* the agents, each with a process of its own
  MaxId,       \* bound: the largest task id the model has room for
  MaxOps,      \* bound: operations started in a behaviour
  MaxCrashes,  \* bound: processes that die
  Ops,         \* the operations the processes run, of AllOps
  Initial,     \* the tasks that exist at the start: a function from ids to tasks
  None,        \* no owner, no lock holder
  Absent, Torn \* a file that does not exist, one that is truncated

\* TaskUpdate is two of them: start is the call that only sets in_progress, update
\* every call but one that makes its agent the owner unasked (Joins).
AllOps == {"create", "delete", "reset", "claim", "claimBusy", "setStatus", "update", "start",
           "unassign", "block"}
Ids == 1..MaxId
TaskStatus == {"pending", "in_progress", "completed"}
Task == [owner : Procs \cup {None}, status : TaskStatus,
         blocks : SUBSET Ids, blockedBy : SUBSET Ids]

\* What a task file holds.
Contents == Task \cup {Absent, Torn}

ASSUME StoreConstants ==
  /\ MaxId \in Nat /\ MaxOps \in Nat /\ MaxCrashes \in Nat /\ Ops \subseteq AllOps
  /\ DOMAIN Initial \subseteq Ids /\ \A i \in DOMAIN Initial : Initial[i] \in Task
  /\ None \notin Procs \cup AllOps
  /\ Absent \notin Task /\ Torn \notin Task /\ Torn \notin Nat /\ Absent # Torn

VARIABLES
  file,      \* each task file: Absent, Torn or its task
  mark,      \* .highwatermark: Torn or a number
  listLock,  \* holder of the list's .lock
  taskLock,  \* holder of each task file's lock
  at,        \* where each process is
  op, id,    \* its operation and the task it is about
  high,      \* highest id it has read: from the files and from the mark (-1: not yet)
  todo,      \* files it has still to read or unlink
  view,      \* what it has read of the list
  mine,      \* the task it read under the lock, then what it will write
  plan,      \* the updateTask calls it has still to make
  started, crashes,
  allocated, \* history: how often each id was given to a task
  winners    \* history: the agents told that they claimed each task

disk == <<file, mark>>
locks == <<listLock, taskLock>>
history == <<started, crashes, allocated, winners>>
vars == <<disk, locks, at, op, id, high, todo, view, mine, plan, history>>

Waiting == {"lockList", "lockTask", "updLock"}
Steps == Waiting \cup
  {"idle", "dead", "check", "highest", "readMark", "markTrunc", "markWrite", "create",
   "createWrite", "clear", "unlinkAll", "unlink", "reread", "list", "readAll", "decide",
   "look", "updCheck", "updRead", "updTrunc", "updWrite"}

\* What getTask returns for a content: null unless it parses.
Parses(c) == c \notin {Absent, Torn}

TypeOK ==
  /\ file \in [Ids -> Contents]
  /\ mark \in 0..MaxId \cup {Torn}
  /\ listLock \in Procs \cup {None} /\ taskLock \in [Ids -> Procs \cup {None}]
  /\ at \in [Procs -> Steps] /\ op \in [Procs -> AllOps \cup {None}]
  /\ id \in [Procs -> Ids \cup {0}]
  /\ high \in [Procs -> [files : -1..MaxId, mark : -1..MaxId]]
  /\ todo \in [Procs -> SUBSET Ids]
  /\ \A p \in Procs : DOMAIN view[p] \subseteq Ids /\ \A i \in DOMAIN view[p] : view[p][i] \in Contents
  /\ mine \in [Procs -> Contents]
  /\ \A p \in Procs : Len(plan[p]) <= MaxId /\ \A n \in 1..Len(plan[p]) : plan[p][n].id \in Ids
  /\ \A i \in Ids : winners[i] \subseteq Procs /\ allocated[i] \in Nat
  /\ started \in 0..MaxOps /\ crashes \in 0..MaxCrashes

Unread == [files |-> -1, mark |-> -1]

Init ==
  /\ file = [i \in Ids |-> IF i \in DOMAIN Initial THEN Initial[i] ELSE Absent]
  /\ mark = 0
  /\ listLock = None /\ taskLock = [i \in Ids |-> None]
  /\ at = [p \in Procs |-> "idle"] /\ op = [p \in Procs |-> None]
  /\ id = [p \in Procs |-> 0] /\ high = [p \in Procs |-> Unread]
  /\ todo = [p \in Procs |-> {}] /\ view = [p \in Procs |-> <<>>]
  /\ mine = [p \in Procs |-> Absent] /\ plan = [p \in Procs |-> <<>>]
  /\ started = 0 /\ crashes = 0
  /\ allocated = [i \in Ids |-> IF i \in DOMAIN Initial THEN 1 ELSE 0]
  /\ winners = [i \in Ids |-> {}]

-----------------------------------------------------------------------------
(* Control                                                                 *)

Goto(p, step) == at' = [at EXCEPT ![p] = step]

\* Fault (OperationsEnd): the operations return without release.
EndKeepingLocks(p) ==
  /\ at' = [at EXCEPT ![p] = "idle"]
  /\ UNCHANGED <<listLock, taskLock>>
  /\ op' = [op EXCEPT ![p] = None] /\ id' = [id EXCEPT ![p] = 0]
  /\ high' = [high EXCEPT ![p] = Unread]
  /\ todo' = [todo EXCEPT ![p] = {}] /\ view' = [view EXCEPT ![p] = <<>>]
  /\ mine' = [mine EXCEPT ![p] = Absent] /\ plan' = [plan EXCEPT ![p] = <<>>]

\* The operation returns or throws: its finally blocks release what it holds,
\* and its locals go out of scope.
End(p) ==
  /\ at' = [at EXCEPT ![p] = "idle"]
  /\ listLock' = IF listLock = p THEN None ELSE listLock
  /\ taskLock' = [i \in Ids |-> IF taskLock[i] = p THEN None ELSE taskLock[i]]
  /\ op' = [op EXCEPT ![p] = None] /\ id' = [id EXCEPT ![p] = 0]
  /\ high' = [high EXCEPT ![p] = Unread]
  /\ todo' = [todo EXCEPT ![p] = {}] /\ view' = [view EXCEPT ![p] = <<>>]
  /\ mine' = [mine EXCEPT ![p] = Absent] /\ plan' = [plan EXCEPT ![p] = <<>>]

\* The operation ends having changed nothing more.
Fail(p) == End(p) /\ UNCHANGED <<disk, history>>

\* Where each operation starts.  about: the task it is called with (unassign: none).
FirstStep == [create |-> "lockList", reset |-> "lockList", delete |-> "readMark",
              claim |-> "check", claimBusy |-> "check", setStatus |-> "updCheck",
              update |-> "look", start |-> "look",
              unassign |-> "list", block |-> "readAll"]

Begin(p, o, about) ==
  /\ at[p] = "idle" /\ started < MaxOps
  /\ started' = started + 1
  /\ op' = [op EXCEPT ![p] = o] /\ id' = [id EXCEPT ![p] = about]
  /\ Goto(p, FirstStep[o])

\* Operations that take no task, and those on one task.
BeginPlain(p) ==
  /\ \E o \in Ops \cap {"create", "reset", "unassign"} : Begin(p, o, 0)
  /\ UNCHANGED <<disk, locks, high, todo, view, mine, plan, crashes, allocated, winners>>
BeginOnTask(p) ==
  /\ \E o \in Ops \cap {"delete", "claim", "claimBusy", "update", "start"}, i \in Ids : Begin(p, o, i)
  /\ UNCHANGED <<disk, locks, high, todo, view, mine, plan, crashes, allocated, winners>>

\* updateTask with a status and nothing read before (the runner after its claim).
BeginSetStatus(p) ==
  /\ "setStatus" \in Ops
  /\ \E i \in Ids :
     /\ Begin(p, "setStatus", i)
     /\ plan' = [plan EXCEPT ![p] = <<[id |-> i, set |-> [status |-> "in_progress"]]>>]
  /\ UNCHANGED <<disk, locks, high, todo, view, mine, crashes, allocated, winners>>

\* blockTask(from, to): id is from, and the two are read in parallel.
BeginBlock(p) ==
  /\ "block" \in Ops
  /\ \E from, to \in Ids :
     /\ from # to /\ Begin(p, "block", from)
     /\ todo' = [todo EXCEPT ![p] = {from, to}]
  /\ UNCHANGED <<disk, locks, high, view, mine, plan, crashes, allocated, winners>>

-----------------------------------------------------------------------------
(* Locks                                                                   *)

LockList(p) ==
  /\ at[p] = "lockList" /\ listLock = None
  /\ listLock' = p
  /\ Goto(p, IF op[p] = "claimBusy" THEN "list" ELSE "highest")
  /\ UNCHANGED <<disk, taskLock, op, id, high, todo, view, mine, plan, history>>

\* The task an update is about: the head of the plan.
Target(p) == IF at[p] = "lockTask" THEN id[p] ELSE Head(plan[p]).id

\* Fault (ClaimStands): the task file is not locked.
LockTaskShared(p) ==
  /\ at[p] \in {"lockTask", "updLock"}
  /\ file[Target(p)] # Absent
  /\ Goto(p, IF at[p] = "lockTask" THEN "reread" ELSE "updRead")
  /\ UNCHANGED <<disk, locks, op, id, high, todo, view, mine, plan, history>>

LockTask(p) ==
  /\ at[p] \in {"lockTask", "updLock"}
  /\ file[Target(p)] # Absent /\ taskLock[Target(p)] = None
  /\ taskLock' = [taskLock EXCEPT ![Target(p)] = p]
  /\ Goto(p, IF at[p] = "lockTask" THEN "reread" ELSE "updRead")
  /\ UNCHANGED <<disk, listLock, op, id, high, todo, view, mine, plan, history>>

\* lockfile.lock throws: the file is gone, or the retries are used up.
LockGone(p) ==
  /\ at[p] \in {"lockTask", "updLock"} /\ file[Target(p)] = Absent
  /\ Fail(p)

LockTimesOut(p) ==
  /\ \/ at[p] = "lockList" /\ listLock # None
     \/ at[p] \in {"lockTask", "updLock"} /\ taskLock[Target(p)] # None
  /\ Fail(p)

-----------------------------------------------------------------------------
(* createTask, resetTaskList and the high water mark                       *)

FilesHighest == IF \A i \in Ids : file[i] = Absent THEN 0
                ELSE CHOOSE i \in Ids : file[i] # Absent /\ \A j \in Ids : file[j] # Absent => j <= i
MarkValue == IF mark = Torn THEN 0 ELSE mark

\* findHighestTaskIdFromFiles; createTask reads the mark in parallel.
ReadFiles(p) ==
  /\ at[p] = "highest" /\ high[p].files = -1
  /\ high' = [high EXCEPT ![p].files = FilesHighest]
  /\ Goto(p, IF op[p] = "create" THEN (IF high[p].mark = -1 THEN "highest" ELSE "create")
             ELSE IF FilesHighest > 0 THEN "readMark" ELSE "clear")
  /\ UNCHANGED <<disk, locks, op, id, todo, view, mine, plan, history>>

ReadMarkToCreate(p) ==
  /\ at[p] = "highest" /\ op[p] = "create" /\ high[p].mark = -1
  /\ high' = [high EXCEPT ![p].mark = MarkValue]
  /\ Goto(p, IF high[p].files = -1 THEN "highest" ELSE "create")
  /\ UNCHANGED <<disk, locks, op, id, todo, view, mine, plan, history>>

\* Fault (TypeOK): the mark is the next id, not the highest one given.
ToMarkNext(p) == 1 + (IF op[p] = "delete" THEN id[p] ELSE high[p].files)

\* The number resetTaskList and deleteTask put in the mark if it is higher.
ToMark(p) == IF op[p] = "delete" THEN id[p] ELSE high[p].files
AfterMark(p) == IF op[p] = "delete" THEN "unlink" ELSE "clear"

ReadMark(p) ==
  /\ at[p] = "readMark"
  /\ Goto(p, IF ToMark(p) > MarkValue THEN "markTrunc" ELSE AfterMark(p))
  /\ UNCHANGED <<disk, locks, op, id, high, todo, view, mine, plan, history>>

TruncateMark(p) ==
  /\ at[p] = "markTrunc"
  /\ mark' = Torn
  /\ Goto(p, "markWrite")
  /\ UNCHANGED <<file, locks, op, id, high, todo, view, mine, plan, history>>

WriteMark(p) ==
  /\ at[p] = "markWrite"
  /\ mark' = ToMark(p)
  /\ Goto(p, AfterMark(p))
  /\ UNCHANGED <<file, locks, op, id, high, todo, view, mine, plan, history>>

\* Fault (UniqueIds): the mark is not considered.
NewIdFilesOnly(p) == 1 + high[p].files

\* The id createTask gives: one more than the highest it read.
NewId(p) == 1 + (IF high[p].files > high[p].mark THEN high[p].files ELSE high[p].mark)

TruncateNew(p) ==
  /\ at[p] = "create" /\ NewId(p) <= MaxId
  /\ file' = [file EXCEPT ![NewId(p)] = Torn]
  /\ allocated' = [allocated EXCEPT ![NewId(p)] = @ + 1]
  /\ winners' = [winners EXCEPT ![NewId(p)] = {}]
  /\ Goto(p, "createWrite")
  /\ UNCHANGED <<mark, locks, op, id, high, todo, view, mine, plan, started, crashes>>

NoRoom(p) == at[p] = "create" /\ NewId(p) > MaxId /\ Fail(p)

WriteNew(p) ==
  /\ at[p] = "createWrite"
  /\ file' = [file EXCEPT ![NewId(p)] =
                [owner |-> None, status |-> "pending", blocks |-> {}, blockedBy |-> {}]]
  /\ End(p)
  /\ UNCHANGED <<mark, history>>

\* resetTaskList reads the directory again and unlinks what it finds.
ReadDirToClear(p) ==
  /\ at[p] = "clear"
  /\ todo' = [todo EXCEPT ![p] = {i \in Ids : file[i] # Absent}]
  /\ Goto(p, "unlinkAll")
  /\ UNCHANGED <<disk, locks, op, id, high, view, mine, plan, history>>

UnlinkOne(p) ==
  /\ at[p] = "unlinkAll"
  /\ \E i \in todo[p] : /\ file' = [file EXCEPT ![i] = Absent]
                        /\ todo' = [todo EXCEPT ![p] = @ \ {i}]
                        /\ winners' = [winners EXCEPT ![i] = {}]
  /\ UNCHANGED <<mark, locks, at, op, id, high, view, mine, plan, started, crashes, allocated>>

ResetEnds(p) == at[p] = "unlinkAll" /\ todo[p] = {} /\ Fail(p)

-----------------------------------------------------------------------------
(* deleteTask, and the reading of the list                                 *)

Unlink(p) ==
  /\ at[p] = "unlink" /\ file[id[p]] # Absent
  /\ file' = [file EXCEPT ![id[p]] = Absent]
  /\ winners' = [winners EXCEPT ![id[p]] = {}]
  /\ Goto(p, "list")
  /\ UNCHANGED <<mark, locks, op, id, high, todo, view, mine, plan, started, crashes, allocated>>

UnlinkMissing(p) == at[p] = "unlink" /\ file[id[p]] = Absent /\ Fail(p)

\* listTasks: the directory, then every file in it, in parallel.
ReadDir(p) ==
  /\ at[p] = "list"
  /\ todo' = [todo EXCEPT ![p] = {i \in Ids : file[i] # Absent}]
  /\ Goto(p, "readAll")
  /\ UNCHANGED <<disk, locks, op, id, high, view, mine, plan, history>>

ReadOne(p) ==
  /\ at[p] = "readAll"
  /\ \E i \in todo[p] :
     /\ todo' = [todo EXCEPT ![p] = @ \ {i}]
     /\ view' = [view EXCEPT ![p] = [j \in DOMAIN @ \cup {i} |-> IF j = i THEN file[i] ELSE @[j]]]
     /\ Goto(p, IF todo[p] = {i} THEN "decide" ELSE "readAll")
  /\ UNCHANGED <<disk, locks, op, id, high, mine, plan, history>>

ReadNone(p) ==
  /\ at[p] = "readAll" /\ todo[p] = {}
  /\ Goto(p, "decide")
  /\ UNCHANGED <<disk, locks, op, id, high, todo, view, mine, plan, history>>

-----------------------------------------------------------------------------
(* claimTask and claimTaskWithBusyCheck                                    *)

\* The check before any lock.
Check(p) ==
  /\ at[p] = "check"
  /\ IF Parses(file[id[p]])
     THEN /\ Goto(p, IF op[p] = "claim" THEN "lockTask" ELSE "lockList")
          /\ UNCHANGED <<disk, locks, op, id, high, todo, view, mine, plan, history>>
     ELSE Fail(p)

\* May p claim a task with this content?
Claimable(p, c) == Parses(c) /\ c.owner \in {None, p} /\ c.status # "completed"

\* The checks of claimTask under the task's lock.
Reread(p) ==
  /\ at[p] = "reread"
  /\ IF Claimable(p, file[id[p]])
     THEN /\ mine' = [mine EXCEPT ![p] = file[id[p]]]
          /\ Goto(p, "list")
          /\ UNCHANGED <<disk, locks, op, id, high, todo, view, plan, history>>
     ELSE Fail(p)

\* The tasks of the list p has read that are not completed.
Open(p) == {i \in DOMAIN view[p] : Parses(view[p][i]) /\ view[p][i].status # "completed"}
Busy(p) == \E i \in Open(p) \ {id[p]} : view[p][i].owner = p

GoUpdate(p, updates, step) ==
  /\ plan' = [plan EXCEPT ![p] = updates]
  /\ view' = [view EXCEPT ![p] = <<>>] /\ mine' = [mine EXCEPT ![p] = Absent]
  /\ Goto(p, step)
  /\ UNCHANGED <<disk, locks, op, id, high, todo, history>>

OwnIt(p) == <<[id |-> id[p], set |-> [owner |-> p]]>>

\* claimTask writes under the lock it holds; the variant with the busy check
\* calls updateTask, which takes the task's lock now.
DecideClaim(p) ==
  /\ at[p] = "decide" /\ op[p] = "claim"
  /\ IF mine[p].blockedBy \cap Open(p) = {} THEN GoUpdate(p, OwnIt(p), "updRead") ELSE Fail(p)

DecideClaimBusy(p) ==
  /\ at[p] = "decide" /\ op[p] = "claimBusy"
  /\ IF /\ id[p] \in DOMAIN view[p] /\ Claimable(p, view[p][id[p]])
        /\ view[p][id[p]].blockedBy \cap Open(p) = {} /\ ~Busy(p)
     THEN GoUpdate(p, OwnIt(p), "updCheck") ELSE Fail(p)

-----------------------------------------------------------------------------
(* What the other operations do with the list                              *)

\* updateTask calls for the ids in S, with the patch each of them gets.
Updates(S, Set(_)) == LET s == SetToSeq(S) IN [n \in DOMAIN s |-> [id |-> s[n], set |-> Set(s[n])]]
MakeAll(p, updates) == IF updates = <<>> THEN Fail(p) ELSE GoUpdate(p, updates, "updCheck")

\* deleteTask removes the references it saw.
DecideDelete(p) ==
  /\ at[p] = "decide" /\ op[p] = "delete"
  /\ LET refers(i) == Parses(view[p][i]) /\ id[p] \in view[p][i].blocks \cup view[p][i].blockedBy
         Without(i) == [blocks |-> view[p][i].blocks \ {id[p]},
                        blockedBy |-> view[p][i].blockedBy \ {id[p]}]
     IN MakeAll(p, Updates({i \in DOMAIN view[p] : refers(i)}, Without))

\* unassignTeammateTasks for some teammate that terminated.
DecideUnassign(p) ==
  /\ at[p] = "decide" /\ op[p] = "unassign"
  /\ \E q \in Procs \ {p} :
       LET Free(i) == [owner |-> None, status |-> "pending"]
       IN MakeAll(p, Updates({i \in Open(p) : view[p][i].owner = q}, Free))

\* blockTask adds to what it read before any lock.
DecideBlock(p) ==
  /\ at[p] = "decide" /\ op[p] = "block"
  /\ LET from == id[p]
         to == CHOOSE i \in DOMAIN view[p] : i # from
         source == IF to \in view[p][from].blocks THEN <<>>
                   ELSE <<[id |-> from, set |-> [blocks |-> view[p][from].blocks \cup {to}]]>>
         target == IF from \in view[p][to].blockedBy THEN <<>>
                   ELSE <<[id |-> to, set |-> [blockedBy |-> view[p][to].blockedBy \cup {from}]]>>
     IN IF Parses(view[p][from]) /\ Parses(view[p][to])
        THEN MakeAll(p, source \o target) ELSE Fail(p)

-----------------------------------------------------------------------------
(* TaskUpdate: what it writes depends on what it read before any lock      *)

\* A call gives a status, an owner (None: nobody's name), both, or neither.
Requests == [status : TaskStatus] \cup [owner : Procs \cup {None}]
            \cup [status : TaskStatus, owner : Procs \cup {None}]

\* The call starts a task read as nobody's: its agent becomes the owner.
Joins(seen, given) ==
  seen.owner = None /\ DOMAIN given = {"status"} /\ given["status"] = "in_progress"

\* The fields it writes are those that differ from what it read.
Patch(p, seen, given) ==
  LET asked == IF Joins(seen, given) THEN [status |-> "in_progress", owner |-> p] ELSE given
  IN [f \in {g \in DOMAIN asked : asked[g] # seen[g]} |-> asked[f]]

Calls(p, seen) == IF op[p] = "start" THEN {[status |-> "in_progress"]}
                  ELSE {given \in Requests : ~Joins(seen, given)}

\* An empty patch is one of fields left out here, or the call writes nothing; and
\* the hooks may refuse a completion.
Look(p) ==
  /\ at[p] = "look"
  /\ IF Parses(file[id[p]])
     THEN \E given \in Calls(p, file[id[p]]) :
       LET set == Patch(p, file[id[p]], given)
       IN \/ GoUpdate(p, <<[id |-> id[p], set |-> set]>>, "updCheck")
          \/ DOMAIN set = {} /\ Fail(p)
          \/ "status" \in DOMAIN set /\ set["status"] = "completed" /\ Fail(p)
     ELSE Fail(p)

-----------------------------------------------------------------------------
(* updateTask and updateTaskUnsafe, for the head of the plan               *)

\* The call returns (null or the task): the next one, or the operation ends.  A
\* claim is a success then, whatever the update returned.  told: the winners
\* but for this claim.
Return(p, told) ==
  IF Len(plan[p]) > 1
  THEN /\ plan' = [plan EXCEPT ![p] = Tail(@)]
       /\ taskLock' = [i \in Ids |-> IF taskLock[i] = p THEN None ELSE taskLock[i]]
       /\ mine' = [mine EXCEPT ![p] = Absent]
       /\ Goto(p, "updCheck")
       /\ winners' = told
       /\ UNCHANGED <<listLock, op, id, high, todo, view>>
  ELSE /\ End(p)
       /\ winners' = IF op[p] \in {"claim", "claimBusy"}
                     THEN [told EXCEPT ![id[p]] = @ \cup {p}] ELSE told

UpdateCheck(p) ==
  /\ at[p] = "updCheck"
  /\ IF Parses(file[Target(p)])
     THEN /\ Goto(p, "updLock")
          /\ UNCHANGED <<disk, locks, op, id, high, todo, view, mine, plan, history>>
     ELSE Return(p, winners) /\ UNCHANGED <<disk, started, crashes, allocated>>

\* The task with the fields of an update.
Updated(task, set) == [f \in DOMAIN task |-> IF f \in DOMAIN set THEN set[f] ELSE task[f]]

UpdateRead(p) ==
  /\ at[p] = "updRead"
  /\ IF Parses(file[Target(p)])
     THEN /\ mine' = [mine EXCEPT ![p] = Updated(file[Target(p)], Head(plan[p]).set)]
          /\ Goto(p, "updTrunc")
          /\ UNCHANGED <<disk, locks, op, id, high, todo, view, plan, history>>
     ELSE Return(p, winners) /\ UNCHANGED <<disk, started, crashes, allocated>>

UpdateTruncate(p) ==
  /\ at[p] = "updTrunc"
  /\ file' = [file EXCEPT ![Target(p)] = Torn]
  /\ Goto(p, "updWrite")
  /\ UNCHANGED <<mark, locks, op, id, high, todo, view, mine, plan, history>>

\* The claims that stand after the write: who unassigns or gives an owner asks for it.
Told(p) ==
  IF op[p] \in {"unassign", "update"} /\ "owner" \in DOMAIN Head(plan[p]).set
  THEN [winners EXCEPT ![Target(p)] = @ \cap {mine[p].owner}] ELSE winners

UpdateWrite(p) ==
  /\ at[p] = "updWrite"
  /\ file' = [file EXCEPT ![Target(p)] = mine[p]]
  /\ Return(p, Told(p))
  /\ UNCHANGED <<mark, started, crashes, allocated>>

-----------------------------------------------------------------------------
(* Crashes                                                                 *)

\* A process dies; its locks stay until proper-lockfile finds them stale.
Crash(p) ==
  /\ at[p] \notin {"idle", "dead"} /\ crashes < MaxCrashes
  /\ crashes' = crashes + 1
  /\ Goto(p, "dead")
  /\ UNCHANGED <<disk, locks, op, id, high, todo, view, mine, plan, started, allocated, winners>>

StaleLocks(p) ==
  /\ at[p] = "dead" /\ (listLock = p \/ \E i \in Ids : taskLock[i] = p)
  /\ listLock' = IF listLock = p THEN None ELSE listLock
  /\ taskLock' = [i \in Ids |-> IF taskLock[i] = p THEN None ELSE taskLock[i]]
  /\ UNCHANGED <<disk, at, op, id, high, todo, view, mine, plan, history>>

Terminated ==
  /\ \A p \in Procs : at[p] \in {"idle", "dead"} /\ (at[p] = "idle" => started = MaxOps)
  /\ UNCHANGED vars

Step(p) ==
  \/ LockList(p) \/ LockTask(p) \/ LockGone(p)
  \/ ReadFiles(p) \/ ReadMarkToCreate(p) \/ ReadMark(p) \/ TruncateMark(p) \/ WriteMark(p)
  \/ TruncateNew(p) \/ NoRoom(p) \/ WriteNew(p) \/ ReadDirToClear(p) \/ UnlinkOne(p)
  \/ ResetEnds(p) \/ Unlink(p) \/ UnlinkMissing(p) \/ ReadDir(p) \/ ReadOne(p) \/ ReadNone(p)
  \/ Check(p) \/ Reread(p) \/ DecideClaim(p) \/ DecideClaimBusy(p)
  \/ DecideDelete(p) \/ DecideUnassign(p) \/ DecideBlock(p) \/ Look(p)
  \/ UpdateCheck(p) \/ UpdateRead(p) \/ UpdateTruncate(p) \/ UpdateWrite(p)

Begins(p) == BeginPlain(p) \/ BeginOnTask(p) \/ BeginSetStatus(p) \/ BeginBlock(p)

Next == \/ \E p \in Procs : Begins(p) \/ Step(p) \/ LockTimesOut(p) \/ Crash(p) \/ StaleLocks(p)
        \/ Terminated

Spec == Init /\ [][Next]_vars

-----------------------------------------------------------------------------
(* Fairness: a process that is not dead goes on, and a lock that its dead  *)
(* holder left is found stale.  LockTimesOut is not assumed: no operation  *)
(* may need its retries to run out.                                        *)
FairSpec == Spec /\ \A p \in Procs : WF_vars(Step(p)) /\ WF_vars(StaleLocks(p))

-----------------------------------------------------------------------------
(* Properties                                                              *)

\* createTask never gives an id twice, through resets and crashes of the
\* processes that write the files and the mark (the list lock).
UniqueIds == \A i \in Ids : allocated[i] <= 1

\* An agent that was told its claim succeeded is the owner until somebody
\* unassigns it or gives it to another: no second claim, no new status or
\* dependency, whatever they read before, takes the task away or forgets the
\* owner (the task lock, and the reading again under it).  TaskUpdate can break
\* it by joining its agent to a task it read before the claim (op start).
ClaimStands ==
  \A i \in Ids, p \in Procs : p \in winners[i] /\ Parses(file[i]) => file[i].owner = p

\* Every operation ends although nobody gives up waiting for a lock: two
\* operations never wait for each other, and dead holders do not block the rest.
OperationsEnd == \A p \in Procs : at[p] # "idle" ~> at[p] \in {"idle", "dead"}
=============================================================================
