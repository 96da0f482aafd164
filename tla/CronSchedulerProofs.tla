------------------------- MODULE CronSchedulerProofs -------------------------
(***************************************************************************)
(* Proofs about the two halves of utils/cronScheduler.ts: which session    *)
(* drives (SchedulerLock), and what the driver does to the file of tasks   *)
(* (CronTasks), which takes the lock for what is proved of it here.        *)
(***************************************************************************)
EXTENDS SchedulerLock, CronTasks, FilteringTheorems, FiniteSetTheorems

-----------------------------------------------------------------------------
(* SchedulerLock, for any processes and sessions.  The argument: as long   *)
(* as nobody removed the lock of another, a process that drives, or that   *)
(* has opened the file to write its name, is the one the file belongs to;  *)
(* and a process gives a lock back only when it does not drive and does    *)
(* not try to any more.                                                    *)

Types ==
  /\ lock \in Lock
  /\ process \in [Procs -> {"unborn", "live", "exiting", "dead"}]
  /\ phase \in [Procs -> {"off", "import", "enable", "on", "left"}]
  /\ stopped \in [Procs -> BOOLEAN] /\ isOwner \in [Procs -> BOOLEAN]
  /\ probing \in [Procs -> BOOLEAN] /\ registered \in [Procs -> BOOLEAN]
  /\ acquiring \in [Procs -> {"no", "create", "write", "read", "rewrite", "unlink", "recreate"}]
  /\ releasing \in [Procs -> [Callers -> {"no", "read", "unlink"}]]
  /\ crashes \in 0..MaxCrashes /\ robbed \in BOOLEAN

\* A driver is on, was not stopped, and has no attempt under way; only a driver has
\* its cleanup registered.  A process that is not running has no memory.
Memory ==
  \A p \in Procs :
    /\ isOwner[p] => acquiring[p] = "no" /\ phase[p] = "on" /\ ~stopped[p] /\ ~probing[p]
    /\ probing[p] => phase[p] = "on"
    /\ acquiring[p] # "no" => phase[p] \in {"enable", "on"}
    /\ registered[p] => isOwner[p]
    /\ ~Running(p) => acquiring[p] = "no" /\ ~isOwner[p] /\ ~probing[p] /\ ~registered[p]

\* Who gives a lock back does not try to get one: the scheduler was stopped, or the
\* process is exiting.
Releases ==
  \A p \in Procs : \A c \in Callers : releasing[p][c] # "no" =>
    /\ acquiring[p] = "no" /\ ~probing[p] /\ phase[p] # "import" /\ Running(p)
    /\ c = "scheduler" => stopped[p]
    /\ c = "cleanup" => process[p] = "exiting"

\* A session is run by one process at a time.
OneRunning ==
  \A p, q \in Procs : p # q /\ Identity[p] = Identity[q] => ~(Running(p) /\ Running(q))

\* A file without its text is being written; a process that removed a lock and
\* tries again has none.
Named ==
  /\ \A p \in Procs : lock.by = p => process[p] # "unborn"
  /\ \A p \in Procs : lock.by = p /\ ~lock.written /\ Running(p) => acquiring[p] = "write"
  /\ \A p \in Procs : acquiring[p] = "recreate" => lock.by # p

\* Without robbery the file belongs to whoever drives or writes it, and a resumed
\* session overwrites the lock of a process that is gone.
Held ==
  ~robbed => \A p \in Procs :
    /\ isOwner[p] /\ process[p] = "live" => lock.by = p
    /\ acquiring[p] = "write" => lock.by = p
    /\ acquiring[p] = "rewrite" =>
         lock.by \in Procs /\ ~Running(lock.by) /\ Identity[lock.by] = Identity[p]

IInv == Types /\ Memory /\ Releases /\ OneRunning /\ Named /\ Held /\ NoOrphanLock

-----------------------------------------------------------------------------
LEMMA LockLemma ==
  ASSUME Types
  PROVE  /\ lock.by \in Procs \cup {"nobody"} /\ lock.written \in BOOLEAN
         /\ lock = NoLock <=> lock.by \notin Procs
         /\ \A p \in Procs : [by |-> p, written |-> FALSE] \in Lock /\ p # "nobody"
         /\ NoLock \in Lock /\ NoLock.by = "nobody"
PROOF
<1>1. NoLock \in Lock /\ NoLock.by = "nobody" /\ NoLock.written = FALSE
  BY DEF NoLock, Lock
<1>2. \A p \in Procs : [by |-> p, written |-> FALSE] \in Lock /\ p # "nobody"
  BY LockConstants DEF Lock
<1>3. CASE lock = NoLock
  BY <1>1, <1>2, <1>3
<1>4. CASE lock \in [by : Procs, written : BOOLEAN]
  <2>1. lock.by \in Procs /\ lock.written \in BOOLEAN
    BY <1>4
  <2>. QED  BY <1>1, <1>2, <2>1
<1>. QED  BY <1>3, <1>4 DEF Types, Lock

LEMMA InitLemma == Init => IInv
PROOF
<1>. SUFFICES ASSUME Init PROVE IInv
  OBVIOUS
<1>1. Types
  <2>1. lock \in Lock /\ crashes \in 0..MaxCrashes
    BY LockConstants DEF Init, Lock
  <2>. QED  BY <2>1 DEF Init, Types
<1>2. Memory /\ Releases /\ OneRunning /\ Held
  BY DEF Init, Memory, Releases, OneRunning, Held, Running
<1>3. Named /\ NoOrphanLock
  BY LockConstants DEF Init, Named, NoOrphanLock, NoLock
<1>. QED  BY <1>1, <1>2, <1>3 DEF IInv

LEMMA StartLemma ==
  ASSUME IInv, NEW p \in Procs, Start(p) PROVE IInv'
PROOF
<1>. USE DEF IInv, Start
<1>1. Types'
  BY DEF Types
<1>2. Memory' /\ Releases'
  BY DEF Types, Memory, Releases, Running
<1>3. OneRunning'
  BY LockConstants DEF Types, OneRunning, Running
<1>4. Named'
  BY DEF Types, Named, Running, Memory
<1>5. Held'
  BY DEF Types, Held, Named, Running, Memory
<1>6. NoOrphanLock'
  BY LockLemma DEF Types, NoOrphanLock, Named, Running
<1>. QED  BY <1>1, <1>2, <1>3, <1>4, <1>5, <1>6

LEMMA ImportedLemma ==
  ASSUME IInv, NEW p \in Procs, Imported(p) PROVE IInv'
PROOF
<1>. USE DEF IInv, Imported
<1>1. Types'
  BY DEF Types
<1>2. Memory' /\ Releases'
  BY DEF Types, Memory, Releases, Running
<1>3. OneRunning'
  BY DEF OneRunning, Running
<1>4. Named' /\ Held'
  BY DEF Types, Named, Held, Running, Memory
<1>5. NoOrphanLock'
  BY LockLemma DEF Types, NoOrphanLock, Memory, Running
<1>. QED  BY <1>1, <1>2, <1>3, <1>4, <1>5

LEMMA ProbeLemma ==
  ASSUME IInv, NEW p \in Procs, Probe(p) PROVE IInv'
PROOF
<1>. USE DEF IInv, Probe, scheduler
<1>1. Types'
  BY DEF Types
<1>2. Memory' /\ Releases'
  BY DEF Types, Memory, Releases, Running
<1>3. OneRunning'
  BY DEF OneRunning, Running
<1>4. Named' /\ Held'
  BY DEF Types, Named, Held, Running
<1>5. NoOrphanLock'
  BY LockLemma DEF Types, NoOrphanLock, Running
<1>. QED  BY <1>1, <1>2, <1>3, <1>4, <1>5

LEMMA CreateLemma ==
  ASSUME IInv, NEW p \in Procs, Create(p) PROVE IInv'
PROOF
<1>. USE DEF IInv, Create, scheduler
<1>1. Types' /\ lock'.by = p
  BY LockLemma DEF Types
<1>2. Memory' /\ Releases'
  BY DEF Types, Memory, Releases, Running
<1>3. OneRunning'
  BY DEF OneRunning, Running
<1>4. Named'
  BY <1>1, LockLemma DEF Types, Named, Running
<1>5. Held'
  BY <1>1, LockLemma DEF Types, Held, Memory
<1>6. NoOrphanLock'
  BY <1>1 DEF Types, NoOrphanLock, Running
<1>. QED  BY <1>1, <1>2, <1>3, <1>4, <1>5, <1>6

-----------------------------------------------------------------------------
\* What the end of an attempt does to the memory of the process.
LEMMA GrantedLemma ==
  ASSUME IInv, NEW p \in Procs, Running(p), acquiring[p] # "no", Granted(p),
         NEW b \in BOOLEAN, b => ~stopped[p], registered' = [registered EXCEPT ![p] = b]
  PROVE  /\ phase' \in [Procs -> {"off", "import", "enable", "on", "left"}]
         /\ isOwner' \in [Procs -> BOOLEAN] /\ probing' \in [Procs -> BOOLEAN]
         /\ registered' \in [Procs -> BOOLEAN]
         /\ acquiring' \in [Procs -> {"no", "create", "write", "read", "rewrite", "unlink", "recreate"}]
         /\ releasing' \in [Procs -> [Callers -> {"no", "read", "unlink"}]]
         /\ Memory' /\ Releases'
         /\ isOwner'[p] \/ releasing'[p]["scheduler"] # "no"
PROOF
<1>. USE DEF IInv, Granted
<1>1. phase' \in [Procs -> {"off", "import", "enable", "on", "left"}]
      /\ isOwner' \in [Procs -> BOOLEAN] /\ probing' \in [Procs -> BOOLEAN]
      /\ registered' \in [Procs -> BOOLEAN]
      /\ acquiring' \in [Procs -> {"no", "create", "write", "read", "rewrite", "unlink", "recreate"}]
  BY DEF Types
<1>2. releasing' \in [Procs -> [Callers -> {"no", "read", "unlink"}]]
  BY DEF Types
<1>3. Memory'
  BY DEF Types, Memory, Running
<1>4. Releases'
  BY DEF Types, Releases, Memory, Running, Callers
<1>5. isOwner'[p] \/ releasing'[p]["scheduler"] # "no"
  BY DEF Types, Callers
<1>. QED  BY <1>1, <1>2, <1>3, <1>4, <1>5

LEMMA DeniedLemma ==
  ASSUME IInv, NEW p \in Procs, Running(p), acquiring[p] # "no", Denied(p)
  PROVE  /\ phase' \in [Procs -> {"off", "import", "enable", "on", "left"}]
         /\ probing' \in [Procs -> BOOLEAN]
         /\ acquiring' \in [Procs -> {"no", "create", "write", "read", "rewrite", "unlink", "recreate"}]
         /\ Memory' /\ Releases'
PROOF
<1>. USE DEF IInv, Denied
<1>1. Memory'
  BY DEF Types, Memory, Running
<1>2. Releases'
  BY DEF Types, Releases, Running
<1>. QED  BY <1>1, <1>2 DEF Types

LEMMA ExistsLemma ==
  ASSUME IInv, NEW p \in Procs, Exists(p) PROVE IInv'
PROOF
<1>. USE DEF IInv, Exists
<1>1. CASE acquiring[p] = "create" /\ acquiring' = [acquiring EXCEPT ![p] = "read"]
           /\ UNCHANGED <<scheduler, releasing>>
  <2>1. Types' /\ OneRunning'
    BY <1>1 DEF Types, scheduler, OneRunning, Running
  <2>2. Memory' /\ Releases'
    BY <1>1 DEF Types, Memory, Releases, Running, scheduler
  <2>3. Named' /\ Held'
    BY <1>1 DEF Types, Named, Held, Running, scheduler
  <2>4. NoOrphanLock'
    BY <1>1, LockLemma DEF Types, NoOrphanLock, Running, scheduler
  <2>. QED  BY <2>1, <2>2, <2>3, <2>4
<1>2. CASE acquiring[p] = "recreate" /\ Denied(p)
  <2>1. Types' /\ OneRunning' /\ Memory' /\ Releases'
    BY <1>2, DeniedLemma DEF Types, Denied, OneRunning, Running
  <2>2. Named' /\ Held'
    BY <1>2 DEF Types, Named, Held, Running, Denied
  <2>3. NoOrphanLock'
    BY <1>2, LockLemma DEF Types, NoOrphanLock, Running, Denied, Named
  <2>. QED  BY <2>1, <2>2, <2>3
<1>. QED  BY <1>1, <1>2

LEMMA WriteLemma ==
  ASSUME IInv, NEW p \in Procs, Write(p) PROVE IInv'
PROOF
<1>. USE DEF IInv, Write, Registers
<1>1. lock' \in Lock /\ lock'.by = lock.by /\ (lock.by = p => lock'.written)
      /\ (lock.by # p => lock' = lock)
  BY LockLemma DEF Types, Lock
<1>2. Memory' /\ Releases' /\ (isOwner'[p] \/ releasing'[p]["scheduler"] # "no")
  BY GrantedLemma DEF Types
<1>3. Types'
  BY <1>1, GrantedLemma DEF Types, Granted
<1>4. OneRunning'
  BY DEF OneRunning, Running, Granted
<1>5. Named'
  BY <1>1 DEF Types, Named, Running, Granted
<1>6. Held'
  BY <1>1 DEF Types, Held, Running, Granted
<1>7. NoOrphanLock'
  BY <1>1, <1>2, LockLemma DEF Types, NoOrphanLock, Running, Granted, Callers
<1>. QED  BY <1>2, <1>3, <1>4, <1>5, <1>6, <1>7

LEMMA ReadLockLemma ==
  ASSUME IInv, NEW p \in Procs, ReadLock(p) PROVE IInv'
PROOF
<1>. USE DEF IInv, ReadLock
<1>. DEFINE Ours == lock.written /\ Identity[lock.by] = Identity[p]
<1>0. lock.written => lock.by \in Procs
  BY LockLemma DEF NoLock
<1>1. CASE Ours /\ lock.by = p
  <2>1. Granted(p) /\ registered' = [registered EXCEPT ![p] = registered[p] /\ ~stopped[p]]
    BY <1>1
  <2>2. Memory' /\ Releases' /\ (isOwner'[p] \/ releasing'[p]["scheduler"] # "no")
    BY <2>1, GrantedLemma DEF Types
  <2>3. Types' /\ OneRunning'
    BY <2>1, GrantedLemma DEF Types, Granted, OneRunning, Running
  <2>4. Named' /\ Held'
    BY <1>1, <2>1 DEF Types, Named, Held, Running, Granted
  <2>5. NoOrphanLock'
    BY <1>1, <2>1, <2>2, LockLemma DEF Types, NoOrphanLock, Running, Granted, Callers
  <2>. QED  BY <2>2, <2>3, <2>4, <2>5
<1>2. CASE Ours /\ lock.by # p
  <2>1. acquiring' = [acquiring EXCEPT ![p] = "rewrite"] /\ UNCHANGED <<scheduler, releasing>>
    BY <1>2
  <2>2. ~Running(lock.by)
    BY <1>0, <1>2 DEF OneRunning
  <2>3. Types' /\ OneRunning'
    BY <2>1 DEF Types, scheduler, OneRunning, Running
  <2>4. Memory' /\ Releases'
    BY <2>1 DEF Types, Memory, Releases, Running, scheduler
  <2>5. Named' /\ Held'
    BY <1>0, <1>2, <2>1, <2>2 DEF Types, Named, Held, Running, scheduler
  <2>6. NoOrphanLock'
    BY <2>1, LockLemma DEF Types, NoOrphanLock, Running, scheduler
  <2>. QED  BY <2>3, <2>4, <2>5, <2>6
<1>3. CASE ~Ours /\ Denied(p)
  <2>1. Types' /\ OneRunning' /\ Memory' /\ Releases'
    BY <1>3, DeniedLemma DEF Types, Denied, OneRunning, Running
  <2>2. Named' /\ Held'
    BY <1>3 DEF Types, Named, Held, Running, Denied
  <2>3. lock.by # p
    BY <1>3 DEF Named
  <2>4. NoOrphanLock'
    BY <1>3, <2>3, LockLemma DEF Types, NoOrphanLock, Running, Denied
  <2>. QED  BY <2>1, <2>2, <2>4
<1>4. CASE acquiring' = [acquiring EXCEPT ![p] = "unlink"] /\ UNCHANGED <<scheduler, releasing>>
  <2>1. Types' /\ OneRunning'
    BY <1>4 DEF Types, scheduler, OneRunning, Running
  <2>2. Memory' /\ Releases'
    BY <1>4 DEF Types, Memory, Releases, Running, scheduler
  <2>3. Named' /\ Held'
    BY <1>4 DEF Types, Named, Held, Running, scheduler
  <2>4. NoOrphanLock'
    BY <1>4, LockLemma DEF Types, NoOrphanLock, Running, scheduler
  <2>. QED  BY <2>1, <2>2, <2>3, <2>4
<1>. QED  BY <1>1, <1>2, <1>3, <1>4

LEMMA RewriteLemma ==
  ASSUME IInv, NEW p \in Procs, Rewrite(p) PROVE IInv'
PROOF
<1>. USE DEF IInv, Rewrite, scheduler
<1>1. Types' /\ lock'.by = p
  BY LockLemma DEF Types
<1>2. Memory' /\ Releases'
  BY DEF Types, Memory, Releases, Running
<1>3. OneRunning'
  BY DEF OneRunning, Running
<1>4. Named'
  BY <1>1 DEF Types, Named, Running
<1>5. Held'
  BY <1>1 DEF Types, Held, Memory, OneRunning, Running
<1>6. NoOrphanLock'
  BY <1>1 DEF Types, NoOrphanLock, Running
<1>. QED  BY <1>1, <1>2, <1>3, <1>4, <1>5, <1>6

LEMMA UnlinkLemma ==
  ASSUME IInv, NEW p \in Procs, Unlink(p) PROVE IInv'
PROOF
<1>. USE DEF IInv, Unlink, scheduler
<1>1. Types' /\ lock'.by \notin Procs
  BY LockLemma, LockConstants DEF Types
<1>2. Memory' /\ Releases'
  BY DEF Types, Memory, Releases, Running
<1>3. OneRunning'
  BY DEF OneRunning, Running
<1>4. Named' /\ NoOrphanLock'
  BY <1>1, LockLemma DEF Types, Named, NoOrphanLock
<1>5. Held'
  BY LockLemma DEF Types, Held, Memory
<1>. QED  BY <1>1, <1>2, <1>3, <1>4, <1>5

-----------------------------------------------------------------------------
\* A process that finds its own session in the file goes on to unlink it; a file
\* without a text would be one that it is writing.
LEMMA ReleaseReadLemma ==
  ASSUME IInv, NEW p \in Procs, ReleaseRead(p) PROVE IInv'
PROOF
<1>. USE DEF IInv, scheduler
<1>1. PICK c \in Callers :
        /\ releasing[p][c] = "read"
        /\ releasing' = [releasing EXCEPT ![p][c] =
             IF lock.written /\ Identity[lock.by] = Identity[p] THEN "unlink" ELSE "no"]
  BY DEF ReleaseRead
<1>2. UNCHANGED <<lock, scheduler, acquiring, crashes, robbed>> /\ Running(p)
  BY DEF ReleaseRead
<1>3. Types' /\ OneRunning'
  BY <1>1, <1>2 DEF Types, OneRunning, Running
<1>4. Memory' /\ Releases'
  BY <1>1, <1>2 DEF Types, Memory, Releases, Running
<1>5. Named' /\ Held'
  BY <1>2 DEF Types, Named, Held, Running
<1>6. NoOrphanLock'
  <2>1. lock.by = p => lock.written
    BY <1>1, <1>2 DEF Named, Releases
  <2>2. lock.by = p => releasing'[p][c] = "unlink"
    BY <1>1, <2>1 DEF Types
  <2>. QED  BY <1>1, <1>2, <2>2, LockLemma DEF Types, NoOrphanLock, Running
<1>. QED  BY <1>3, <1>4, <1>5, <1>6

LEMMA ReleaseUnlinkLemma ==
  ASSUME IInv, NEW p \in Procs, ReleaseUnlink(p) PROVE IInv'
PROOF
<1>. USE DEF IInv, scheduler
<1>1. PICK c \in Callers :
        releasing[p][c] = "unlink" /\ releasing' = [releasing EXCEPT ![p][c] = "no"]
  BY DEF ReleaseUnlink
<1>2. /\ UNCHANGED <<scheduler, acquiring, crashes>> /\ Running(p)
      /\ lock' = NoLock /\ robbed' = (robbed \/ lock.by \in Procs \ {p})
  BY DEF ReleaseUnlink
<1>3. Types' /\ OneRunning' /\ lock'.by \notin Procs
  BY <1>1, <1>2, LockLemma, LockConstants DEF Types, OneRunning, Running
<1>4. Memory' /\ Releases'
  BY <1>1, <1>2 DEF Types, Memory, Releases, Running
<1>5. Named' /\ NoOrphanLock'
  BY <1>2, <1>3, LockLemma DEF Types, Named, NoOrphanLock
<1>6. Held'
  <2>1. acquiring[p] = "no" /\ ~(isOwner[p] /\ process[p] = "live")
    BY <1>1 DEF Releases, Memory, Callers
  <2>. QED  BY <1>2, <2>1, LockLemma DEF Types, Held
<1>. QED  BY <1>3, <1>4, <1>5, <1>6

LEMMA StopLemma ==
  ASSUME IInv, NEW p \in Procs, Stop(p) PROVE IInv'
PROOF
<1>. USE DEF IInv, Stop
<1>1. Types' /\ OneRunning'
  <2>1. releasing' \in [Procs -> [Callers -> {"no", "read", "unlink"}]]
        /\ registered' \in [Procs -> BOOLEAN]
    <3>1. CASE isOwner[p]
      <4>1. releasing' = [releasing EXCEPT ![p]["scheduler"] = "read"]
        BY <3>1
      <4>2. registered' = [registered EXCEPT ![p] = FALSE]
        BY <3>1
      <4>3. releasing[p] \in [Callers -> {"no", "read", "unlink"}]
        BY DEF Types
      <4>4. releasing' \in [Procs -> [Callers -> {"no", "read", "unlink"}]]
        BY <4>1, <4>3 DEF Types
      <4>. QED  BY <4>2, <4>4 DEF Types
    <3>2. CASE ~isOwner[p]
      BY <3>2 DEF Types
    <3>. QED  BY <3>1, <3>2
  <2>2. stopped' \in [Procs -> BOOLEAN] /\ probing' \in [Procs -> BOOLEAN]
        /\ isOwner' \in [Procs -> BOOLEAN]
    BY DEF Types
  <2>. QED  BY <2>1, <2>2 DEF Types, OneRunning, Running
<1>2. Memory'
  BY DEF Types, Memory, Running
<1>3. Releases'
  BY DEF Types, Memory, Releases, Running, Callers
<1>4. Named' /\ Held'
  BY DEF Types, Named, Held, Running
<1>5. NoOrphanLock'
  BY LockLemma DEF Types, NoOrphanLock, Running, Callers
<1>. QED  BY <1>1, <1>2, <1>3, <1>4, <1>5

LEMMA BeginExitLemma ==
  ASSUME IInv, NEW p \in Procs, BeginExit(p) PROVE IInv'
PROOF
<1>. USE DEF IInv, BeginExit
<1>1. Types' /\ OneRunning'
  BY DEF Types, OneRunning, Running, Callers
<1>2. Memory'
  BY DEF Types, Memory, Running
<1>3. Releases'
  BY DEF Types, Memory, Releases, Running, Callers
<1>4. Named' /\ Held'
  BY DEF Types, Named, Held, Running
<1>5. NoOrphanLock'
  BY LockLemma DEF Types, NoOrphanLock, Running, Callers
<1>. QED  BY <1>1, <1>2, <1>3, <1>4, <1>5

LEMMA GoneLemma ==
  ASSUME IInv, NEW p \in Procs, Gone(p), crashes' \in 0..MaxCrashes PROVE IInv'
PROOF
<1>. USE DEF IInv, Gone
<1>1. Types' /\ OneRunning'
  BY DEF Types, OneRunning, Running
<1>2. Memory' /\ Releases'
  BY DEF Types, Memory, Releases, Running
<1>3. Named' /\ Held'
  BY LockLemma DEF Types, Named, Held, Running
<1>4. NoOrphanLock'
  BY LockLemma DEF Types, NoOrphanLock, Running
<1>. QED  BY <1>1, <1>2, <1>3, <1>4

-----------------------------------------------------------------------------
\* The invariant is inductive.
THEOREM Inductive == Spec => []IInv
PROOF
<1>1. Init => IInv
  BY InitLemma
<1>2. IInv /\ [Next]_vars => IInv'
  <2>. SUFFICES ASSUME IInv, [Next]_vars PROVE IInv'
    OBVIOUS
  <2>1. CASE UNCHANGED vars
    BY <2>1 DEF IInv, vars, scheduler, Types, Memory, Releases, OneRunning, Named, Held,
                NoOrphanLock, Running
  <2>2. ASSUME NEW p \in Procs, Attempt(p)  PROVE IInv'
    BY <2>2, ImportedLemma, ProbeLemma, CreateLemma, ExistsLemma, WriteLemma,
       ReadLockLemma, RewriteLemma, UnlinkLemma DEF Attempt
  <2>3. ASSUME NEW p \in Procs, Release(p)  PROVE IInv'
    BY <2>3, ReleaseReadLemma, ReleaseUnlinkLemma DEF Release
  <2>4. ASSUME NEW p \in Procs, Start(p) \/ Stop(p) \/ BeginExit(p)  PROVE IInv'
    BY <2>4, StartLemma, StopLemma, BeginExitLemma
  <2>5. ASSUME NEW p \in Procs, Exit(p) \/ Crash(p)  PROVE IInv'
    <3>1. Gone(p)
      BY <2>5 DEF Exit, Crash
    <3>2. crashes' \in 0..MaxCrashes
      BY <2>5, LockConstants DEF Exit, Crash, IInv, Types
    <3>. QED  BY <3>1, <3>2, GoneLemma
  <2>. QED  BY <2>1, <2>2, <2>3, <2>4, <2>5 DEF Next
<1>. QED  BY <1>1, <1>2, PTL DEF Spec

\* The variables have their types, and only a session that is passive probes: the
\* timer is cleared on every way to the lock (enable() and the probe's callback).
THEOREM TypeCorrect == Spec => []TypeOK
PROOF
<1>1. IInv => TypeOK
  BY DEF IInv, Types, Memory, TypeOK
<1>. QED  BY <1>1, Inductive, PTL

\* For any number of processes: until one of them removes the lock of another, the
\* exclusive create leaves at most one live driver.
THEOREM OneOwner == Spec => []OneOwnerUntilRobbed
PROOF
<1>1. IInv => OneOwnerUntilRobbed
  <2>. SUFFICES ASSUME IInv, ~robbed
                PROVE  Cardinality({p \in Drivers : process[p] = "live"}) <= 1
    BY DEF OneOwnerUntilRobbed
  <2>. DEFINE Ones == {p \in Drivers : process[p] = "live"}
  <2>1. Ones \subseteq {lock.by}
    BY DEF IInv, Held, Drivers
  <2>2. IsFiniteSet({lock.by}) /\ Cardinality({lock.by}) = 1
    BY FS_Singleton
  <2>3. Cardinality(Ones) <= Cardinality({lock.by})
    BY <2>1, <2>2, FS_Subset
  <2>. QED  BY <2>2, <2>3
<1>. QED  BY <1>1, Inductive, PTL

\* A lock never outlives, in a running process, the attempt or the reign it was
\* made for, however stops, exits and probes interleave with the awaits.
THEOREM NoOrphan == Spec => []NoOrphanLock
PROOF
<1>1. IInv => NoOrphanLock
  BY DEF IInv
<1>. QED  BY <1>1, Inductive, PTL

\* The processes that drive and are not exiting.
Driving == {p \in Drivers : process[p] = "live"}

\* A process comes to drive when nobody does, and goes on until it is stopped or
\* no longer live.
TurnStep ==
  /\ \A p \in Driving' \ Driving : Driving = {}
  /\ \A p \in Driving \ Driving' : stopped'[p] \/ process'[p] # "live"

\* Only an attempt that finds the lock in the name of the process makes it an owner,
\* and an owner ceases to be one when it is stopped or gone.
LEMMA TurnLemma ==
  ASSUME IInv, ~robbed, NEW p \in Procs,
         \/ Start(p) \/ Attempt(p) \/ Release(p)
         \/ Stop(p) \/ BeginExit(p) \/ Exit(p) \/ Crash(p),
         NEW q \in Procs
  PROVE  /\ isOwner'[q] /\ process'[q] = "live" =>
              lock.by = q \/ (isOwner[q] /\ process[q] = "live")
         /\ isOwner[q] /\ process[q] = "live" =>
              isOwner'[q] \/ stopped'[q] \/ process'[q] # "live"
PROOF
<1>. USE DEF IInv, Types
<1>1. CASE Start(p)
  BY <1>1 DEF Start, Memory, Running
<1>2. CASE Imported(p) \/ Probe(p) \/ Create(p) \/ Rewrite(p) \/ Unlink(p)
  BY <1>2 DEF Imported, Probe, Create, Rewrite, Unlink, scheduler
<1>3. CASE Exists(p)
  BY <1>3 DEF Exists, Denied, scheduler
<1>4. CASE Write(p)
  BY <1>4 DEF Write, Granted, Held, Memory
<1>5. CASE ReadLock(p)
  <2>1. UNCHANGED <<isOwner, process>>
        \/ /\ lock.by = p /\ UNCHANGED process
           /\ isOwner' = [isOwner EXCEPT ![p] = ~stopped[p]] /\ UNCHANGED stopped
    BY <1>5 DEF ReadLock, Granted, Denied, scheduler
  <2>2. acquiring[p] # "no"
    BY <1>5 DEF ReadLock
  <2>. QED  BY <2>1, <2>2 DEF Memory
<1>6. CASE Release(p)
  BY <1>6 DEF Release, ReleaseRead, ReleaseUnlink, scheduler
<1>7. CASE Stop(p) \/ BeginExit(p)
  BY <1>7 DEF Stop, BeginExit
<1>8. CASE Exit(p) \/ Crash(p)
  <2>1. Gone(p)
    BY <1>8 DEF Exit, Crash
  <2>2. isOwner' = [isOwner EXCEPT ![p] = FALSE] /\ process' = [process EXCEPT ![p] = "dead"]
    BY <2>1 DEF Gone
  <2>. QED  BY <2>2
<1>. QED  BY <1>1, <1>2, <1>3, <1>4, <1>5, <1>6, <1>7, <1>8 DEF Attempt

\* What CronTasks takes for granted of the lock is what it does, until a process
\* removes the lock of another: a session drives from when the lock is free to when
\* it stops, exits or dies, whatever the others try.
THEOREM DriversTakeTurns == Spec => [][~robbed' => TurnStep]_vars
PROOF
<1>1. IInv /\ [Next]_vars => [~robbed' => TurnStep]_vars
  <2>. SUFFICES ASSUME IInv, Next, ~robbed'  PROVE TurnStep
    OBVIOUS
  <2>1. PICK p \in Procs :
          \/ Start(p) \/ Attempt(p) \/ Release(p)
          \/ Stop(p) \/ BeginExit(p) \/ Exit(p) \/ Crash(p)
    BY DEF Next
  <2>2. ~robbed
    BY <2>1 DEF Start, Attempt, Imported, Probe, Create, Exists, Write, ReadLock, Rewrite,
                Unlink, Release, ReleaseRead, ReleaseUnlink, Stop, BeginExit, Exit, Crash, Gone
  <2>3. ASSUME NEW q \in Procs, isOwner'[q], process'[q] = "live"
        PROVE  lock.by = q \/ (isOwner[q] /\ process[q] = "live")
    BY <2>1, <2>2, <2>3, TurnLemma
  <2>4. ASSUME NEW q \in Procs, isOwner[q], process[q] = "live", ~stopped'[q]
        PROVE  isOwner'[q] \/ process'[q] # "live"
    BY <2>1, <2>2, <2>4, TurnLemma
  <2>5. \A q \in Driving : lock.by = q
    BY <2>2 DEF IInv, Held, Driving, Drivers
  <2>6. /\ Driving = {q \in Procs : isOwner[q] /\ process[q] = "live"}
        /\ Driving' = {q \in Procs : isOwner'[q] /\ process'[q] = "live"}
    BY DEF Driving, Drivers, Running
  <2>7. \A q \in Driving' \ Driving : Driving = {}
    BY <2>3, <2>5, <2>6
  <2>8. \A q \in Driving \ Driving' : stopped'[q] \/ process'[q] # "live"
    BY <2>4, <2>6
  <2>. QED  BY <2>7, <2>8 DEF TurnStep
<1>. QED  BY <1>1, Inductive, PTL DEF Spec

-----------------------------------------------------------------------------
(* CronTasks, for any sessions, tasks, times and edits.  The argument: a   *)
(* task that fired stays in flight until its removal or its stamp is in    *)
(* the file, and a schedule made before does not have it due again; what   *)
(* is scheduled anew comes from the file as it is, unless the tick is      *)
(* late.  While changes of the file follow one another each of them is     *)
(* made to the file as it is.                                              *)

CronTypes ==
  /\ now \in Times /\ file \in Contents /\ torn \in BOOLEAN
  /\ \A w \in writers : w \in Writer
  /\ session \in [Sessions -> {"unborn", "live", "stopped", "dead"}]
  /\ driver \in Sessions \cup {Nobody} /\ owns \in [Sessions -> BOOLEAN]
  /\ changed \in [Sessions -> BOOLEAN]
  /\ tasks \in [Sessions -> Contents]
  /\ nextFireAt \in [Sessions -> [Tasks -> Times \cup {Unset, Never}]]
  /\ inFlight \in [Sessions -> SUBSET Tasks]
  /\ edits \in 0..MaxEdits /\ ends \in 0..MaxEnds
  /\ fired \in [Tasks -> 0..2] /\ lastFire \in [Tasks -> Times \cup {Unset}]
  /\ known \subseteq Tasks /\ early \subseteq Recurring /\ surfaced \subseteq Tasks /\ deleted \subseteq Tasks
  /\ disturbed \in BOOLEAN /\ late \in BOOLEAN

\* The changes of the file that follow a fire.
Settles(w) == w.purpose \in {"fired", "mark"}

\* What is in flight is being removed or stamped, each task by one writer.
Flight ==
  /\ \A w \in writers : Settles(w) => w.ids \subseteq inFlight[w.by]
  /\ \A w, v \in writers :
       Settles(w) /\ Settles(v) /\ w.by = v.by /\ w.ids \cap v.ids # {} => w = v
  /\ \A s \in Sessions : Live(s) =>
       \A t \in inFlight[s] : \E w \in writers : w.by = s /\ Settles(w) /\ t \in w.ids
  /\ \A s \in Sessions : session[s] = "unborn" => inFlight[s] = {}

\* The owner is the driver; a scheduler that is not has nothing scheduled, but for
\* the one-shot tasks that it showed as missed.
Loaded ==
  /\ \A s \in Sessions : owns[s] => driver = s /\ Live(s)
  /\ \A s \in Sessions : ~owns[s] =>
       /\ \A t \in Tasks : nextFireAt[s][t] \in {Unset, Never}
       /\ \A t \in Recurring : nextFireAt[s][t] = Unset

\* Only what has been in the file is loaded, written back to it or fires; what is
\* added has not been in it, and is added by one writer.
Knows ==
  /\ Present(file) \subseteq known
  /\ \A s \in Sessions : Present(tasks[s]) \subseteq known
  /\ \A w \in writers : Present(w.base) \subseteq known
  /\ \A t \in Tasks : fired[t] > 0 \/ lastFire[t] # Unset => t \in known
  /\ \A w \in writers : w.purpose = "add" => w.ids \cap known = {}
  /\ \A w, v \in writers : w.purpose = "add" /\ v.purpose = "add" /\ w.ids \cap v.ids # {} => w = v
  /\ \A w \in writers : w.purpose = "mark" => w.ids \subseteq Recurring

\* Until the file is disturbed it is the owner that removes and stamps.
Drives ==
  ~disturbed => \A w \in writers : Live(w.by) /\ (Settles(w) => owns[w.by])

Past == \A t \in Tasks : lastFire[t] <= now

\* A one-shot task that fired is gone from the file, or its removal is under way;
\* no schedule has it due again.
OneShots ==
  ~disturbed /\ ~late => \A t \in Tasks \ Recurring :
    /\ fired[t] <= 1
    /\ fired[t] > 0 => \/ t \notin Present(file)
                       \/ \E w \in writers : w.purpose = "fired" /\ t \in w.ids
    /\ fired[t] > 0 => \A s \in Sessions : nextFireAt[s][t] \in {Unset, Never}

\* A recurring task that fired is stamped, or will be, with a time not before the
\* fire; no schedule is due before the match that follows it.
Recurs ==
  ~disturbed /\ ~late =>
    /\ early = {}
    /\ \A t \in Recurring : lastFire[t] # Unset =>
         /\ \/ t \notin Present(file)
            \/ file[t].last >= lastFire[t]
            \/ \E w \in writers : Settles(w) /\ t \in w.ids
         /\ \A w \in writers : w.purpose = "mark" /\ t \in w.ids => w.time >= lastFire[t]
         /\ \A s \in Sessions :
              nextFireAt[s][t] = Unset \/ nextFireAt[s][t] >= NextRun(t, lastFire[t])

\* The user knows why a task is gone.
Told(t) ==
  IF t \in Recurring THEN MaxAge > 0 /\ lastFire[t] >= MaxAge
  ELSE fired[t] > 0 \/ t \in surfaced

Explained ==
  /\ \A w \in writers : w.purpose \in {"fired", "missed"} => \A t \in w.ids : Told(t)
  /\ \A w \in writers : w.purpose = "delete" => w.ids \subseteq deleted
  /\ ~disturbed => \A t \in known \ (Present(file) \cup deleted) : Told(t)

CronInv ==
  /\ CronTypes /\ Flight /\ Loaded /\ Knows /\ Drives /\ Past
  /\ OneShots /\ Recurs /\ Explained

-----------------------------------------------------------------------------
LEMMA TimeLemma ==
  /\ Times \subseteq Nat /\ Never \in Nat /\ 0 \in Times /\ Unset \notin Times \cup {Never}
  /\ Unset \in Int /\ \A n \in Times : n < Never /\ n >= 0 /\ n > Unset
PROOF
  BY CronConstants DEF Times, Never, Unset

\* The next match is a time, or never; that after a later time is not earlier.
LEMMA NextRunLemma ==
  ASSUME NEW t \in Tasks
  PROVE  /\ \A from \in Times : NextRun(t, from) \in Times \cup {Never}
         /\ \A from, to \in Times : from <= to => NextRun(t, from) <= NextRun(t, to)
PROOF
<1>. DEFINE runs(from) == {m \in Matches[t] : m > from} \cup {Never}
<1>1. Matches[t] \subseteq Nat
  BY CronConstants
<1>2. ASSUME NEW from \in Times
      PROVE  NextRun(t, from) \in runs(from) /\ \A n \in runs(from) : NextRun(t, from) <= n
  <2>1. runs(from) \subseteq Nat /\ runs(from) # {}
    BY <1>1, TimeLemma
  <2>2. \E m \in runs(from) : \A n \in runs(from) : m <= n
    BY <2>1, Least
  <2>. QED  BY <2>2 DEF NextRun
<1>3. ASSUME NEW from \in Times PROVE NextRun(t, from) \in Times \cup {Never}
  <2>1. NextRun(t, from) \in Nat /\ NextRun(t, from) <= Never
    BY <1>1, <1>2, <1>3, TimeLemma
  <2>. QED  BY <2>1, CronConstants DEF Times, Never
<1>4. ASSUME NEW from \in Times, NEW to \in Times, from <= to
      PROVE  NextRun(t, from) <= NextRun(t, to)
  <2>1. runs(to) \subseteq runs(from)
    BY <1>1, <1>4, TimeLemma
  <2>2. NextRun(t, to) \in runs(from)
    BY <1>2, <2>1
  <2>. QED  BY <1>2, <2>2
<1>. QED  BY <1>3, <1>4

LEMMA ContentsLemma ==
  /\ Absent \notin Stamped /\ Empty \in Contents /\ Present(Empty) = {}
  /\ \A c \in Contents : \A t \in Present(c) : t \in Tasks /\ c[t] \in Stamped
  /\ \A n \in Times : [created |-> n, last |-> n] \in Stamped
PROOF
<1>1. Absent \notin Stamped
  BY CronConstants, TimeLemma DEF Stamped
<1>. QED  BY <1>1 DEF Empty, Contents, Present, Stamped

LEMMA ReadLemma ==
  ASSUME CronTypes PROVE Read \in Contents /\ (~torn => Read = file) /\ Read \in {file, Empty}
PROOF
  BY ContentsLemma DEF CronTypes, Read

\* A change of the file that begins now.
Begun(w, s, purpose, ids) ==
  /\ w \in Writer /\ w.by = s /\ w.purpose = purpose /\ w.ids = ids
  /\ w.time = now /\ w.base = Empty

LEMMA BeginsLemma ==
  ASSUME CronTypes, NEW s \in Sessions, NEW purpose \in Purposes, NEW ids \in SUBSET Tasks
  PROVE  Begun(Begins(s, purpose, ids), s, purpose, ids)
PROOF
  BY ContentsLemma DEF CronTypes, Begins, Begun, Writer

LEMMA CronInitLemma == CronInit => CronInv
PROOF
<1>. SUFFICES ASSUME CronInit PROVE CronInv
  OBVIOUS
<1>. USE TimeLemma, ContentsLemma
<1>1. CronTypes
  <2>1. known \subseteq Tasks
    BY CronConstants DEF CronInit
  <2>2. file \in Contents
    <3>1. [created |-> 0, last |-> 0] \in Stamped
      OBVIOUS
    <3>. QED  BY <3>1 DEF CronInit, Contents
  <2>3. tasks \in [Sessions -> Contents]
    BY DEF CronInit
  <2>4. edits \in 0..MaxEdits /\ ends \in 0..MaxEnds
    BY CronConstants DEF CronInit
  <2>5. nextFireAt \in [Sessions -> [Tasks -> Times \cup {Unset, Never}]]
    BY DEF CronInit
  <2>6. /\ session \in [Sessions -> {"unborn", "live", "stopped", "dead"}]
        /\ owns \in [Sessions -> BOOLEAN] /\ changed \in [Sessions -> BOOLEAN]
        /\ inFlight \in [Sessions -> SUBSET Tasks]
        /\ fired \in [Tasks -> 0..2] /\ lastFire \in [Tasks -> Times \cup {Unset}]
    BY DEF CronInit
  <2>7. /\ now \in Times /\ torn \in BOOLEAN /\ writers = {}
        /\ disturbed \in BOOLEAN /\ late \in BOOLEAN
        /\ driver \in Sessions \cup {Nobody}
        /\ early \subseteq Recurring /\ surfaced \subseteq Tasks /\ deleted \subseteq Tasks
    BY DEF CronInit
  <2>. QED  BY <2>1, <2>2, <2>3, <2>4, <2>5, <2>6, <2>7 DEF CronTypes
<1>2. Present(file) = known
  <2>1. known \subseteq Tasks
    BY CronConstants DEF CronInit
  <2>. QED  BY <2>1 DEF CronInit, Present
<1>3. Flight /\ Loaded /\ Drives
  BY CronConstants DEF CronInit, Flight, Loaded, Drives
<1>4. Knows /\ OneShots
  BY <1>2 DEF CronInit, Knows, OneShots
<1>5. Past
  BY DEF CronInit, Past
<1>6. Recurs /\ Explained
  BY <1>2, CronConstants DEF CronInit, Recurs, Explained
<1>. QED  BY <1>1, <1>3, <1>4, <1>5, <1>6 DEF CronInv

-----------------------------------------------------------------------------
LEMMA TickLemma == ASSUME CronInv, Tick PROVE CronInv'
PROOF
<1>. USE DEF Tick, disk, memory, bounds, history, faults
<1>1. CronTypes'
  BY CronConstants DEF CronInv, CronTypes, Times, Contents, Stamped, Writer
<1>2. Flight' /\ Loaded' /\ Drives'
  BY DEF CronInv, Flight, Loaded, Drives, Live, Settles
<1>3. Knows' /\ OneShots' /\ Explained'
  BY DEF CronInv, Knows, OneShots, Explained, Told, Present
<1>4. Past'
  <2>1. now \in Times /\ \A t \in Tasks : lastFire[t] \in Times \cup {Unset}
    BY DEF CronInv, CronTypes
  <2>2. now \in Int /\ \A t \in Tasks : lastFire[t] \in Int
    BY <2>1, CronConstants DEF Times, Unset
  <2>. QED  BY <2>2 DEF CronInv, Past
<1>5. Recurs'
  BY DEF CronInv, Recurs, Present, Settles
<1>. QED  BY <1>1, <1>2, <1>3, <1>4, <1>5 DEF CronInv

LEMMA ProbeLockLemma == ASSUME CronInv, NEW s \in Sessions, ProbeLock(s) PROVE CronInv'
PROOF
<1>. USE DEF ProbeLock, disk, bounds, history, faults
<1>1. CronTypes'
  BY DEF CronInv, CronTypes
<1>2. Loaded'
  <2>1. \A r \in Sessions : owns[r] => driver = r /\ Live(r)
    BY DEF CronInv, Loaded
  <2>2. \A r \in Sessions : ~owns[r]
    BY <2>1 DEF Free
  <2>. QED  BY <2>2 DEF CronInv, CronTypes, Loaded, Live
<1>3. Drives'
  BY DEF CronInv, CronTypes, Drives, Live, Settles
<1>4. Flight' /\ Past' /\ OneShots' /\ Recurs'
  BY DEF CronInv, Flight, Past, OneShots, Recurs, Live, Settles, Present
<1>5. Knows' /\ Explained'
  BY DEF CronInv, Knows, Explained, Told, Present
<1>. QED  BY <1>1, <1>2, <1>3, <1>4, <1>5 DEF CronInv

LEMMA ReloadLemma == ASSUME CronInv, NEW s \in Sessions, Reload(s) PROVE CronInv'
PROOF
<1>. USE DEF Reload, disk, bounds, history, faults
<1>1. CronTypes'
  BY ReadLemma DEF CronInv, CronTypes
<1>2. Loaded'
  BY DEF CronInv, Loaded, Live
<1>3. Flight' /\ Drives' /\ Past' /\ OneShots' /\ Recurs'
  BY DEF CronInv, Flight, Drives, Past, OneShots, Recurs, Live, Settles, Present
<1>4. Knows'
  <2>1. Present(Read) \subseteq known
    BY ReadLemma, ContentsLemma DEF CronInv, Knows
  <2>2. \A r \in Sessions : tasks'[r] = IF r = s THEN Read ELSE tasks[r]
    BY DEF CronInv, CronTypes
  <2>. QED  BY <2>1, <2>2 DEF CronInv, Knows, Present
<1>5. Explained'
  BY DEF CronInv, Explained, Told, Present
<1>. QED  BY <1>1, <1>2, <1>3, <1>4, <1>5 DEF CronInv

\* Nothing the invariant says of memory depends on where a change of the file is.
LEMMA EditLemma == ASSUME CronInv, NEW s \in Sessions, Edit(s) PROVE CronInv'
PROOF
<1>. USE DEF Edit, memory, history, faults
<1>1. PICK t \in Tasks :
        \/ /\ t \notin known /\ \A w \in writers : t \notin w.ids
           /\ writers' = writers \cup {Begins(s, "add", {t})} /\ UNCHANGED deleted
        \/ /\ t \in Present(Read) /\ deleted' = deleted \cup {t}
           /\ writers' = writers \cup {Begins(s, "delete", {t})}
  OBVIOUS
<1>2. PICK new \in Writer :
        /\ new.by = s /\ new.ids = {t} /\ new.base = Empty /\ writers' = writers \cup {new}
        /\ \/ /\ new.purpose = "add" /\ t \notin known /\ \A w \in writers : t \notin w.ids
              /\ UNCHANGED deleted
           \/ new.purpose = "delete" /\ deleted' = deleted \cup {t}
  <2>1. CronTypes /\ "add" \in Purposes /\ "delete" \in Purposes
    BY DEF CronInv, Purposes
  <2>. QED  BY <1>1, <2>1, BeginsLemma DEF Begun
<1>3. ~Settles(new) /\ new.purpose \notin {"fired", "missed", "mark"}
  BY <1>2 DEF Settles
<1>4. CronTypes'
  BY <1>2, CronConstants DEF CronInv, CronTypes
<1>5. Flight'
  BY <1>2, <1>3 DEF CronInv, Flight, Live, Settles
<1>6. Loaded' /\ Past'
  BY DEF CronInv, Loaded, Past, Live
<1>7. Knows'
  BY <1>2, <1>3, ContentsLemma DEF CronInv, Knows, Present
<1>8. Drives' /\ OneShots'
  BY <1>2, <1>3 DEF CronInv, Drives, OneShots, Present, Live, Settles
<1>9. Recurs'
  BY <1>2, <1>3 DEF CronInv, Recurs, Present, Settles
<1>10. Explained'
  BY <1>2, <1>3 DEF CronInv, Explained, Told, Present
<1>. QED  BY <1>4, <1>5, <1>6, <1>7, <1>8, <1>9, <1>10 DEF CronInv

-----------------------------------------------------------------------------
(* Changes of the file                                                     *)

\* What the invariant says of a change does not depend on where it is.
LEMMA TruncateLemma == ASSUME CronInv, NEW w \in writers, Truncate(w) PROVE CronInv'
PROOF
<1>. USE DEF Truncate, bounds, history
<1>. DEFINE v == [w EXCEPT !.at = "write"]
<1>1. CronTypes /\ w \in Writer
  BY DEF CronInv, CronTypes
<1>2. /\ v \in Writer /\ v.by = w.by /\ v.purpose = w.purpose /\ v.ids = w.ids
      /\ v.time = w.time /\ v.base = w.base
  BY <1>1 DEF Writer
<1>3. writers' = (writers \ {w}) \cup {v} /\ (Settles(v) <=> Settles(w))
  BY <1>2 DEF Settles
<1>. HIDE DEF v
<1>4. CronTypes'
  BY <1>1, <1>2, <1>3 DEF CronTypes
<1>5. Flight'
  BY <1>2, <1>3 DEF CronInv, Flight, Live, Settles
<1>6. Loaded' /\ Past'
  BY DEF CronInv, Loaded, Past, Live
<1>7. Knows'
  BY <1>2, <1>3 DEF CronInv, Knows, Present
<1>8. disturbed \in BOOLEAN /\ (disturbed => disturbed')
  BY <1>1 DEF CronTypes
<1>9. Drives' /\ OneShots'
  BY <1>2, <1>3, <1>8 DEF CronInv, Drives, OneShots, Present, Live, Settles
<1>10. Recurs'
  BY <1>2, <1>3, <1>8 DEF CronInv, Recurs, Present, Settles
<1>11. Explained'
  BY <1>2, <1>3, <1>8 DEF CronInv, Explained, Told, Present
<1>. QED  BY <1>4, <1>5, <1>6, <1>7, <1>9, <1>10, <1>11 DEF CronInv

\* A change that is over: nothing of it is in flight any more.
LEMMA SettledLemma ==
  ASSUME CronInv, NEW w \in writers, writers' = writers \ {w}, Settled(w), UNCHANGED session
  PROVE  Flight' /\ inFlight' \in [Sessions -> SUBSET Tasks]
PROOF
<1>1. w \in Writer /\ inFlight \in [Sessions -> SUBSET Tasks] /\ \A v \in writers : v.by \in Sessions
  BY DEF CronInv, CronTypes, Writer
<1>2. w.by \in Sessions /\ w.ids \subseteq Tasks
  BY <1>1 DEF Writer
<1>3. \A s \in Sessions : inFlight'[s] = IF s = w.by /\ Settles(w) THEN inFlight[s] \ w.ids ELSE inFlight[s]
  BY <1>1, <1>2 DEF Settled, Settles
<1>4. inFlight' \in [Sessions -> SUBSET Tasks]
  BY <1>1, <1>2 DEF Settled
<1>5. \A v \in writers' : Settles(v) => v.ids \subseteq inFlight'[v.by]
  <2>. SUFFICES ASSUME NEW v \in writers, v # w, Settles(v)
                PROVE  v.ids \subseteq inFlight'[v.by]
    OBVIOUS
  <2>1. v.by \in Sessions /\ v.ids \subseteq inFlight[v.by]
    BY <1>1 DEF CronInv, Flight
  <2>2. v.by = w.by /\ Settles(w) => v.ids \cap w.ids = {}
    BY DEF CronInv, Flight
  <2>. QED  BY <1>3, <2>1, <2>2
<1>6. \A s \in Sessions : Live(s) =>
        \A t \in inFlight'[s] : \E v \in writers' : v.by = s /\ Settles(v) /\ t \in v.ids
  <2>. SUFFICES ASSUME NEW s \in Sessions, Live(s), NEW t \in inFlight'[s]
                PROVE  \E v \in writers' : v.by = s /\ Settles(v) /\ t \in v.ids
    OBVIOUS
  <2>1. t \in inFlight[s] /\ ~(s = w.by /\ Settles(w) /\ t \in w.ids)
    BY <1>3
  <2>2. PICK v \in writers : v.by = s /\ Settles(v) /\ t \in v.ids
    BY <2>1 DEF CronInv, Flight
  <2>. QED  BY <2>1, <2>2
<1>7. \A s \in Sessions : session[s] = "unborn" => inFlight'[s] = {}
  BY <1>3 DEF CronInv, Flight
<1>. QED  BY <1>4, <1>5, <1>6, <1>7 DEF CronInv, Flight, Live, Settles

LEMMA ReadFileLemma == ASSUME CronInv, NEW w \in writers, ReadFile(w) PROVE CronInv'
PROOF
<1>. USE DEF ReadFile, bounds, history
<1>1. CronTypes /\ w \in Writer /\ disturbed \in BOOLEAN
  BY DEF CronInv, CronTypes
<1>2. (disturbed => disturbed') /\ (~disturbed' => ~disturbed /\ Read = file)
  BY <1>1, ReadLemma DEF CronTypes
<1>3. Loaded' /\ Past'
  BY DEF CronInv, Loaded, Past, Live
<1>4. CASE Idle(w)
  <2>1. writers' = writers \ {w} /\ Settled(w) /\ w.purpose # "add" /\ w.ids \cap Present(Read) = {}
    BY <1>4 DEF Idle
  <2>2. Flight' /\ inFlight' \in [Sessions -> SUBSET Tasks]
    BY <2>1, SettledLemma
  <2>3. CronTypes'
    BY <1>1, <2>1, <2>2 DEF CronTypes
  <2>4. Knows' /\ Drives'
    BY <1>2, <2>1 DEF CronInv, Knows, Drives, Present, Live, Settles
  <2>5. OneShots'
    BY <1>2, <2>1 DEF CronInv, OneShots, Present
  <2>6. Recurs'
    BY <1>2, <2>1 DEF CronInv, Recurs, Present, Settles
  <2>7. Explained'
    BY <1>2, <2>1 DEF CronInv, Explained, Told, Present
  <2>. QED  BY <1>3, <2>2, <2>3, <2>4, <2>5, <2>6, <2>7 DEF CronInv
<1>5. CASE ~Idle(w)
  <2>. DEFINE v == [w EXCEPT !.at = "truncate", !.base = Read]
  <2>1. /\ v \in Writer /\ v.by = w.by /\ v.purpose = w.purpose /\ v.ids = w.ids
        /\ v.time = w.time /\ v.base = Read
    BY <1>1, ReadLemma DEF Writer
  <2>2. writers' = (writers \ {w}) \cup {v} /\ (Settles(v) <=> Settles(w)) /\ UNCHANGED inFlight
    BY <1>5, <2>1 DEF Settles
  <2>3. Present(Read) \subseteq known
    BY <1>1, ReadLemma, ContentsLemma DEF CronInv, Knows
  <2>. HIDE DEF v
  <2>4. CronTypes'
    BY <1>1, <2>1, <2>2 DEF CronTypes
  <2>5. Flight'
    BY <2>1, <2>2 DEF CronInv, Flight, Live, Settles
  <2>6. Knows'
    BY <2>1, <2>2, <2>3 DEF CronInv, Knows, Present
  <2>7. Drives' /\ OneShots'
    BY <1>2, <2>1, <2>2 DEF CronInv, Drives, OneShots, Present, Live, Settles
  <2>8. Recurs'
    BY <1>2, <2>1, <2>2 DEF CronInv, Recurs, Present, Settles
  <2>9. Explained'
    BY <1>2, <2>1, <2>2 DEF CronInv, Explained, Told, Present
  <2>. QED  BY <1>3, <2>4, <2>5, <2>6, <2>7, <2>8, <2>9 DEF CronInv
<1>. QED  BY <1>4, <1>5

\* What a change writes: what it does not name it leaves as it was read, and only an
\* addition brings a task that was not there.
LEMMA WrittenLemma ==
  ASSUME CronTypes, NEW w \in writers
  PROVE  /\ Written(w) \in Contents
         /\ \A t \in Tasks \ w.ids : Written(w)[t] = w.base[t]
         /\ Present(Written(w)) \subseteq Present(w.base) \cup (IF w.purpose = "add" THEN w.ids ELSE {})
         /\ w.purpose \in {"fired", "missed", "delete"} => w.ids \cap Present(Written(w)) = {}
         /\ w.purpose = "add" => w.ids \subseteq Present(Written(w))
         /\ w.purpose = "mark" => \A t \in w.ids \cap Present(w.base) :
              t \in Present(Written(w)) /\ Written(w)[t].last = w.time
PROOF
<1>1. w \in Writer
  BY DEF CronTypes
<1>2. /\ w.ids \subseteq Tasks /\ w.base \in Contents /\ w.time \in Times /\ w.purpose \in Purposes
      /\ \A t \in Tasks : w.base[t] \in Stamped \cup {Absent}
  BY <1>1 DEF Writer, Contents
<1>3. \A t \in Tasks : w.base[t] # Absent =>
        [w.base[t] EXCEPT !.last = w.time] \in Stamped /\ [w.base[t] EXCEPT !.last = w.time].last = w.time
  BY <1>2 DEF Stamped
<1>4. [created |-> w.time, last |-> w.time] \in Stamped
  BY <1>2, ContentsLemma
<1>5. Written(w) \in Contents
  BY <1>2, <1>3, <1>4 DEF Written, Contents
<1>6. \A t \in Tasks \ w.ids : Written(w)[t] = w.base[t]
  BY DEF Written
<1>7. \A t \in w.ids : Written(w)[t] =
        IF w.purpose = "add" THEN [created |-> w.time, last |-> w.time]
        ELSE IF w.purpose = "mark" /\ w.base[t] # Absent THEN [w.base[t] EXCEPT !.last = w.time]
        ELSE Absent
  BY <1>2 DEF Written
<1>8. Present(Written(w)) \subseteq Present(w.base) \cup (IF w.purpose = "add" THEN w.ids ELSE {})
  BY <1>2, <1>6, <1>7 DEF Present
<1>9. w.purpose \in {"fired", "missed", "delete"} => w.ids \cap Present(Written(w)) = {}
  BY <1>7 DEF Present
<1>10. w.purpose = "add" => w.ids \subseteq Present(Written(w))
  BY <1>2, <1>4, <1>7, ContentsLemma DEF Present
<1>11. w.purpose = "mark" => \A t \in w.ids \cap Present(w.base) :
         t \in Present(Written(w)) /\ Written(w)[t].last = w.time
  BY <1>2, <1>3, <1>7, ContentsLemma DEF Present
<1>. QED  BY <1>5, <1>6, <1>8, <1>9, <1>10, <1>11

LEMMA WriteFileLemma == ASSUME CronInv, NEW w \in writers, WriteFile(w) PROVE CronInv'
PROOF
<1>. USE DEF WriteFile, bounds
<1>1. CronTypes /\ w \in Writer /\ disturbed \in BOOLEAN
  BY DEF CronInv, CronTypes
<1>2. /\ writers' = writers \ {w} /\ file' = Written(w) /\ file' \in Contents
      /\ known' = known \cup Present(file') /\ UNCHANGED session
  BY <1>1, WrittenLemma
<1>3. ~disturbed' => ~disturbed /\ w.base = file
  BY <1>1
<1>4. Flight' /\ inFlight' \in [Sessions -> SUBSET Tasks]
  BY <1>2, SettledLemma
<1>5. known' \subseteq Tasks
  BY <1>1, <1>2 DEF CronTypes, Present
<1>6. CronTypes'
  BY <1>1, <1>2, <1>4, <1>5 DEF CronTypes, Announced, Live
<1>7. Loaded'
  BY <1>1 DEF CronInv, CronTypes, Loaded, Announced, Live
<1>8. Past'
  BY DEF CronInv, Past
<1>9. Present(w.base) \subseteq known
  BY DEF CronInv, Knows
<1>10. \A v \in writers' : v.purpose = "add" => v.ids \cap Present(file') = {}
  <2>. SUFFICES ASSUME NEW v \in writers', v.purpose = "add", NEW t \in v.ids, t \in Present(file')
                PROVE  FALSE
    OBVIOUS
  <2>1. v \in writers /\ v # w /\ t \notin known
    BY <1>2 DEF CronInv, Knows
  <2>2. w.purpose = "add" /\ t \in w.ids
    BY <1>1, <1>2, <1>9, <2>1, WrittenLemma
  <2>. QED  BY <2>1, <2>2 DEF CronInv, Knows
<1>11. Knows'
  BY <1>2, <1>10 DEF CronInv, Knows
<1>12. Drives'
  BY <1>2, <1>3 DEF CronInv, Drives, Live, Settles
<1>13. ASSUME ~disturbed', NEW t \in known, t \in Tasks
       PROVE  t \in Present(file') => t \in Present(file) /\ (t \in w.ids => w.purpose = "mark")
  <2>1. w.purpose = "add" => t \notin w.ids
    BY <1>13 DEF CronInv, Knows
  <2>2. w.purpose \in {"fired", "missed", "delete", "add", "mark"}
    BY <1>1 DEF Writer, Purposes
  <2>. QED  BY <1>1, <1>2, <1>3, <1>13, <2>1, <2>2, WrittenLemma
<1>14. OneShots'
  <2>. SUFFICES ASSUME ~disturbed', ~late, NEW t \in Tasks \ Recurring, fired[t] > 0, t \in Present(file')
                PROVE  \E v \in writers' : v.purpose = "fired" /\ t \in v.ids
    BY <1>3 DEF CronInv, OneShots
  <2>1. t \in known
    BY DEF CronInv, Knows
  <2>2. t \in Present(file) /\ (t \in w.ids => w.purpose = "mark")
    BY <1>13, <2>1
  <2>3. PICK v \in writers : v.purpose = "fired" /\ t \in v.ids
    BY <1>3, <2>2 DEF CronInv, OneShots
  <2>. QED  BY <1>2, <2>2, <2>3
<1>15. Recurs'
  <2>. SUFFICES ASSUME ~disturbed', ~late, NEW t \in Recurring, lastFire[t] # Unset, t \in Present(file')
                PROVE  \/ file'[t].last >= lastFire[t]
                       \/ \E v \in writers' : Settles(v) /\ t \in v.ids
    BY <1>2, <1>3 DEF CronInv, Recurs, Settles
  <2>1. t \in known /\ t \in Tasks
    BY CronConstants DEF CronInv, Knows
  <2>2. t \in Present(file) /\ (t \in w.ids => w.purpose = "mark")
    BY <1>13, <2>1
  <2>3. CASE t \in w.ids
    <3>1. file'[t].last = w.time
      BY <1>1, <1>2, <1>3, <2>2, <2>3, WrittenLemma
    <3>2. w.time >= lastFire[t]
      BY <1>3, <2>2, <2>3 DEF CronInv, Recurs
    <3>. QED  BY <3>1, <3>2
  <2>4. CASE t \notin w.ids
    <3>1. file'[t] = file[t]
      BY <1>1, <1>2, <1>3, <2>1, <2>4, WrittenLemma
    <3>2. file[t].last >= lastFire[t] \/ \E v \in writers : Settles(v) /\ t \in v.ids
      BY <1>3, <2>2 DEF CronInv, Recurs
    <3>. QED  BY <1>2, <2>4, <3>1, <3>2
  <2>. QED  BY <2>3, <2>4
<1>16. Explained'
  <2>. SUFFICES ASSUME ~disturbed', NEW t \in known', t \notin Present(file'), t \notin deleted
                PROVE  Told(t)
    BY <1>2 DEF CronInv, Explained, Told
  <2>1. t \in known /\ t \in Tasks
    BY <1>1, <1>2 DEF CronTypes
  <2>2. CASE t \notin Present(file)
    BY <1>3, <2>1, <2>2 DEF CronInv, Explained
  <2>3. CASE t \in Present(file)
    <3>1. t \in w.ids
      BY <1>1, <1>2, <1>3, <2>1, <2>3, WrittenLemma DEF Present
    <3>2. w.purpose \notin {"add", "mark"}
      BY <1>1, <1>2, <1>3, <2>3, <3>1, WrittenLemma
    <3>3. w.purpose \in {"fired", "missed", "delete"}
      BY <1>1, <3>2 DEF Writer, Purposes
    <3>. QED  BY <3>1, <3>3 DEF CronInv, Explained
  <2>. QED  BY <2>2, <2>3
<1>. QED  BY <1>4, <1>6, <1>7, <1>8, <1>11, <1>12, <1>14, <1>15, <1>16 DEF CronInv

-----------------------------------------------------------------------------
(* Sessions that come and go                                               *)

LEMMA EnableLemma == ASSUME CronInv, NEW s \in Sessions, Enable(s) PROVE CronInv'
PROOF
<1>. USE DEF Enable, bounds, faults
<1>1. CronTypes /\ Missed(Read) \subseteq Tasks \ Recurring
  BY DEF CronInv, Missed, Present
<1>2. /\ \A w \in writers' \ writers :
           /\ w \in Writer /\ w.by = s /\ w.purpose = "missed"
           /\ w.ids \subseteq Missed(Read) /\ w.base = Empty
      /\ writers \subseteq writers'
  <2>1. "missed" \in Purposes
    BY DEF Purposes
  <2>. QED  BY <1>1, <2>1, BeginsLemma DEF Begun
<1>3. \A w \in writers' \ writers : ~Settles(w)
  BY <1>2 DEF Settles
<1>4. ~Live(s) /\ (\A r \in Sessions : session'[r] = IF r = s THEN "live" ELSE session[r])
  BY <1>1 DEF CronTypes, Live
<1>5. owns[s] \in BOOLEAN /\ Free \in BOOLEAN /\ \A r \in Sessions : owns[r] => ~Free
  BY DEF CronInv, CronTypes, Loaded, Free
<1>6. CronTypes'
  <2>1. \A w \in writers' : w \in Writer
    BY <1>1, <1>2 DEF CronTypes
  <2>2. tasks' \in [Sessions -> Contents]
    BY <1>1, ReadLemma DEF CronTypes
  <2>3. nextFireAt' \in [Sessions -> [Tasks -> Times \cup {Unset, Never}]]
    BY <1>1 DEF CronTypes
  <2>4. owns' \in [Sessions -> BOOLEAN] /\ driver' \in Sessions \cup {Nobody}
    BY <1>1, <1>5 DEF CronTypes
  <2>5. session' \in [Sessions -> {"unborn", "live", "stopped", "dead"}] /\ surfaced' \subseteq Tasks
    BY <1>1 DEF CronTypes
  <2>. QED  BY <1>1, <2>1, <2>2, <2>3, <2>4, <2>5 DEF CronTypes
<1>7. Flight'
  <2>1. inFlight[s] = {}
    BY DEF CronInv, Flight
  <2>. QED  BY <1>2, <1>3, <1>4, <2>1 DEF CronInv, Flight, Live, Settles
<1>8. Loaded'
  <2>1. \A r \in Sessions : r # s => /\ owns'[r] = owns[r] /\ tasks'[r] = tasks[r]
                                   /\ nextFireAt'[r] = nextFireAt[r]
    BY <1>1 DEF CronTypes
  <2>2. owns'[s] = Free /\ \A t \in Recurring : nextFireAt'[s][t] = Unset
    BY <1>1, CronConstants DEF CronTypes
  <2>3. \A t \in Tasks : nextFireAt'[s][t] \in {Unset, Never}
    BY <1>1 DEF CronTypes
  <2>4. \A r \in Sessions : owns'[r] => driver' = r /\ Live(r)'
    BY <1>4, <1>5, <2>1, <2>2 DEF CronInv, Loaded, Live
  <2>. QED  BY <2>1, <2>2, <2>3, <2>4 DEF CronInv, Loaded
<1>9. Knows'
  <2>1. Present(Read) \subseteq known
    BY <1>1, ReadLemma, ContentsLemma DEF CronInv, Knows
  <2>2. \A r \in Sessions : tasks'[r] = IF r = s THEN Read ELSE tasks[r]
    BY <1>1 DEF CronTypes
  <2>. QED  BY <1>2, <2>1, <2>2, ContentsLemma DEF CronInv, Knows, Present
<1>10. Drives' /\ Past'
  BY <1>2, <1>3, <1>4 DEF CronInv, Drives, Past, Live, Settles
<1>13. OneShots'
  <2>1. \A r \in Sessions : \A t \in Tasks :
          nextFireAt'[r][t] = nextFireAt[r][t] \/ nextFireAt'[r][t] \in {Unset, Never}
    BY <1>1 DEF CronTypes
  <2>. QED  BY <1>2, <2>1 DEF CronInv, OneShots, Present
<1>11. Recurs'
  <2>1. \A t \in Recurring : nextFireAt'[s][t] = Unset
    BY <1>1, CronConstants DEF CronTypes
  <2>2. \A r \in Sessions : r # s => nextFireAt'[r] = nextFireAt[r]
    BY <1>1 DEF CronTypes
  <2>3. \A w \in writers' : w.purpose = "mark" => w \in writers
    BY <1>2
  <2>. QED  BY <1>2, <2>1, <2>2, <2>3 DEF CronInv, Recurs, Present
<1>12. Explained'
  BY <1>1, <1>2 DEF CronInv, Explained, Told, Present
<1>. QED  BY <1>6, <1>7, <1>8, <1>9, <1>10, <1>11, <1>12, <1>13 DEF CronInv

\* While the file is not disturbed a session that ends has no change under way, so
\* nothing but its memory goes.
LEMMA EndedLemma ==
  ASSUME CronInv, NEW s \in Sessions, Live(s), NEW how \in {"stopped", "dead"}, Ended(s, how)
  PROVE  /\ \A r \in Sessions : r # s =>
              /\ owns'[r] = owns[r] /\ tasks'[r] = tasks[r]
              /\ nextFireAt'[r] = nextFireAt[r] /\ session'[r] = session[r]
         /\ session'[s] = how /\ ~owns'[s] /\ tasks'[s] = Empty
         /\ \A t \in Tasks : nextFireAt'[s][t] = Unset
         /\ session' \in [Sessions -> {"unborn", "live", "stopped", "dead"}]
         /\ owns' \in [Sessions -> BOOLEAN]
         /\ tasks' \in [Sessions -> Contents]
         /\ nextFireAt' \in [Sessions -> [Tasks -> Times \cup {Unset, Never}]]
PROOF
  BY ContentsLemma DEF CronInv, CronTypes, Ended

LEMMA StopSchedulerLemma == ASSUME CronInv, NEW s \in Sessions, StopScheduler(s) PROVE CronInv'
PROOF
<1>. USE DEF StopScheduler, disk, history
<1>1. /\ \A r \in Sessions : r # s =>
           /\ owns'[r] = owns[r] /\ tasks'[r] = tasks[r]
           /\ nextFireAt'[r] = nextFireAt[r] /\ session'[r] = session[r]
      /\ session'[s] = "stopped" /\ ~owns'[s] /\ tasks'[s] = Empty
      /\ \A t \in Tasks : nextFireAt'[s][t] = Unset
  BY EndedLemma
<1>2. CronTypes /\ "stopped" \in {"stopped", "dead"} /\ Recurring \subseteq Tasks
  BY CronConstants DEF CronInv
<1>3. disturbed \in BOOLEAN /\ (~disturbed' => ~disturbed /\ ~Writing(s))
  BY <1>2 DEF CronTypes
<1>4. CronTypes'
  <2>1. ends' \in 0..MaxEnds /\ driver' \in Sessions \cup {Nobody} /\ disturbed' \in BOOLEAN
    BY <1>2, CronConstants DEF CronTypes, Writing
  <2>2. changed' \in [Sessions -> BOOLEAN]
    BY <1>2 DEF CronTypes
  <2>. QED  BY <1>2, <2>1, <2>2, EndedLemma DEF CronTypes
<1>5. Flight'
  BY <1>1 DEF CronInv, Flight, Live, Settles
<1>6. Loaded'
  <2>1. \A r \in Sessions : Live(r)' <=> r # s /\ Live(r)
    BY <1>1 DEF Live
  <2>2. \A r \in Sessions : owns'[r] => driver' = r /\ Live(r)'
    BY <1>1, <2>1 DEF CronInv, Loaded
  <2>3. \A r \in Sessions : ~owns'[r] =>
          /\ \A t \in Tasks : nextFireAt'[r][t] \in {Unset, Never}
          /\ \A t \in Recurring : nextFireAt'[r][t] = Unset
    BY <1>1, <1>2 DEF CronInv, Loaded
  <2>. QED  BY <2>2, <2>3 DEF Loaded
<1>7. Knows' /\ Past'
  BY <1>1, ContentsLemma DEF CronInv, Knows, Past, Present
<1>11. OneShots'
  BY <1>1, <1>3 DEF CronInv, OneShots, Present
<1>8. Drives'
  BY <1>1, <1>2, <1>3 DEF CronInv, CronTypes, Writer, Drives, Live, Settles, Writing
<1>9. Recurs'
  BY <1>1, <1>2, <1>3 DEF CronInv, Recurs, Present, Settles
<1>10. Explained'
  BY <1>3 DEF CronInv, Explained, Told, Present
<1>. QED  BY <1>4, <1>5, <1>6, <1>7, <1>8, <1>9, <1>10, <1>11 DEF CronInv

LEMMA CrashSessionLemma == ASSUME CronInv, NEW s \in Sessions, CrashSession(s) PROVE CronInv'
PROOF
<1>. USE DEF CrashSession, history
<1>1. /\ \A r \in Sessions : r # s =>
           /\ owns'[r] = owns[r] /\ tasks'[r] = tasks[r]
           /\ nextFireAt'[r] = nextFireAt[r] /\ session'[r] = session[r]
      /\ session'[s] = "dead" /\ ~owns'[s] /\ tasks'[s] = Empty
      /\ \A t \in Tasks : nextFireAt'[s][t] = Unset
  BY EndedLemma
<1>2. CronTypes /\ "dead" \in {"stopped", "dead"} /\ Recurring \subseteq Tasks
  BY CronConstants DEF CronInv
<1>3. /\ disturbed \in BOOLEAN
      /\ ~disturbed' => ~disturbed /\ ~Writing(s) /\ writers' = writers
  BY <1>2 DEF CronTypes, Writing
<1>4. /\ inFlight' \in [Sessions -> SUBSET Tasks] /\ inFlight'[s] = {}
      /\ \A r \in Sessions : r # s => inFlight'[r] = inFlight[r]
  BY <1>2 DEF CronTypes
<1>5. CronTypes'
  <2>1. ends' \in 0..MaxEnds /\ disturbed' \in BOOLEAN
    BY <1>2, CronConstants DEF CronTypes, Writing
  <2>2. changed' \in [Sessions -> BOOLEAN]
    BY <1>2 DEF CronTypes, Live, Halved
  <2>. QED  BY <1>2, <1>4, <2>1, <2>2, EndedLemma DEF CronTypes
<1>6. Flight'
  <2>1. \A w \in writers : w.by \in Sessions
    BY <1>2 DEF CronTypes, Writer
  <2>. QED  BY <1>1, <1>4, <2>1 DEF CronInv, Flight, Live, Settles
<1>7. Loaded'
  <2>1. \A r \in Sessions : Live(r)' <=> r # s /\ Live(r)
    BY <1>1 DEF Live
  <2>2. \A r \in Sessions : owns'[r] => driver' = r /\ Live(r)'
    BY <1>1, <2>1 DEF CronInv, Loaded
  <2>3. \A r \in Sessions : ~owns'[r] =>
          /\ \A t \in Tasks : nextFireAt'[r][t] \in {Unset, Never}
          /\ \A t \in Recurring : nextFireAt'[r][t] = Unset
    BY <1>1, <1>2 DEF CronInv, Loaded
  <2>. QED  BY <2>2, <2>3 DEF Loaded
<1>8. Knows' /\ Past'
  BY <1>1, ContentsLemma DEF CronInv, Knows, Past, Present
<1>9. OneShots'
  BY <1>1, <1>3 DEF CronInv, OneShots, Present
<1>10. Drives'
  BY <1>1, <1>2, <1>3 DEF CronInv, CronTypes, Writer, Drives, Live, Settles, Writing
<1>11. Recurs'
  BY <1>1, <1>2, <1>3 DEF CronInv, Recurs, Present, Settles
<1>12. Explained'
  BY <1>3 DEF CronInv, Explained, Told, Present
<1>. QED  BY <1>5, <1>6, <1>7, <1>8, <1>9, <1>10, <1>11, <1>12 DEF CronInv

-----------------------------------------------------------------------------
(* A tick of check()                                                       *)

\* What a tick sees has been in the file; it is there, as it was loaded, unless the
\* tick comes before the report of a change.
LEMMA SeenLemma ==
  ASSUME CronInv, NEW s \in Sessions, NEW t \in Seen(s)
  PROVE  /\ owns[s] /\ t \in Tasks /\ t \in known
         /\ tasks[s][t] \in Stamped /\ (tasks[s][t] = file[t] => t \in Present(file))
         /\ DueAt(s, t) \in Times \cup {Never}
PROOF
<1>1. owns[s] /\ t \in Present(tasks[s])
  BY DEF Seen
<1>2. tasks[s] \in Contents
  BY DEF CronInv, CronTypes
<1>3. t \in Tasks /\ tasks[s][t] \in Stamped /\ (tasks[s][t] = file[t] => t \in Present(file))
  BY <1>1, <1>2, ContentsLemma DEF Present
<1>4. t \in known
  BY <1>1 DEF CronInv, Knows
<1>5. nextFireAt[s][t] \in Times \cup {Unset, Never} /\ tasks[s][t].last \in Times
  BY <1>3 DEF CronInv, CronTypes, Stamped
<1>6. DueAt(s, t) \in Times \cup {Never}
  BY <1>3, <1>5, NextRunLemma DEF DueAt
<1>. QED  BY <1>1, <1>3, <1>4, <1>6

\* Undisturbed, what is being removed or stamped is in flight in the owner: what is
\* not in flight has been.
LEMMA IdleLemma ==
  ASSUME CronInv, ~disturbed, NEW s \in Sessions, owns[s], NEW t \in Tasks \ inFlight[s],
         NEW w \in writers, Settles(w)
  PROVE  t \notin w.ids
PROOF
<1>1. w.by \in Sessions /\ owns[w.by]
  BY DEF CronInv, CronTypes, Writer, Drives
<1>2. w.by = s
  BY <1>1 DEF CronInv, Loaded
<1>. QED  BY <1>2 DEF CronInv, Flight

\* Undisturbed and not late, a one-shot task that a tick may fire has not fired, or
\* is never due, and a recurring one is not due before the match that follows its
\* last fire.
LEMMA FreshLemma ==
  ASSUME CronInv, ~disturbed, ~late, NEW s \in Sessions, NEW t \in Seen(s) \ inFlight[s],
         t \notin Outdated(s)
  PROVE  /\ t \notin Recurring => fired[t] = 0 \/ nextFireAt[s][t] = Never
         /\ t \in Recurring /\ lastFire[t] # Unset => DueAt(s, t) >= NextRun(t, lastFire[t])
PROOF
<1>1. owns[s] /\ t \in Tasks /\ tasks[s][t] \in Stamped
  BY SeenLemma
<1>5. nextFireAt[s][t] = Unset => t \in Present(file) /\ tasks[s][t] = file[t]
  BY SeenLemma DEF Outdated
<1>2. \A w \in writers : Settles(w) => t \notin w.ids
  BY <1>1, IdleLemma
<1>3. ASSUME t \notin Recurring, nextFireAt[s][t] # Never PROVE fired[t] = 0
  <2>1. \A w \in writers : w.purpose = "fired" => t \notin w.ids
    BY <1>2 DEF Settles
  <2>2. ~(fired[t] > 0)
    BY <1>1, <1>3, <1>5, <2>1 DEF CronInv, OneShots
  <2>3. fired[t] \in 0..2
    BY <1>1 DEF CronInv, CronTypes
  <2>. QED  BY <2>2, <2>3
<1>4. ASSUME t \in Recurring, lastFire[t] # Unset PROVE DueAt(s, t) >= NextRun(t, lastFire[t])
  <2>4. CASE nextFireAt[s][t] = Unset
    <3>1. t \in Present(file) /\ tasks[s][t] = file[t] /\ lastFire[t] \in Times
      BY <1>1, <1>4, <1>5, <2>4 DEF CronInv, CronTypes
    <3>2. file[t].last >= lastFire[t] /\ file[t].last \in Times
      BY <1>1, <1>2, <1>4, <3>1 DEF CronInv, Recurs, Stamped
    <3>3. NextRun(t, lastFire[t]) <= NextRun(t, file[t].last)
      BY <1>1, <3>1, <3>2, NextRunLemma, TimeLemma
    <3>4. NextRun(t, file[t].last) \in Nat /\ NextRun(t, lastFire[t]) \in Nat
      BY <1>1, <3>1, <3>2, NextRunLemma, TimeLemma
    <3>. QED  BY <2>4, <3>1, <3>3, <3>4 DEF DueAt
  <2>5. CASE nextFireAt[s][t] # Unset
    BY <1>4, <2>5 DEF DueAt, CronInv, Recurs
  <2>. QED  BY <2>4, <2>5
<1>. QED  BY <1>3, <1>4

\* A tick begins a removal for each task that ends and a stamp for all that go on.
LEMMA BegunLemma ==
  ASSUME CronInv, NEW s \in Sessions, Check(s)
  PROVE  /\ Fires(s) \subseteq (Seen(s) \ inFlight[s]) /\ GoesOn(s) \subseteq Fires(s) \cap Recurring
         /\ Fires(s) \subseteq Tasks /\ writers \subseteq writers'
         /\ \A w \in writers' \ writers :
              /\ w \in Writer /\ w.by = s /\ w.time = now /\ w.base = Empty /\ Settles(w)
              /\ w.ids \subseteq Fires(s) /\ w.ids # {}
              /\ \/ /\ w.purpose = "fired"
                    /\ \E t \in Fires(s) \ GoesOn(s) : w.ids = {t} /\ w = Begins(s, "fired", {t})
                 \/ w.purpose = "mark" /\ w.ids = GoesOn(s) /\ w = Begins(s, "mark", GoesOn(s))
         /\ \A t \in Fires(s) : \E w \in writers' :
              w.by = s /\ Settles(w) /\ t \in w.ids /\ (t \notin Recurring => w.purpose = "fired")
PROOF
<1>. USE DEF Check
<1>1. CronTypes /\ Fires(s) \subseteq (Seen(s) \ inFlight[s]) /\ GoesOn(s) \subseteq Fires(s) \cap Recurring
  BY DEF CronInv, Fires, GoesOn
<1>2. Fires(s) \subseteq Tasks
  BY <1>1, SeenLemma
<1>3. \A t \in Fires(s) \ GoesOn(s) : Begun(Begins(s, "fired", {t}), s, "fired", {t})
  <2>1. "fired" \in Purposes /\ \A t \in Fires(s) : {t} \in SUBSET Tasks
    BY <1>2 DEF Purposes
  <2>. QED  BY <1>1, <2>1, BeginsLemma
<1>4. Begun(Begins(s, "mark", GoesOn(s)), s, "mark", GoesOn(s))
  <2>1. "mark" \in Purposes /\ GoesOn(s) \in SUBSET Tasks
    BY <1>1, <1>2 DEF Purposes
  <2>. QED  BY <1>1, <2>1, BeginsLemma
<1>5. /\ writers \subseteq writers'
      /\ \A t \in Fires(s) \ GoesOn(s) : Begins(s, "fired", {t}) \in writers'
      /\ GoesOn(s) # {} => Begins(s, "mark", GoesOn(s)) \in writers'
      /\ \A w \in writers' \ writers :
           \/ \E t \in Fires(s) \ GoesOn(s) : w = Begins(s, "fired", {t})
           \/ GoesOn(s) # {} /\ w = Begins(s, "mark", GoesOn(s))
  OBVIOUS
<1>6. \A w \in writers' \ writers :
        /\ w \in Writer /\ w.by = s /\ w.time = now /\ w.base = Empty /\ Settles(w)
        /\ w.ids \subseteq Fires(s) /\ w.ids # {}
        /\ \/ /\ w.purpose = "fired"
              /\ \E t \in Fires(s) \ GoesOn(s) : w.ids = {t} /\ w = Begins(s, "fired", {t})
           \/ w.purpose = "mark" /\ w.ids = GoesOn(s) /\ w = Begins(s, "mark", GoesOn(s))
  <2>. TAKE w \in writers' \ writers
  <2>1. ASSUME w = Begins(s, "mark", GoesOn(s))
        PROVE  /\ w \in Writer /\ w.by = s /\ w.time = now /\ w.base = Empty /\ Settles(w)
               /\ w.purpose = "mark" /\ w.ids = GoesOn(s)
    BY <1>4, <2>1 DEF Begun, Settles
  <2>2. ASSUME NEW t \in Fires(s) \ GoesOn(s), w = Begins(s, "fired", {t})
        PROVE  /\ w \in Writer /\ w.by = s /\ w.time = now /\ w.base = Empty /\ Settles(w)
               /\ w.purpose = "fired" /\ w.ids = {t}
    BY <1>3, <2>2 DEF Begun, Settles
  <2>3. CASE GoesOn(s) # {} /\ w = Begins(s, "mark", GoesOn(s))
    BY <1>1, <2>1, <2>3
  <2>4. CASE \E t \in Fires(s) \ GoesOn(s) : w = Begins(s, "fired", {t})
    <3>1. PICK t \in Fires(s) \ GoesOn(s) : w = Begins(s, "fired", {t})
      BY <2>4
    <3>2. w.ids \subseteq Fires(s) /\ w.ids # {}
      BY <2>2, <3>1
    <3>. QED  BY <2>2, <3>1, <3>2
  <2>. QED  BY <1>5, <2>3, <2>4
<1>7. \A t \in Fires(s) : \E w \in writers' :
        w.by = s /\ Settles(w) /\ t \in w.ids /\ (t \notin Recurring => w.purpose = "fired")
  <2>. TAKE t \in Fires(s)
  <2>1. CASE t \in GoesOn(s)
    BY <1>1, <1>4, <1>5, <2>1 DEF Begun, Settles
  <2>2. CASE t \notin GoesOn(s)
    BY <1>3, <1>5, <2>2 DEF Begun, Settles
  <2>. QED  BY <2>1, <2>2
<1>. QED  BY <1>1, <1>2, <1>5, <1>6, <1>7

LEMMA CheckLemma == ASSUME CronInv, NEW s \in Sessions, Check(s) PROVE CronInv'
PROOF
<1>. USE DEF Check, bounds
<1>. DEFINE begun == writers' \ writers
<1>1. CronTypes /\ Recurring \subseteq Tasks /\ Live(s)
  BY CronConstants DEF CronInv
<1>2. /\ Fires(s) \subseteq (Seen(s) \ inFlight[s]) /\ GoesOn(s) \subseteq Fires(s) \cap Recurring
      /\ Fires(s) \subseteq Tasks /\ writers \subseteq writers'
  BY BegunLemma
<1>3. \A w \in begun :
        /\ w \in Writer /\ w.by = s /\ w.time = now /\ w.base = Empty /\ Settles(w)
        /\ w.ids \subseteq Fires(s) /\ w.ids # {}
        /\ \/ /\ w.purpose = "fired"
              /\ \E t \in Fires(s) \ GoesOn(s) : w.ids = {t} /\ w = Begins(s, "fired", {t})
           \/ w.purpose = "mark" /\ w.ids = GoesOn(s) /\ w = Begins(s, "mark", GoesOn(s))
  BY BegunLemma
<1>4. \A t \in Fires(s) : \E w \in writers' :
        w.by = s /\ Settles(w) /\ t \in w.ids /\ (t \notin Recurring => w.purpose = "fired")
  BY BegunLemma
<1>5. \A t \in Seen(s) : owns[s] /\ t \in known /\ DueAt(s, t) \in Times \cup {Never}
  BY SeenLemma
<1>6. /\ inFlight' \in [Sessions -> SUBSET Tasks] /\ inFlight'[s] = inFlight[s] \cup Fires(s)
      /\ \A r \in Sessions : r # s => inFlight'[r] = inFlight[r]
  BY <1>1, <1>2 DEF CronTypes
<1>7. now \in Times /\ \A t \in Tasks : NextRun(t, now) \in Times \cup {Never}
  BY <1>1, NextRunLemma DEF CronTypes
<1>8. /\ \A t \in Tasks : nextFireAt'[s][t] =
           IF t \notin Seen(s) THEN Unset
           ELSE IF t \in inFlight[s] THEN nextFireAt[s][t]
           ELSE IF t \in GoesOn(s) THEN NextRun(t, now)
           ELSE IF t \in Fires(s) THEN Unset ELSE DueAt(s, t)
      /\ \A r \in Sessions : r # s => nextFireAt'[r] = nextFireAt[r]
      /\ nextFireAt' \in [Sessions -> [Tasks -> Times \cup {Unset, Never}]]
  BY <1>1, <1>5, <1>7 DEF CronTypes
<1>9. \A t \in Tasks :
        /\ fired'[t] = IF t \in Fires(s) \ Recurring THEN Count(fired[t]) ELSE fired[t]
        /\ lastFire'[t] = IF t \in Fires(s) \cap Recurring THEN now ELSE lastFire[t]
  OBVIOUS
<1>10. /\ early' = early \cup
           {t \in Fires(s) \cap Recurring : lastFire[t] # Unset /\ NextRun(t, lastFire[t]) > now}
      /\ UNCHANGED <<now, file, torn, session, driver, owns, changed, tasks>>
      /\ UNCHANGED <<edits, ends, known, surfaced, deleted, disturbed>>
      /\ late \in BOOLEAN /\ late' \in BOOLEAN /\ (~late' => ~late /\ Outdated(s) = {})
  BY <1>1 DEF CronTypes
<1>11. fired' \in [Tasks -> 0..2] /\ lastFire' \in [Tasks -> Times \cup {Unset}]
  <2>1. \A t \in Tasks : fired[t] \in 0..2 /\ Count(fired[t]) \in 0..2
    BY <1>1 DEF CronTypes, Count
  <2>. QED  BY <1>1, <1>7, <2>1 DEF CronTypes
<1>. HIDE DEF Check
<1>12. \A t \in Tasks : Told(t) => Told(t)'
  <2>. SUFFICES ASSUME NEW t \in Tasks, Told(t) PROVE Told(t)'
    OBVIOUS
  <2>1. CASE t \in Recurring
    <3>1. lastFire'[t] >= lastFire[t] /\ lastFire[t] \in Int /\ lastFire'[t] \in Int
      BY <1>10, <1>7, <1>9, CronConstants DEF CronInv, CronTypes, Past, Times, Unset
    <3>. QED  BY <2>1, <3>1, CronConstants DEF Told
  <2>2. CASE t \notin Recurring
    <3>1. fired[t] \in 0..2
      BY <1>10, <1>1 DEF CronTypes
    <3>. QED  BY <1>10, <1>9, <2>2, <3>1 DEF Told, Count
  <2>. QED  BY <2>1, <2>2
<1>13. CronTypes'
  <2>1. \A w \in writers' : w \in Writer
    BY <1>10, <1>1, <1>3 DEF CronTypes
  <2>. QED  BY <1>1, <1>10, <1>11, <1>6, <1>8, <2>1 DEF CronTypes
<1>14. Flight'
  <2>1. \A w \in writers : w.by \in Sessions
    BY <1>10, <1>1 DEF CronTypes, Writer
  <2>2. \A w \in writers' : Settles(w) => w.ids \subseteq inFlight'[w.by]
    BY <1>10, <1>3, <1>6, <2>1 DEF CronInv, Flight
  <2>3. ASSUME NEW w \in writers, NEW v \in begun, Settles(w), w.by = v.by PROVE w.ids \cap v.ids = {}
    BY <1>10, <1>2, <1>3, <2>3 DEF CronInv, Flight
  <2>4. ASSUME NEW w \in begun, NEW v \in begun, NEW t \in w.ids \cap v.ids PROVE w = v
    <3>1. CASE t \in GoesOn(s)
      <4>1. w = Begins(s, "mark", GoesOn(s)) /\ v = Begins(s, "mark", GoesOn(s))
        BY <1>10, <1>3, <3>1
      <4>. QED  BY <4>1
    <3>2. CASE t \notin GoesOn(s)
      <4>1. PICK u \in Fires(s) \ GoesOn(s) : w.ids = {u} /\ w = Begins(s, "fired", {u})
        BY <1>10, <1>3, <3>2
      <4>2. PICK u2 \in Fires(s) \ GoesOn(s) : v.ids = {u2} /\ v = Begins(s, "fired", {u2})
        BY <1>10, <1>3, <3>2
      <4>3. u = t /\ u2 = t
        BY <4>1, <4>2
      <4>. QED  BY <4>1, <4>2, <4>3
    <3>. QED  BY <3>1, <3>2
  <2>5. \A w, v \in writers' :
          Settles(w) /\ Settles(v) /\ w.by = v.by /\ w.ids \cap v.ids # {} => w = v
    BY <2>3, <2>4 DEF CronInv, Flight
  <2>6. \A r \in Sessions : Live(r) =>
          \A t \in inFlight'[r] : \E w \in writers' : w.by = r /\ Settles(w) /\ t \in w.ids
    <3>. SUFFICES ASSUME NEW r \in Sessions, Live(r), NEW t \in inFlight'[r]
                  PROVE  \E w \in writers' : w.by = r /\ Settles(w) /\ t \in w.ids
      OBVIOUS
    <3>1. CASE r = s /\ t \in Fires(s)
      BY <1>10, <1>4, <3>1
    <3>2. CASE ~(r = s /\ t \in Fires(s))
      <4>1. t \in inFlight[r]
        BY <1>10, <1>6, <3>2
      <4>. QED  BY <1>10, <1>2, <4>1 DEF CronInv, Flight
    <3>. QED  BY <3>1, <3>2
  <2>7. \A r \in Sessions : session[r] = "unborn" => inFlight'[r] = {}
    BY <1>10, <1>1, <1>6 DEF CronInv, Flight, Live
  <2>. QED  BY <1>10, <2>2, <2>5, <2>6, <2>7 DEF Flight, Live, Settles
<1>15. Loaded'
  <2>1. ~owns[s] => \A t \in Tasks : nextFireAt'[s][t] = Unset
    BY <1>10, <1>5, <1>8
  <2>. QED  BY <1>10, <1>1, <1>8, <2>1 DEF CronInv, Loaded, Live
<1>16. Knows'
  <2>1. \A t \in Tasks : fired'[t] > 0 \/ lastFire'[t] # Unset => t \in known
    BY <1>10, <1>2, <1>5, <1>9 DEF CronInv, Knows
  <2>2. \A w \in begun : w.purpose # "add" /\ Present(w.base) \subseteq known
    BY <1>10, <1>3, ContentsLemma
  <2>3. \A w \in begun : w.purpose = "mark" => w.ids \subseteq Recurring
    BY <1>10, <1>2, <1>3
  <2>. QED  BY <1>10, <2>1, <2>2, <2>3 DEF CronInv, Knows, Present
<1>17. Past'
  BY <1>10, <1>7, <1>9, CronConstants DEF CronInv, Past, Times
<1>18. Drives'
  <2>1. \A w \in begun : owns[s] /\ w.by = s
    <3>. TAKE w \in begun
    <3>1. Fires(s) # {} => owns[s]
      BY <1>2, <1>5
    <3>. QED  BY <1>3, <3>1
  <2>. QED  BY <1>10, <1>1, <2>1 DEF CronInv, Drives, Live, Settles
<1>19. OneShots'
  <2>. SUFFICES ASSUME ~disturbed, ~late', NEW t \in Tasks \ Recurring
                PROVE  /\ fired'[t] <= 1
                       /\ fired'[t] > 0 => \/ t \notin Present(file)
                                           \/ \E w \in writers' : w.purpose = "fired" /\ t \in w.ids
                       /\ fired'[t] > 0 => \A r \in Sessions : nextFireAt'[r][t] \in {Unset, Never}
    BY <1>10 DEF OneShots, Present
  <2>0. ~late /\ t \notin Outdated(s)
    BY <1>10
  <2>1. CASE t \in Fires(s)
    <3>0. nextFireAt[s][t] # Never
      BY <1>7, <2>1, TimeLemma DEF Fires, DueAt
    <3>1. fired[t] = 0
      BY <1>10, <1>2, <2>0, <2>1, <3>0, FreshLemma
    <3>2. fired'[t] = Count(fired[t])
      BY <1>10, <1>9, <2>1
    <3>3. fired'[t] = 1
      BY <3>1, <3>2 DEF Count
    <3>4. \E w \in writers' : w.purpose = "fired" /\ t \in w.ids
      BY <1>10, <1>4, <2>1
    <3>5. \A r \in Sessions : nextFireAt'[r][t] \in {Unset, Never}
      <4>1. nextFireAt'[s][t] = Unset
        BY <1>2, <1>8, <2>1
      <4>2. \A r \in Sessions : r # s => ~owns[r]
        BY <1>2, <1>5, <2>1 DEF CronInv, Loaded
      <4>. QED  BY <1>8, <4>1, <4>2 DEF CronInv, Loaded
    <3>. QED  BY <3>3, <3>4, <3>5
  <2>2. CASE t \notin Fires(s)
    <3>1. fired'[t] = fired[t] /\ fired[t] \in 0..2
      BY <1>1, <1>9, <2>2 DEF CronTypes
    <3>2. ASSUME fired[t] > 0 PROVE nextFireAt'[s][t] \in {Unset, Never}
      <4>1. t \in Seen(s) \ inFlight[s] => nextFireAt[s][t] = Never
        BY <2>0, <3>1, <3>2, FreshLemma
      <4>2. nextFireAt[s][t] = Never => DueAt(s, t) = Never
        BY TimeLemma DEF DueAt
      <4>3. nextFireAt[s][t] \in {Unset, Never}
        BY <2>0, <3>2 DEF CronInv, OneShots
      <4>. QED  BY <1>2, <1>8, <2>2, <4>1, <4>2, <4>3
    <3>3. ASSUME fired[t] > 0, NEW r \in Sessions PROVE nextFireAt'[r][t] \in {Unset, Never}
      BY <1>8, <2>0, <3>2, <3>3 DEF CronInv, OneShots
    <3>. QED  BY <1>10, <1>2, <2>0, <3>1, <3>3 DEF CronInv, OneShots
  <2>. QED  BY <2>1, <2>2
<1>20. ASSUME ~disturbed, ~late', NEW t \in Fires(s) \cap Recurring
       PROVE  ~(lastFire[t] # Unset /\ NextRun(t, lastFire[t]) > now)
  <2>. SUFFICES ASSUME lastFire[t] # Unset PROVE ~(NextRun(t, lastFire[t]) > now)
    OBVIOUS
  <2>1. DueAt(s, t) >= NextRun(t, lastFire[t])
    BY <1>10, <1>2, <1>20, FreshLemma
  <2>2. DueAt(s, t) <= now
    BY <1>10, <1>20 DEF Fires
  <2>3. lastFire[t] \in Times
    BY <1>10, <1>1 DEF CronTypes
  <2>4. NextRun(t, lastFire[t]) \in Nat /\ DueAt(s, t) \in Nat /\ now \in Nat
    BY <1>10, <1>1, <1>2, <1>5, <1>7, <2>3, NextRunLemma, TimeLemma
  <2>. QED  BY <2>1, <2>2, <2>4
<1>21. Recurs'
  <2>. SUFFICES ASSUME ~disturbed, ~late' PROVE Recurs'
    BY <1>10 DEF Recurs
  <2>0. ~late /\ Outdated(s) = {}
    BY <1>10
  <2>1. early' = {}
    BY <1>10, <1>20, <2>0 DEF CronInv, Recurs
  <2>2. ASSUME NEW t \in Recurring, t \in Fires(s)
        PROVE  /\ \E w \in writers' : Settles(w) /\ t \in w.ids
               /\ \A w \in writers' : w.purpose = "mark" /\ t \in w.ids => w.time >= now
               /\ \A r \in Sessions :
                    nextFireAt'[r][t] = Unset \/ nextFireAt'[r][t] >= NextRun(t, now)
    <3>1. owns[s] /\ t \notin inFlight[s] /\ t \in Seen(s)
      BY <1>10, <1>2, <1>5, <2>2
    <3>2. \A w \in writers : w.purpose = "mark" => t \notin w.ids
      BY <1>10, <1>2, <2>2, <3>1, IdleLemma DEF Settles
    <3>3. \A r \in Sessions : r # s => nextFireAt'[r][t] = Unset
      BY <1>10, <1>8, <3>1 DEF CronInv, Loaded
    <3>4. nextFireAt'[s][t] = Unset \/ nextFireAt'[s][t] = NextRun(t, now)
      BY <1>10, <1>8, <2>2, <3>1, <1>1
    <3>5. now >= now /\ NextRun(t, now) >= NextRun(t, now)
      BY <1>1, <1>7, CronConstants DEF Times, Never
    <3>. QED  BY <1>10, <1>3, <1>4, <2>2, <3>2, <3>3, <3>4, <3>5
  <2>3. ASSUME NEW t \in Recurring, t \notin Fires(s), lastFire[t] # Unset, NEW r \in Sessions
        PROVE  nextFireAt'[r][t] = Unset \/ nextFireAt'[r][t] >= NextRun(t, lastFire[t])
    <3>1. CASE r = s /\ t \in Seen(s) \ inFlight[s]
      BY <1>10, <1>1, <1>2, <1>8, <2>0, <2>3, <3>1, FreshLemma
    <3>2. CASE ~(r = s /\ t \in Seen(s) \ inFlight[s])
      BY <1>10, <1>1, <1>8, <2>0, <2>3, <3>2 DEF CronInv, Recurs
    <3>. QED  BY <3>1, <3>2
  <2>4. ASSUME NEW t \in Recurring, t \notin Fires(s), lastFire[t] # Unset
        PROVE  /\ \/ t \notin Present(file)
                  \/ file[t].last >= lastFire[t]
                  \/ \E w \in writers' : Settles(w) /\ t \in w.ids
               /\ \A w \in writers' : w.purpose = "mark" /\ t \in w.ids => w.time >= lastFire[t]
    BY <1>10, <1>2, <1>3, <2>0, <2>4 DEF CronInv, Recurs
  <2>. QED  BY <1>10, <1>1, <1>9, <2>1, <2>2, <2>3, <2>4 DEF Recurs, Present, Settles
<1>22. Explained'
  <2>1. ASSUME NEW t \in Fires(s), t \notin GoesOn(s) PROVE Told(t)'
    <3>1. t \in Tasks /\ fired[t] \in 0..2
      BY <1>10, <1>1, <1>2 DEF CronTypes
    <3>2. CASE t \in Recurring
      <4>1. MaxAge > 0 /\ now - tasks[s][t].created >= MaxAge
        BY <2>1, <3>2 DEF GoesOn, Aged
      <4>2. tasks[s][t] \in Stamped
        BY <1>10, <1>1, <1>2, SeenLemma
      <4>3. now >= MaxAge
        BY <1>10, <1>7, <4>1, <4>2, CronConstants DEF Stamped, Times
      <4>. QED  BY <1>10, <1>9, <2>1, <3>1, <3>2, <4>1, <4>3 DEF Told
    <3>3. CASE t \notin Recurring
      BY <1>10, <1>9, <2>1, <3>1, <3>3 DEF Told, Count
    <3>. QED  BY <3>2, <3>3
  <2>2. \A w \in writers' : w.purpose \in {"fired", "missed"} => \A t \in w.ids : Told(t)'
    <3>1. \A w \in writers : w.purpose \in {"fired", "missed"} => \A t \in w.ids : t \in Tasks /\ Told(t)
      BY <1>10, <1>1 DEF CronInv, Explained, CronTypes, Writer
    <3>2. \A w \in begun : w.purpose = "fired" => w.ids \cap GoesOn(s) = {}
      BY <1>10, <1>3
    <3>3. \A w \in begun : w.purpose # "missed"
      BY <1>10, <1>3
    <3>4. \A w \in begun : w.purpose = "fired" => \A t \in w.ids : Told(t)'
      BY <1>10, <1>3, <2>1, <3>2
    <3>5. \A w \in writers : w.purpose \in {"fired", "missed"} => \A t \in w.ids : Told(t)'
      BY <1>10, <1>12, <3>1
    <3>. QED  BY <3>3, <3>4, <3>5
  <2>3. \A w \in writers' : w.purpose = "delete" => w.ids \subseteq deleted
    BY <1>10, <1>3 DEF CronInv, Explained
  <2>4. ~disturbed => \A t \in known \ (Present(file) \cup deleted) : Told(t)'
    BY <1>10, <1>1, <1>12 DEF CronInv, Explained, CronTypes
  <2>. QED  BY <1>10, <2>2, <2>3, <2>4 DEF Explained, Present
<1>. QED  BY <1>13, <1>14, <1>15, <1>16, <1>17, <1>18, <1>19, <1>21, <1>22 DEF CronInv

-----------------------------------------------------------------------------
\* The invariant of CronTasks is inductive.
THEOREM CronInvariant == CronSpec => []CronInv
PROOF
<1>1. CronInv /\ [CronNext]_cronVars => CronInv'
  <2>. SUFFICES ASSUME CronInv, [CronNext]_cronVars PROVE CronInv'
    OBVIOUS
  <2>1. CASE Tick
    BY <2>1, TickLemma
  <2>2. CASE Change
    BY <2>2, ReadFileLemma, TruncateLemma, WriteFileLemma DEF Change
  <2>3. ASSUME NEW s \in Sessions, Enable(s) PROVE CronInv'
    BY <2>3, EnableLemma
  <2>4. ASSUME NEW s \in Sessions, Scheduler(s) PROVE CronInv'
    BY <2>4, ProbeLockLemma, ReloadLemma, CheckLemma DEF Scheduler
  <2>5. ASSUME NEW s \in Sessions, Edit(s) PROVE CronInv'
    BY <2>5, EditLemma
  <2>6. ASSUME NEW s \in Sessions, StopScheduler(s) PROVE CronInv'
    BY <2>6, StopSchedulerLemma
  <2>7. ASSUME NEW s \in Sessions, CrashSession(s) PROVE CronInv'
    BY <2>7, CrashSessionLemma
  <2>8. CASE UNCHANGED cronVars
    <3>. USE <2>8 DEF cronVars, disk, memory, bounds, history, faults
    <3>1. CronTypes'
      BY DEF CronInv, CronTypes
    <3>2. Flight' /\ Loaded' /\ Drives' /\ Past' /\ OneShots'
      BY DEF CronInv, Flight, Loaded, Drives, Past, OneShots, Live, Settles, Present
    <3>3. Knows' /\ Recurs' /\ Explained'
      BY DEF CronInv, Knows, Recurs, Explained, Told, Settles, Present
    <3>. QED  BY <3>1, <3>2, <3>3 DEF CronInv
  <2>. QED  BY <2>1, <2>2, <2>3, <2>4, <2>5, <2>6, <2>7, <2>8 DEF CronNext
<1>. QED  BY CronInitLemma, <1>1, PTL DEF CronSpec

\* The types; a scheduler that believes that it is the owner is the driver, and
\* what is in flight is being changed in the file.
THEOREM TypesAreKept == CronSpec => []CronTypeOK
PROOF
<1>1. CronInv => CronTypeOK
  BY DEF CronInv, CronTypes, Flight, Loaded, CronTypeOK, Live
<1>. QED  BY CronInvariant, <1>1, PTL

\* As long as no two changes of the file overlap, no session ends during one, and no
\* tick schedules a task from an entry that was removed or stamped but not reported,
\* nothing fires twice for one match (check(), inFlight and lastFiredAt), whatever
\* sessions take over, reload and forget their schedules, and whatever other ticks
\* come before a report.
THEOREM NothingFiresTwice == CronSpec => []FiresOnce
PROOF
<1>1. CronInv => FiresOnce
  BY DEF CronInv, OneShots, Recurs, FiresOnce
<1>. QED  BY CronInvariant, <1>1, PTL

\* As long as no two changes of the file overlap and no session ends during one, a
\* task leaves the file only when a user deleted it, it fired, was shown as missed,
\* or aged out.
THEOREM NoTaskVanishes == CronSpec => []NothingVanishes
PROOF
<1>1. CronInv => NothingVanishes
  BY DEF CronInv, Explained, Told, NothingVanishes
<1>. QED  BY CronInvariant, <1>1, PTL
=============================================================================
