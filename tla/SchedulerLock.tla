---------------------------- MODULE SchedulerLock ----------------------------
(***************************************************************************)
(* utils/cronTasksLock.ts and the part of utils/cronScheduler.ts that uses *)
(* it: which of the sessions in one project directory drives the cron      *)
(* scheduler.  The lock is a file that names a session and its process.    *)
(* Every file-system call is an action; creating the file with the flag    *)
(* 'wx' and writing its text are two, and others may read in between.      *)
(***************************************************************************)
EXTENDS Integers, FiniteSets

CONSTANTS
  Procs,         \* the processes; a resumed session is a new process
  Identity,      \* the session (or daemon) each process runs
  MaxCrashes,    \* bound: processes that die without cleaning up
  GracefulExits  \* may processes shut down gracefully?

ASSUME LockConstants ==
  /\ Identity \in [Procs -> Nat] /\ MaxCrashes \in Nat /\ GracefulExits \in BOOLEAN
  /\ "nobody" \notin Procs

NoLock == [by |-> "nobody", written |-> FALSE]

VARIABLES
  lock,       \* the lock file: the process that made it, and whether its text is written
  process,    \* each process: unborn, live, exiting (its cleanup runs) or dead
  phase,      \* where enable() is
  stopped,    \* stop() was called
  isOwner,    \* what the scheduler believes
  probing,    \* the probe timer runs
  acquiring,  \* the next file-system call of tryAcquireSchedulerLock
  releasing,  \* that of releaseSchedulerLock, called by the scheduler or by the cleanup
  registered, \* the cleanup is registered
  crashes,
  robbed      \* a lock was removed by another process than its holder

scheduler == <<process, phase, stopped, isOwner, probing, registered>>
vars == <<lock, scheduler, acquiring, releasing, crashes, robbed>>

Callers == {"scheduler", "cleanup"}
Lock == [by : Procs, written : BOOLEAN] \cup {NoLock}

TypeOK ==
  /\ lock \in Lock
  /\ process \in [Procs -> {"unborn", "live", "exiting", "dead"}]
  /\ phase \in [Procs -> {"off", "import", "enable", "on", "left"}]
  /\ stopped \in [Procs -> BOOLEAN] /\ isOwner \in [Procs -> BOOLEAN]
  /\ probing \in [Procs -> BOOLEAN] /\ registered \in [Procs -> BOOLEAN]
  /\ acquiring \in [Procs -> {"no", "create", "write", "read", "rewrite", "unlink", "recreate"}]
  /\ releasing \in [Procs -> [Callers -> {"no", "read", "unlink"}]]
  /\ crashes \in 0..MaxCrashes /\ robbed \in BOOLEAN
  /\ \A p \in Procs : probing[p] => ~isOwner[p] /\ phase[p] = "on"

Init ==
  /\ lock = NoLock
  /\ process = [p \in Procs |-> "unborn"] /\ phase = [p \in Procs |-> "off"]
  /\ stopped = [p \in Procs |-> FALSE] /\ isOwner = [p \in Procs |-> FALSE]
  /\ probing = [p \in Procs |-> FALSE] /\ registered = [p \in Procs |-> FALSE]
  /\ acquiring = [p \in Procs |-> "no"]
  /\ releasing = [p \in Procs |-> [c \in Callers |-> "no"]]
  /\ crashes = 0 /\ robbed = FALSE

Running(p) == process[p] \in {"live", "exiting"}

-----------------------------------------------------------------------------
(* The scheduler: enable, the probe timer, stop                            *)

\* A process starts and enables its scheduler, once.  A session is resumed after
\* the process that ran it is gone.
Start(p) ==
  /\ process[p] = "unborn"
  /\ \A q \in Procs : Identity[q] = Identity[p] => ~Running(q)
  /\ process' = [process EXCEPT ![p] = "live"]
  /\ phase' = [phase EXCEPT ![p] = "import"]
  /\ UNCHANGED <<lock, stopped, isOwner, probing, registered, acquiring, releasing, crashes, robbed>>

\* enable() after its first await.
Imported(p) ==
  /\ Running(p) /\ phase[p] = "import"
  /\ IF stopped[p] THEN phase' = [phase EXCEPT ![p] = "left"] /\ UNCHANGED acquiring
     ELSE /\ phase' = [phase EXCEPT ![p] = "enable"]
          /\ acquiring' = [acquiring EXCEPT ![p] = "create"]
  /\ UNCHANGED <<lock, process, stopped, isOwner, probing, registered, releasing, crashes, robbed>>

\* The probe timer fires.  Five seconds are longer than an attempt takes.
Probe(p) ==
  /\ Running(p) /\ probing[p] /\ acquiring[p] = "no"
  /\ acquiring' = [acquiring EXCEPT ![p] = "create"]
  /\ UNCHANGED <<lock, scheduler, releasing, crashes, robbed>>

\* Fault (NoOrphanLock): enable() does not look at stopped after the lock.
GrantedUnchecked(p) ==
  /\ acquiring' = [acquiring EXCEPT ![p] = "no"]
  /\ phase' = [phase EXCEPT ![p] = "on"]
  /\ isOwner' = [isOwner EXCEPT ![p] = ~stopped[p]]
  /\ probing' = [probing EXCEPT ![p] = FALSE]
  /\ UNCHANGED <<releasing, process, stopped>>

\* Fault (TypeOK): the probe timer is not cleared.
GrantedStillProbing(p) ==
  /\ acquiring' = [acquiring EXCEPT ![p] = "no"]
  /\ phase' = [phase EXCEPT ![p] = IF stopped[p] THEN "left" ELSE "on"]
  /\ isOwner' = [isOwner EXCEPT ![p] = ~stopped[p]]
  /\ probing' = [probing EXCEPT ![p] = ~stopped[p]]
  /\ releasing' = IF stopped[p] THEN [releasing EXCEPT ![p]["scheduler"] = "read"] ELSE releasing
  /\ UNCHANGED <<process, stopped>>

\* The attempt returns true: the scheduler drives, or gives the lock back if it
\* was stopped meanwhile.  registered is left to the caller in the first case.
Granted(p) ==
  /\ acquiring' = [acquiring EXCEPT ![p] = "no"]
  /\ phase' = [phase EXCEPT ![p] = IF stopped[p] THEN "left" ELSE "on"]
  /\ isOwner' = [isOwner EXCEPT ![p] = ~stopped[p]]
  /\ probing' = [probing EXCEPT ![p] = FALSE]
  /\ releasing' = IF stopped[p] THEN [releasing EXCEPT ![p]["scheduler"] = "read"] ELSE releasing
  /\ UNCHANGED <<process, stopped>>

\* registerLockCleanup, undone at once by the release of a stopped scheduler.
Registers(p) == registered' = [registered EXCEPT ![p] = ~stopped[p]]

\* The attempt returns false: the session stays passive and probes.
Denied(p) ==
  /\ acquiring' = [acquiring EXCEPT ![p] = "no"]
  /\ phase' = [phase EXCEPT ![p] = IF stopped[p] THEN "left" ELSE "on"]
  /\ probing' = [probing EXCEPT ![p] = ~stopped[p]]
  /\ UNCHANGED <<process, stopped, isOwner, registered, releasing>>

Stop(p) ==
  /\ Running(p) /\ phase[p] # "off" /\ ~stopped[p]
  /\ stopped' = [stopped EXCEPT ![p] = TRUE]
  /\ probing' = [probing EXCEPT ![p] = FALSE]
  /\ isOwner' = [isOwner EXCEPT ![p] = FALSE]
  /\ IF isOwner[p]
     THEN /\ releasing' = [releasing EXCEPT ![p]["scheduler"] = "read"]
          /\ registered' = [registered EXCEPT ![p] = FALSE]
     ELSE UNCHANGED <<releasing, registered>>
  /\ UNCHANGED <<lock, process, phase, acquiring, crashes, robbed>>

-----------------------------------------------------------------------------
(* tryAcquireSchedulerLock                                                 *)

\* Fault (OneOwnerUntilRobbed): the file is opened without O_EXCL.
CreateOverwriting(p) ==
  /\ Running(p) /\ acquiring[p] \in {"create", "recreate"}
  /\ lock' = [by |-> p, written |-> FALSE]
  /\ acquiring' = [acquiring EXCEPT ![p] = "write"]
  /\ UNCHANGED <<scheduler, releasing, crashes, robbed>>

Create(p) ==
  /\ Running(p) /\ acquiring[p] \in {"create", "recreate"} /\ lock = NoLock
  /\ lock' = [by |-> p, written |-> FALSE]
  /\ acquiring' = [acquiring EXCEPT ![p] = "write"]
  /\ UNCHANGED <<scheduler, releasing, crashes, robbed>>

\* EEXIST: the first time the file is read, the second time another session won.
Exists(p) ==
  /\ Running(p) /\ lock # NoLock
  /\ \/ /\ acquiring[p] = "create"
        /\ acquiring' = [acquiring EXCEPT ![p] = "read"]
        /\ UNCHANGED <<scheduler, releasing>>
     \/ acquiring[p] = "recreate" /\ Denied(p)
  /\ UNCHANGED <<lock, crashes, robbed>>

\* The text goes to the file that was opened, which may be unlinked by now.
Write(p) ==
  /\ Running(p) /\ acquiring[p] = "write"
  /\ lock' = IF lock.by = p THEN [lock EXCEPT !.written = TRUE] ELSE lock
  /\ Granted(p) /\ Registers(p)
  /\ UNCHANGED <<crashes, robbed>>

\* Fault (TakenOver): every process id is taken for a running one.
IsProcessRunningAlways(p) == p \in Procs

\* isProcessRunning: the lock's process answers.
IsProcessRunning(p) == Running(p)

\* The decision on what readLock returned: ours (as another process: rewrite it),
\* blocked by another live session, or stale: missing, not (yet) written, or of a
\* process that is gone.
ReadLock(p) ==
  /\ Running(p) /\ acquiring[p] = "read"
  /\ LET ours == lock.written /\ Identity[lock.by] = Identity[p]
         blocked == lock.written /\ ~ours /\ IsProcessRunning(lock.by)
     IN \/ /\ ours
           /\ IF lock.by = p
              THEN /\ Granted(p)
                   /\ registered' = [registered EXCEPT ![p] = @ /\ ~stopped[p]]
              ELSE /\ acquiring' = [acquiring EXCEPT ![p] = "rewrite"]
                   /\ UNCHANGED <<scheduler, releasing>>
        \/ blocked /\ Denied(p)
        \/ /\ ~ours /\ ~blocked
           /\ acquiring' = [acquiring EXCEPT ![p] = "unlink"]
           /\ UNCHANGED <<scheduler, releasing>>
  /\ UNCHANGED <<lock, crashes, robbed>>

\* After --resume the lock names the process that is gone: truncate, then write.
Rewrite(p) ==
  /\ Running(p) /\ acquiring[p] = "rewrite"
  /\ lock' = [by |-> p, written |-> FALSE]
  /\ acquiring' = [acquiring EXCEPT ![p] = "write"]
  /\ UNCHANGED <<scheduler, releasing, crashes, robbed>>

\* Whatever lock is there now is removed.
Unlink(p) ==
  /\ Running(p) /\ acquiring[p] = "unlink"
  /\ lock' = NoLock /\ robbed' = (robbed \/ lock # NoLock)
  /\ acquiring' = [acquiring EXCEPT ![p] = "recreate"]
  /\ UNCHANGED <<scheduler, releasing, crashes>>

-----------------------------------------------------------------------------
(* releaseSchedulerLock, exits and crashes                                 *)

ReleaseRead(p) ==
  /\ Running(p)
  /\ \E c \in Callers :
     /\ releasing[p][c] = "read"
     /\ releasing' = [releasing EXCEPT ![p][c] =
          IF lock.written /\ Identity[lock.by] = Identity[p] THEN "unlink" ELSE "no"]
  /\ UNCHANGED <<lock, scheduler, acquiring, crashes, robbed>>

ReleaseUnlink(p) ==
  /\ Running(p)
  /\ \E c \in Callers : /\ releasing[p][c] = "unlink"
                        /\ releasing' = [releasing EXCEPT ![p][c] = "no"]
  /\ lock' = NoLock
  /\ robbed' = (robbed \/ lock.by \in Procs \ {p})
  /\ UNCHANGED <<scheduler, acquiring, crashes>>

\* gracefulShutdown runs the registered cleanup, and ends the process after it.
BeginExit(p) ==
  /\ GracefulExits /\ process[p] = "live"
  /\ process' = [process EXCEPT ![p] = "exiting"]
  /\ registered' = [registered EXCEPT ![p] = FALSE]
  /\ releasing' = IF registered[p] THEN [releasing EXCEPT ![p]["cleanup"] = "read"] ELSE releasing
  /\ UNCHANGED <<lock, phase, stopped, isOwner, probing, acquiring, crashes, robbed>>

\* The process is gone, with its memory.
Gone(p) ==
  /\ process' = [process EXCEPT ![p] = "dead"]
  /\ phase' = [phase EXCEPT ![p] = "off"]
  /\ stopped' = [stopped EXCEPT ![p] = FALSE] /\ isOwner' = [isOwner EXCEPT ![p] = FALSE]
  /\ probing' = [probing EXCEPT ![p] = FALSE] /\ registered' = [registered EXCEPT ![p] = FALSE]
  /\ acquiring' = [acquiring EXCEPT ![p] = "no"]
  /\ releasing' = [releasing EXCEPT ![p] = [c \in Callers |-> "no"]]
  /\ UNCHANGED <<lock, robbed>>

Exit(p) == process[p] = "exiting" /\ releasing[p]["cleanup"] = "no" /\ Gone(p) /\ UNCHANGED crashes

Crash(p) ==
  /\ Running(p) /\ crashes < MaxCrashes
  /\ crashes' = crashes + 1
  /\ Gone(p)

Attempt(p) ==
  Imported(p) \/ Probe(p) \/ Create(p) \/ Exists(p) \/ Write(p) \/ ReadLock(p) \/ Rewrite(p) \/ Unlink(p)
Release(p) == ReleaseRead(p) \/ ReleaseUnlink(p)

Next == \E p \in Procs :
  Start(p) \/ Attempt(p) \/ Release(p) \/ Stop(p) \/ BeginExit(p) \/ Exit(p) \/ Crash(p)

Spec == Init /\ [][Next]_vars

\* Timers fire, file-system calls return, and a process that is exiting exits.
\* Nobody has to start, stop or crash.
FairSpec == Spec /\ \A p \in Procs : WF_vars(Attempt(p)) /\ WF_vars(Release(p)) /\ WF_vars(Exit(p))

-----------------------------------------------------------------------------
(* Properties                                                              *)

\* The processes whose check() fires the tasks of the file.
Drivers == {p \in Procs : Running(p) /\ isOwner[p]}

\* The exclusive create alone gives one driver: as long as no process removed the
\* lock of another (as stale, or by a release that came too late) there is at most
\* one that is not exiting, through starts, stops, probes, exits and resumed sessions
\* (cronTasksLock.ts, "Uses O_EXCL ('wx') for atomic test-and-set").
OneOwnerUntilRobbed == ~robbed => Cardinality({p \in Drivers : process[p] = "live"}) <= 1

\* A running process never leaves its name in the lock without driving, trying or
\* releasing: the other sessions would be blocked by it as long as it runs (the
\* checks of stopped after the awaits in enable() and in the probe).
NoOrphanLock ==
  lock # NoLock /\ Running(lock.by) =>
    \/ isOwner[lock.by] \/ acquiring[lock.by] # "no" \/ process[lock.by] = "exiting"
    \/ \E c \in Callers : releasing[lock.by][c] # "no"

\* While a session probes, some session comes to drive the scheduler, whoever
\* died, stopped, or left the lock half written (cronTasksLock.ts, "If the owner
\* dies ... a passive session takes over").
TakenOver == \A p \in Procs : probing[p] ~> (Drivers # {} \/ ~probing[p])
=============================================================================
