------------------------------ MODULE CronTasks ------------------------------
(***************************************************************************)
(* utils/cronTasks.ts and the ticks of utils/cronScheduler.ts: the file of *)
(* scheduled tasks that the sessions of a project share, and the scheduler *)
(* of each.  Nothing locks the file: every change reads it, truncates it   *)
(* and writes it whole, and others read in between.  The scheduler lock    *)
(* (module SchedulerLock) is taken here for what it promises: one driver.  *)
(***************************************************************************)
EXTENDS Integers

CONSTANTS
  Sessions,   \* the sessions, numbers
  Tasks,
  Recurring,  \* the tasks that are recurring, the others run once
  Matches,    \* the times each task's cron expression matches
  Initially,  \* the tasks the file may hold at the start, created at time 0, and
              \* how many of the edits and ends are then used up
  MaxAge,     \* recurringMaxAgeMs; 0 means unlimited
  MaxTime,    \* bound: how far time goes
  MaxEdits,   \* bound: tasks added and deleted by the sessions
  MaxEnds,    \* bound: sessions that stop or die
  Absent, Nobody

ASSUME CronConstants ==
  /\ Sessions \subseteq Nat /\ Recurring \subseteq Tasks
  /\ Initially \subseteq [tasks : SUBSET Tasks, edits : 0..MaxEdits, ends : 0..MaxEnds]
  /\ Matches \in [Tasks -> SUBSET Nat] /\ MaxAge \in Nat
  /\ MaxTime \in Nat /\ MaxEdits \in Nat /\ MaxEnds \in Nat
  /\ Absent \notin [created : Nat, last : Nat]

VARIABLES
  now,
  file,      \* the file: each task with its times, or Absent
  torn,      \* the file is truncated, its text not yet written
  writers,   \* the read-modify-writes under way
  session,   \* each session: unborn, live, stopped, dead
  driver,    \* the session the scheduler lock names
  owns,      \* isOwner: what each scheduler believes
  changed,   \* the watcher has a change to report
  tasks,     \* what each scheduler has loaded
  nextFireAt, inFlight,
  edits, ends,
  known,     \* history: the tasks that have been in the file
  fired,     \* history: how often each one-shot task fired, up to 2
  lastFire,  \* history: when each recurring task fired last
  early,     \* history: the recurring tasks that fired twice for one match
  surfaced,  \* history: the tasks shown as missed
  deleted,   \* history: the tasks deleted by a user
  disturbed, \* history: two changes of the file overlapped, or a session
             \* ended during one
  late       \* history: a tick came before the report of a change, and scheduled
             \* a task at first sight from an entry that the file no longer has

disk == <<file, torn, writers>>
memory == <<owns, changed, tasks, nextFireAt, inFlight>>
bounds == <<edits, ends>>
history == <<known, fired, lastFire, early, surfaced, deleted>>
faults == <<disturbed, late>>
cronVars == <<now, disk, session, driver, memory, bounds, history, faults>>

Times == 0..MaxTime
Never == MaxTime + 1
Unset == -1
\* created: createdAt.  last: lastFiredAt ?? createdAt.
Stamped == [created : Times, last : Times]
Empty == [t \in Tasks |-> Absent]
Contents == [Tasks -> Stamped \cup {Absent}]
Purposes == {"fired", "missed", "mark", "add", "delete"}
\* ids: the tasks it is about; base: what it has read.
Writer == [by : Sessions, purpose : Purposes, ids : SUBSET Tasks,
           at : {"read", "truncate", "write"}, time : Times, base : Contents]

CronTypeOK ==
  /\ now \in Times /\ file \in Contents /\ torn \in BOOLEAN
  /\ \A w \in writers : w \in Writer
  /\ session \in [Sessions -> {"unborn", "live", "stopped", "dead"}]
  /\ driver \in Sessions \cup {Nobody} /\ owns \in [Sessions -> BOOLEAN]
  /\ changed \in [Sessions -> BOOLEAN]
  /\ tasks \in [Sessions -> Contents]
  /\ nextFireAt \in [Sessions -> [Tasks -> Times \cup {Unset, Never}]]
  /\ inFlight \in [Sessions -> SUBSET Tasks]
  /\ edits \in 0..MaxEdits /\ ends \in 0..MaxEnds
  /\ fired \in [Tasks -> 0..2] /\ lastFire \in [Tasks -> Times \cup {Unset}]
  /\ known \subseteq Tasks /\ early \subseteq Recurring /\ surfaced \subseteq Tasks /\ deleted \subseteq Tasks
  /\ disturbed \in BOOLEAN /\ late \in BOOLEAN
  /\ \A s \in Sessions : owns[s] => driver = s /\ session[s] = "live"
  /\ \A s \in Sessions : session[s] = "live" =>
       \A t \in inFlight[s] : \E w \in writers : w.by = s /\ t \in w.ids

CronInit ==
  /\ now = 0 /\ torn = FALSE /\ writers = {}
  /\ \E start \in Initially : known = start.tasks /\ edits = start.edits /\ ends = start.ends
  /\ file = [t \in Tasks |-> IF t \in known THEN [created |-> 0, last |-> 0] ELSE Absent]
  /\ session = [s \in Sessions |-> "unborn"] /\ driver = Nobody
  /\ owns = [s \in Sessions |-> FALSE]
  /\ changed = [s \in Sessions |-> FALSE]
  /\ tasks = [s \in Sessions |-> Empty]
  /\ nextFireAt = [s \in Sessions |-> [t \in Tasks |-> Unset]]
  /\ inFlight = [s \in Sessions |-> {}]
  /\ fired = [t \in Tasks |-> 0] /\ lastFire = [t \in Tasks |-> Unset]
  /\ early = {} /\ surfaced = {} /\ deleted = {} /\ disturbed = FALSE /\ late = FALSE

Live(s) == session[s] = "live"
\* nextCronRunMs: the first match strictly after a time.
NextRun(t, from) ==
  LET runs == {m \in Matches[t] : m > from} \cup {Never} IN
  CHOOSE m \in runs : \A n \in runs : m <= n
Present(content) == {t \in Tasks : content[t] # Absent}
\* readCronTasks: a truncated file has no tasks.
Read == IF torn THEN Empty ELSE file

\* Time goes by in minutes: longer than a change of the file and its report take,
\* but not than a turn.
Tick ==
  /\ now < MaxTime /\ now' = now + 1
  /\ writers = {} /\ \A s \in Sessions : ~changed[s]
  /\ UNCHANGED <<disk, session, driver, memory, bounds, history, faults>>

-----------------------------------------------------------------------------
(* Changes of the file: read, truncate, write                              *)

Begins(s, purpose, ids) ==
  [by |-> s, purpose |-> purpose, ids |-> ids, at |-> "read", time |-> now, base |-> Empty]

\* Fault (CronTypeOK, DueFires): the ids of a mark stay in inFlight.
SettledOneShot(w) ==
  inFlight' = [inFlight EXCEPT ![w.by] = IF w.purpose = "fired" THEN @ \ w.ids ELSE @]
\* The finally of check(): fired tasks are no longer in flight.
Settled(w) ==
  inFlight' = [inFlight EXCEPT
    ![w.by] = IF w.purpose \in {"fired", "mark"} THEN @ \ w.ids ELSE @]

\* removeCronTasks and markCronTasksFired do not write when they find nothing.
Idle(w) == w.purpose # "add" /\ w.ids \cap Present(Read) = {}

ReadFile(w) ==
  /\ w.at = "read"
  /\ IF Idle(w) THEN writers' = writers \ {w} /\ Settled(w)
     ELSE /\ writers' = (writers \ {w}) \cup {[w EXCEPT !.at = "truncate", !.base = Read]}
          /\ UNCHANGED inFlight
  /\ disturbed' = (disturbed \/ torn)
  /\ UNCHANGED <<now, file, torn, session, driver, owns, changed, tasks, nextFireAt>>
  /\ UNCHANGED <<bounds, history, late>>

\* The watchers wait until the file has been stable for a while (awaitWriteFinish).
Announced == changed' = [s \in Sessions |-> Live(s)]

Truncate(w) ==
  /\ w.at = "truncate"
  /\ writers' = (writers \ {w}) \cup {[w EXCEPT !.at = "write"]}
  /\ torn' = TRUE /\ disturbed' = (disturbed \/ torn \/ w.base # file)
  /\ UNCHANGED <<now, file, session, driver, owns, changed, tasks>>
  /\ UNCHANGED <<nextFireAt, inFlight>>
  /\ UNCHANGED <<bounds, history, late>>

\* addCronTask, markCronTasksFired, removeCronTasks: what is written.
Written(w) ==
  [t \in Tasks |->
     IF t \notin w.ids THEN w.base[t]
     ELSE IF w.purpose = "add" THEN [created |-> w.time, last |-> w.time]
     ELSE IF w.purpose = "mark" /\ w.base[t] # Absent THEN [w.base[t] EXCEPT !.last = w.time]
     ELSE Absent]

WriteFile(w) ==
  /\ w.at = "write"
  /\ writers' = writers \ {w} /\ Settled(w)
  /\ file' = Written(w) /\ torn' = FALSE /\ disturbed' = (disturbed \/ w.base # file)
  /\ Announced /\ known' = known \cup Present(file')
  /\ UNCHANGED <<now, session, driver, owns, tasks, nextFireAt, bounds>>
  /\ UNCHANGED <<fired, lastFire, early, surfaced, deleted, late>>

Change == \E w \in writers : ReadFile(w) \/ Truncate(w) \/ WriteFile(w)

\* CronCreate (durable) and CronDelete.
Edit(s) ==
  /\ Live(s) /\ edits < MaxEdits /\ edits' = edits + 1
  /\ \E t \in Tasks :
       \/ /\ t \notin known /\ \A w \in writers : t \notin w.ids
          /\ writers' = writers \cup {Begins(s, "add", {t})} /\ UNCHANGED deleted
       \/ /\ t \in Present(Read) /\ deleted' = deleted \cup {t}
          /\ writers' = writers \cup {Begins(s, "delete", {t})}
  /\ UNCHANGED <<now, file, torn, session, driver, memory, ends>>
  /\ UNCHANGED <<known, fired, lastFire, early, surfaced, faults>>

-----------------------------------------------------------------------------
(* A session's scheduler                                                   *)

\* Fault (DueFires): the lock of a session that is gone is not recovered.
FreeIfReleased == driver = Nobody
\* The lock is free when nobody has it or its session is gone.
Free == driver \notin {s \in Sessions : Live(s)}

\* The probe of a passive session.
ProbeLock(s) ==
  /\ Live(s) /\ ~owns[s] /\ Free
  /\ owns' = [owns EXCEPT ![s] = TRUE] /\ driver' = s
  /\ UNCHANGED <<now, disk, session, changed, tasks, nextFireAt, inFlight>>
  /\ UNCHANGED <<bounds, history, faults>>

\* Fault (NothingVanishes): recurring tasks are missed too.
MissedAll(content) == {t \in Present(content) : NextRun(t, content[t].created) < now}
\* findMissedTasks, and load()'s filter.
Missed(content) ==
  {t \in Present(content) : t \notin Recurring /\ NextRun(t, content[t].created) < now}

\* enable(): the lock, then load(true) and the timers.  One-shot tasks whose time
\* has passed are shown as missed, removed, and kept from check(), also by a session
\* that is not the owner.  The names of the sessions say in which order they start.
Enable(s) ==
  /\ session[s] = "unborn" /\ \A r \in Sessions : r < s => session[r] # "unborn"
  /\ session' = [session EXCEPT ![s] = "live"]
  /\ owns' = [owns EXCEPT ![s] = Free] /\ driver' = IF Free THEN s ELSE driver
  /\ tasks' = [tasks EXCEPT ![s] = Read]
  /\ nextFireAt' = [nextFireAt EXCEPT ![s] =
       [t \in Tasks |-> IF t \in Missed(Read) THEN Never ELSE Unset]]
  /\ surfaced' = surfaced \cup Missed(Read)
  /\ writers' = writers \cup
       (IF Missed(Read) # {} THEN {Begins(s, "missed", Missed(Read))} ELSE {})
  /\ UNCHANGED <<now, file, torn, changed, inFlight>>
  /\ UNCHANGED <<bounds, known, fired, lastFire, early, deleted, faults>>

\* load(false), when the watcher reports a change.
Reload(s) ==
  /\ Live(s) /\ changed[s] /\ changed' = [changed EXCEPT ![s] = FALSE]
  /\ tasks' = [tasks EXCEPT ![s] = Read]
  /\ UNCHANGED <<now, disk, session, driver, owns, nextFireAt, inFlight>>
  /\ UNCHANGED <<bounds, history, faults>>

\* The tasks check() looks at, and when each is due: at first sight from its
\* lastFiredAt or createdAt.
Seen(s) == IF owns[s] THEN Present(tasks[s]) ELSE {}
DueAt(s, t) == IF nextFireAt[s][t] = Unset THEN NextRun(t, tasks[s][t].last) ELSE nextFireAt[s][t]

\* Fault (FiresOnce): nothing is in flight.
FiresUnguarded(s) == {t \in Seen(s) : DueAt(s, t) <= now}
Fires(s) == {t \in Seen(s) \ inFlight[s] : DueAt(s, t) <= now}

\* isRecurringTaskAged; the ones that go on are stamped, the others removed.
Aged(s, t) == MaxAge > 0 /\ now - tasks[s][t].created >= MaxAge
GoesOn(s) == {t \in Fires(s) \cap Recurring : ~Aged(s, t)}

\* History: how often a one-shot task fired, up to 2.
Count(n) == IF n < 2 THEN n + 1 ELSE 2

\* The tasks a tick schedules at first sight from an entry the file no longer has:
\* its change is written, and no longer in flight, but not reported yet.
Outdated(s) ==
  {t \in Seen(s) \ inFlight[s] : nextFireAt[s][t] = Unset /\ tasks[s][t] # file[t]}

\* A tick of check() that passes its gates, whether or not the watcher has a change
\* to report.  Schedule entries of tasks not seen are evicted.
Check(s) ==
  /\ Live(s)
  /\ nextFireAt' = [nextFireAt EXCEPT ![s] =
       [t \in Tasks |-> IF t \notin Seen(s) THEN Unset
                        ELSE IF t \in inFlight[s] THEN @[t]
                        ELSE IF t \in GoesOn(s) THEN NextRun(t, now)
                        ELSE IF t \in Fires(s) THEN Unset ELSE DueAt(s, t)]]
  /\ inFlight' = [inFlight EXCEPT ![s] = @ \cup Fires(s)]
  /\ writers' = writers
       \cup {Begins(s, "fired", {t}) : t \in Fires(s) \ GoesOn(s)}
       \cup (IF GoesOn(s) # {} THEN {Begins(s, "mark", GoesOn(s))} ELSE {})
  /\ fired' = [t \in Tasks |-> IF t \in Fires(s) \ Recurring THEN Count(fired[t]) ELSE fired[t]]
  /\ lastFire' = [t \in Tasks |-> IF t \in Fires(s) \cap Recurring THEN now ELSE lastFire[t]]
  /\ early' = early \cup
       {t \in Fires(s) \cap Recurring : lastFire[t] # Unset /\ NextRun(t, lastFire[t]) > now}
  /\ late' = (late \/ Outdated(s) # {})
  /\ UNCHANGED <<now, file, torn, session, driver, owns, changed, tasks>>
  /\ UNCHANGED <<bounds, known, surfaced, deleted, disturbed>>

\* The scheduler is gone, its lock released or left behind.
Ended(s, how) ==
  /\ session' = [session EXCEPT ![s] = how] /\ owns' = [owns EXCEPT ![s] = FALSE]
  /\ tasks' = [tasks EXCEPT ![s] = Empty]
  /\ nextFireAt' = [nextFireAt EXCEPT ![s] = [t \in Tasks |-> Unset]]

Writing(s) == \E w \in writers : w.by = s

\* stop(): what it has begun to write is written.
StopScheduler(s) ==
  /\ Live(s) /\ ends < MaxEnds /\ ends' = ends + 1 /\ Ended(s, "stopped")
  /\ driver' = IF driver = s THEN Nobody ELSE driver
  /\ disturbed' = (disturbed \/ Writing(s))
  /\ changed' = [changed EXCEPT ![s] = FALSE]
  /\ UNCHANGED <<now, disk, inFlight, edits, history, late>>

Halved(s) == \E w \in writers : w.by = s /\ w.at = "write"

\* The process dies, perhaps between truncating and writing the file.
CrashSession(s) ==
  /\ Live(s) /\ ends < MaxEnds /\ ends' = ends + 1 /\ Ended(s, "dead")
  /\ inFlight' = [inFlight EXCEPT ![s] = {}]
  /\ changed' = [r \in Sessions |-> r # s /\ (changed[r] \/ (Live(r) /\ Halved(s)))]
  /\ writers' = {w \in writers : w.by # s}
  /\ disturbed' = (disturbed \/ Writing(s))
  /\ UNCHANGED <<now, file, torn, driver, edits, history, late>>

Scheduler(s) ==
  ProbeLock(s) \/ Reload(s) \/ Check(s)

CronNext ==
  \/ Tick \/ Change
  \/ \E s \in Sessions : Enable(s) \/ Scheduler(s) \/ Edit(s) \/ StopScheduler(s) \/ CrashSession(s)

CronSpec == CronInit /\ [][CronNext]_cronVars

\* Time passes, file-system calls return, timers fire, the watcher reports, and
\* turns end (the gate of check()).  Nobody has to start, edit, stop or crash.
CronFairSpec ==
  /\ CronSpec /\ WF_cronVars(Tick) /\ WF_cronVars(Change)
  /\ \A s \in Sessions :
       WF_cronVars(ProbeLock(s)) /\ WF_cronVars(Reload(s)) /\ WF_cronVars(Check(s))

-----------------------------------------------------------------------------
(* Properties                                                              *)

\* As long as no two changes of the file overlap, no session ends during one, and no
\* tick schedules a task from an entry that was removed or stamped but not reported,
\* a one-shot task fires once and a recurring one once for each match, whichever
\* sessions take over, reload and forget their schedules (inFlight, lastFiredAt).
\* Ticks before a report do come: inFlight and nextFireAt hold off those during a
\* change, and those after it of a recurring task that goes on.
FiresOnce ==
  ~disturbed /\ ~late => early = {} /\ \A t \in Tasks \ Recurring : fired[t] <= 1

\* Under the same condition no task vanishes: what has left the file was deleted by
\* a user, or it fired or, for a one-shot, was shown as missed before; a recurring
\* one has aged out.
NothingVanishes ==
  ~disturbed /\ ~torn => \A t \in known \ (Present(file) \cup deleted) :
    IF t \in Recurring THEN MaxAge > 0 /\ lastFire[t] >= MaxAge
    ELSE fired[t] > 0 \/ t \in surfaced

\* A task that is due fires, or is shown as missed, as long as some session goes on,
\* also when reads see a truncated file, updates are lost and owners die; unless it
\* is lost from the file.
DueFires ==
  \A t \in Tasks : \A m \in Matches[t] \cap Times :
    (now >= m /\ t \in Present(file) /\ file[t].created < m)
      ~> \/ fired[t] > 0 \/ lastFire[t] >= m \/ t \in surfaced \/ t \notin Present(Read)
         \/ \A s \in Sessions : ~Live(s)
=============================================================================
