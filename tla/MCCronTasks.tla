----------------------------- MODULE MCCronTasks -----------------------------
(* Instances of CronTasks for TLC.                                         *)
EXTENDS CronTasks

CONSTANTS once, later, again

At == [t \in {once, later, again} |-> IF t = once THEN {1} ELSE IF t = later THEN {2} ELSE {1, 2}]

\* What the file holds, with the edits and the ends that may come.
Start(ts, mayEdit, mayEnd) == [tasks |-> ts, edits |-> MaxEdits - mayEdit, ends |-> MaxEnds - mayEnd]

\* Two tasks whose changes overlap, with and without a take-over; one task, with an
\* edit or a take-over.
Mixed == {Start({once, again}, 0, 0), Start({later, again}, 0, 1),
          Start({again}, 1, 0), Start({again}, 0, 1), Start({once}, 0, 1)}
OneShot == {Start({once}, 0, 0)}

\* buildMissedTaskNotification tells the user that a task was "missed while Claude
\* was not running".  A session that starts while the driver runs says so of the
\* tasks that are due and removes them: load(true) does not look at owns.
MissedMeansDown == [][surfaced' # surfaced => Free]_cronVars

\* "inFlight guards against double-fire during the async removeCronTasks + chokidar
\* reload" (cronScheduler.ts:333).  It does until the removal is written, and is
\* cleared then: a tick before the reload fires a one-shot task again.
FiresOnceUnlessDisturbed ==
  ~disturbed => early = {} /\ \A t \in Tasks \ Recurring : fired[t] <= 1
=============================================================================
