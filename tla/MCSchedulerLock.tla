--------------------------- MODULE MCSchedulerLock ---------------------------
(* Instances of SchedulerLock for TLC, and what a comment of               *)
(* cronTasksLock.ts says of it that the code does not keep.                *)
EXTENDS SchedulerLock

TwoSessions == [p \in {"a", "b"} |-> IF p = "a" THEN 1 ELSE 2]
\* c resumes the session of a.
Resumed == [p \in {"a", "b", "c"} |-> IF p = "b" THEN 2 ELSE 1]

\* "When multiple Claude sessions run in the same project directory, only one
\* should drive the cron scheduler." (cronTasksLock.ts:3)
OneDriver == Cardinality(Drivers) <= 1
=============================================================================
