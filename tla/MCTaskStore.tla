----------------------------- MODULE MCTaskStore -----------------------------
(* Instances of TaskStore for TLC, and what comments of utils/tasks.ts     *)
(* say of it that the code does not keep.                                  *)
EXTENDS TaskStore

Fresh == [owner |-> None, status |-> "pending", blocks |-> {}, blockedBy |-> {}]
OneTask == <<Fresh>>
TwoTasks == <<[Fresh EXCEPT !.blocks = {2}], [Fresh EXCEPT !.blockedBy = {1}]>>

\* checkAgentBusy: "performed atomically with the claim using a task-list-level
\* lock to prevent TOCTOU race conditions" (tasks.ts:528): with it too, a
\* successful claim is not taken over.
BusyClaimStands == ClaimStands

\* claimTask: "Attempts to claim a task for an agent with file locking to prevent
\* race conditions" (tasks.ts:535): who was told of success keeps the task when
\* another agent, by TaskUpdate, starts what it read as nobody's.
StartedClaimStands == ClaimStands
=============================================================================
