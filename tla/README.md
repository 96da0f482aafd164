# DuckHive: specifications, model checking and proofs

DuckHive is a terminal coding agent (TypeScript, about 690,000 lines under `src/src`). This
directory holds TLA+ specifications of the parts of it where concurrency decides whether it is
right: several coroutines in one process, or several processes on one file system. `PROJECT.json`
says for every definition which lines it models.

Paths below are relative to `src/src/`.

| module | models | checked by | proved |
| --- | --- | --- | --- |
| `ToolExecutor` | `services/tools/StreamingToolExecutor.ts` and the loop of `query.ts` around it | `ToolOrder`, `ToolErrors`, `ToolLiveness` | `ToolExecutorProofs` |
| `TaskStore` | `utils/tasks.ts`, the task list of a swarm, and `TaskUpdateTool` | `TaskIds`, `TaskClaims` | `TaskStoreProofs` |
| `SchedulerLock` | `utils/cronTasksLock.ts` and its use in `utils/cronScheduler.ts` | `LockSafety` | `CronSchedulerProofs` |
| `CronTasks` | `utils/cronTasks.ts`, `check()` and `load()` of `utils/cronScheduler.ts` | `Cron` | `CronSchedulerProofs` |
| `EventUploader`, `EventStream` | `cli/transports/SerialBatchEventUploader.ts` and what it promises | `Upload` | `EventUploaderProofs` |
| `RemoteBridge` | `bridge/remoteBridgeCore.ts`, `bridge/flushGate.ts`, the transport it makes | `Bridge` | `RemoteBridgeProofs` |
| `TurnQueue` | `utils/QueryGuard.ts`, `utils/messageQueueManager.ts`, `utils/queueProcessor.ts`, `hooks/useQueueProcessor.ts`, `utils/handlePromptSubmit.ts`, `onQuery`/`onCancel` of `screens/REPL.tsx` | `TurnQueue` | `TurnQueueProofs` |
| `PermissionPrompt` | `hooks/useCanUseTool.tsx`, `hooks/toolPermission/`, the teammates' prompts of `utils/swarm/inProcessRunner.ts`, the dialogs of `screens/REPL.tsx` | `Permission`, `PermissionDropped` | `PermissionPromptProofs` |
| `Filtering` | `Array.prototype.filter`, for the four above that use it | with them | `FilteringTheorems` |

Each `MC*` module instantiates one of them for TLC, and holds the claims of comments that the code
does not keep. A definition whose name is that of another with a
suffix, under a comment `Fault (P)`, is a plausible bug in that definition: with it in place
the property P fails. They show that P depends on the code; no specification uses them.

## Inventory

### Modelled

**Streaming tool executor.** Runs the tool calls of one assistant message while the message is
still streaming. *State:* the tracked tools with status, pending progress and results; the flags
`hasErrored` and `discarded`; the abort controllers; the context. *Operations:* `addTool`,
`processQueue`, `executeTool`, `getCompletedResults`, `getRemainingResults`, `discard`.
*Interaction:* `query()` adds a tool per block, takes results while it streams and the remaining
ones after, and throws the executor away when it falls back to another model. *Hard:*
`processQueue` suspends after each tool it starts, so several scans walk the same list; the result
generators suspend at every `yield`; sibling errors, interrupts and fallback arrive anywhere.
*Correct when:* an unsafe tool runs alone, the queue is served in order and never forgotten,
every call is answered once, and the wait for the results ends.

**Shared task list.** One JSON file per task, a high water mark, a lock per list and per task
(`proper-lockfile`), used by every agent of a swarm. *Operations:* create, update, delete, block,
claim (with or without a check that the agent is busy), unassign, reset. *Hard:* readers take no
lock, `writeFile` truncates before it writes, some operations act on what they read before they
got the lock, processes die. *Correct when:* no id is given twice, a successful claim stands,
dependencies are symmetric, and nobody waits for ever.

**Cron scheduler lock.** The sessions in one directory elect the one that fires the scheduled
tasks: a file created exclusively. *State:* the lock file, and in each process `isOwner`,
`stopped`, the probe timer, the registered cleanup. *Operations:* `tryAcquireSchedulerLock`,
`releaseSchedulerLock`, `enable`, the probe, `stop`, graceful shutdown. *Hard:* create, write,
read, unlink are separate calls; a stale lock is recovered by whoever sees it; `stop()` may come
during an `await`. *Correct when:* one session drives, and some session comes to drive.

**Event uploader.** Sends the events of a remote session to the server in batches, one request at
a time. *State:* the buffer, the drain loop, the flush waiters. *Operations:* `enqueue`, `flush`,
`close`, the drain loop with its retries and failure budget. *Hard:* calls come while a batch is
in flight; a request that failed may have been processed. *Correct when:* the server gets the
events in order, losses are only those the code names, and a flush means that the events are sent.

**Turn scheduling.** Decides when user input, bash commands, notifications and messages of other
agents become a turn. *State:* the guard (`idle`, `dispatching`, `running`, a generation), the
command queue, the REPL's abort controller. *Operations:* submit, enqueue, the effect that serves
the queue, the input phase, the query, mid-turn drains, ESC, the five-minute watchdog. *Hard:*
a turn that was cancelled ends later than the next one begins; the queue is read before an
`await` and changed after it; the effect only runs when something it depends on changes.
*Correct when:* there is one turn at a time, the guard always has an owner, no command is lost or
delivered twice, and the queue is served.

**Permission prompts.** A tool call that needs a permission asks the user, and hooks, the bash
classifier, claude.ai and a chat channel at the same time. *State:* per request a resolve-once
guard, the queue of dialogs (shared with in-process teammates), the handlers of remote replies, the
abort controllers. *Operations:* ask, push, allow, reject, abort, recheck, the ends of hooks and
classifier, remote replies, ESC, the timer of the classifier's checkmark. *Hard:* every racer
awaits something between looking and deciding; ESC and interrupts abort in the middle; the dialog
that answers may be stale. *Correct when:* a request is decided once, and by one who may persist
rules for it, the other sides withdraw their prompts, and every request gets an answer.

**Remote bridge.** Mirrors a session to claude.ai. *State:* the current transport (with an epoch and
an event uploader), the flush gate, `initialFlushDone`, `authRecoveryInFlight`, `tornDown`.
*Operations:* write, connect and flush the history, recover from a 401, refresh in time, rebuild the
transport, tear down. *Hard:* each `/bridge` call moves the epoch and makes the older transports
stale; 401, refresh, teardown and connect come in any order; posts are repeated. *Correct when:* the
server gets history and messages in order, the transport in use has the latest epoch, the gate
opens, and nothing is left open after teardown.

**Cron tasks.** `scheduled_tasks.json`, shared by the sessions of a project, and the ticks of each
session's scheduler. *State:* the file; in each session the tasks it has loaded, `nextFireAt`,
`inFlight`. *Operations:* add, remove, stamp (each reads the file and writes it whole, unlocked),
`load`, `check`. *Interaction:* only the owner of the scheduler lock fires file tasks; a file watcher
tells every session of changes. *Hard:* changes overlap, readers see a truncated file, the owner
dies between firing and writing. *Correct when:* each time of a task fires once, and none is lost.

### Not modelled

- *Memory consolidation lock*, *worker state uploader*, *teammate mailboxes* and the permission
  requests of workers in other processes, *tool batches without streaming*: see the plan.
- *Parts of modelled components*: what the sections on `TurnQueue`, `PermissionPrompt`, `RemoteBridge`
  and `CronTasks` list as left out.
- *The rest of `query()` and `QueryEngine`, tool execution, permission rules, compaction, session
  storage, hooks, hook chains, agent runs, orchestrator*: mostly data (prompts, rules, summaries,
  transcripts) with sequential control.
- *Transports, the bridge over environments, MCP, OAuth, LSP, API providers, hive bridge, channels*: protocols with
  programs that are not in the repository. The token refresh of `utils/auth.ts` has interleavings
  worth a model later.
- *User interface, `tui` (Go), `src-tauri` (Rust), `webui`, editor extension, Python, scripts,
  skills*: rendering, thin clients, build scripts.

## The models

In all of them an action is what runs without giving up the thread (between two `await`s or
`yield`s), or one file-system call. Texts, schemas, logging and delays are left out: a timer may
fire at any time after it is set.

### ToolExecutor

The consumer (`query()` and the two generators) has a program counter `pc`; `pass` and `loop` are
the middle of a stretch in which nothing else runs (`Free`). Suspended scans are interchangeable
except for where they resume: `scans[p]` counts those that resume at position p, and a stretch of a
scan (`Segment`) starts one tool or ends. `results[i]` keeps the classes of the messages of a tool:
`ok`, `err`, the synthetic ones, `aux`. `RejectPermission` is the abort listener of a tool's own
controller. `Wake` is `Promise.race` over the promises that ran when the consumer parked.
*External:* tool bodies. A running tool yields progress, a result, more messages, or ends.

### TaskStore

`file[i]` is a task, `Absent`, or `Torn` (being written: it does not parse). Each process runs one
operation at a time (`op`, `at`, with `view`, `todo`, `mine` and `plan` for what it has read and
still has to do). `updateTask` is `UpdateCheck` (exists?), the lock, `UpdateRead`,
`UpdateTruncate`, `UpdateWrite`; `todo` lets `blockTask`, `deleteTask` and `unassignTeammateTasks`
run it several times. `TaskUpdate` reads the task without a lock (`Look`) and puts what differs from
that read into one `updateTask`: a status, an owner, or both, and its own agent as owner when it only starts a
task that it read as nobody's (`Joins`). That last call is the operation `start`, the others are `update`, so
that a run can tell them apart; `setStatus` is the runner's update after its claim, with no read
(`inProcessRunner.ts:647`). Locks are `proper-lockfile`'s: held until released, taken from dead holders
(`StaleLocks`), with retries that may run out (`LockTimesOut`).
`allocated` counts how often an id was given, `winners` the agents told that they own a task, until an
unassignment or an `update` that names an owner ends that (`Told`).

### SchedulerLock

The lock file remembers which process made it and whether its text is written. `acquiring[p]` and
`releasing[p]` are the next file-system call of the two functions, the latter for its two callers
(the scheduler and the exit cleanup), which may run at once. A resumed session is a second process
with the same identity. `robbed` records that a lock was removed by a process that did not make it.

### EventUploader and EventStream

`Drain` is the loop from one `await` to the next: take a batch (`Batch`: at most `MaxBatch` events
and `MaxBytes` bytes, dropping what cannot be serialized), or end and resolve the waiters.
`SendFails` may or may not have reached the server. `EventStream` is the promise: a queue from
which a prefix is confirmed or, with the budget used up, given up; only what does not fit is
dropped. `StreamSpec` says that the uploader implements it, with the batch in flight in front of the
buffer as the abstract queue. Every step maps to a step or a stutter.

### TurnQueue

A turn is one call of `executeUserInput` (`wrapped`) or of `onQuery` by `handleIncomingPrompt`.
Its `pc` is `input` (in `processUserInput`), `query`, `drain` (making attachments of a snapshot of
the queue) or `done`. `InputDone` has the five outcomes of the code: another query runs and the
messages are put back (`PutBack`), a query begins, the command ran locally (`shouldQuery` false),
it produced nothing, it threw. An entry of the queue is a command and the turn that put it back:
removal is by identity of objects, and what is put back is a new object, a prompt.
`due` stands for React's dependencies: the effect runs again once the queue, the guard or the
dialog has changed since it last ran. The effect is taken to see the current guard, and an `await`
of a promise that is already settled is taken not to let others in; both choices favour the code.
*Left out:* the `now` priority, immediate commands except for the dialog they open, killing all
agents, background turns, restoring the prompt of a turn cancelled at once.

### PermissionPrompt

`phase[r]` and `by[r]` are the resolve-once guard of a request: `open` until someone claims it,
`claimed` while `onAllow` awaits, `answered` once `resolve` was called. `decisions` counts who
decided, also where a second `resolve` has no effect. `queue` and `shown` are apart: React renders
later, and a rendered dialog may be of a request that has left the queue. Hooks, the classifier and
rechecks are sets of requests for which one is under way. Abort listeners run in the step that
aborts (`Abort`): the remote handlers of the controller's requests go, and so do its checkmarks. A
request of the main agent uses the controller `main`; a teammate has its own.
*Left out:* the rules (`Settled` has the outcomes they can have), coordinator and swarm workers
beyond those outcomes, the grace period of 200 ms, edits of the input.

### RemoteBridge

`transports` holds every transport made, with its epoch, what its uploader buffers and has in
flight, and how far its initial PUT is; the last is the variable `transport` of the code. An epoch is
a number the server counts up (`Fetch`); a request of an older one gets a 409 (`Superseded`), a
batch or a heartbeat. `initialize()` starts the heartbeat when the initial PUT returns (`InitAccepted`), also when
the transport was closed meanwhile, and one that was sent before `close()` may be answered after it; the model
lets a closed transport with an accepted PUT get that answer, perhaps more than once.
`Posted` and `PostFails` are the server's: it deduplicates by uuid, and a request that fails may have
been taken. Messages are numbered in the order in which they are written, the history is 0 and not
empty. `orphaned` and `gaveUp` remember the two endings of a recovery that the properties except.
`createV2ReplTransport` with an epoch and `writeBatch` only await what is already settled, so
`Rebuild` is one step, and its test of `tornDown` is never true.
*Left out:* `sendResult` and `writeSdkMessages`, which bypass the gate (the teardown's result is one of
them), what comes in, limits of the uploader (module
`EventUploader`), control requests and titles.

### CronTasks

A read-modify-write is a record in `writers` that reads, truncates and writes in three steps; it
says which session began it, what for, and what it has read. `torn` is the time between truncating
and writing: readers see no tasks. `session`, `driver` and `owns` (the code's `isOwner`) stand for the
promise of `SchedulerLock`: one owner, until it is gone (`DriversTakeTurns`: as long as nobody removes the lock of another), and then
a passive session takes over. `Enable` is `enable` with `load(true)`, `ProbeLock` its timer, `Reload` is `load(false)`,
`Check` a tick of `check()` past its gates, `StopScheduler` is `stop`. The names differ from those of
`SchedulerLock` since one module of proofs extends both.
`Tick` counts minutes: a change of the file and the watcher's report of it (milliseconds) are over by
then. `check` runs every second and does not wait for either, so `Check` may come at any moment between them.
Fires, matches and deletions are recorded in history variables; `disturbed` says that two changes overlapped,
a read was torn, or a session ended during a change; `late` that a tick scheduled a task at first sight from an
entry the file no longer has, because its removal or stamp was written but not reported (`Outdated`).
*Left out:* session-only and permanent tasks, jitter, the kill switch, the daemon's directory and
filter, `getNextFireTime`, the poll before a session has tasks.

## What is checked

| run | instance | properties |
| --- | --- | --- |
| `tool_order` | three calls of a safe, an unsafe and an unknown tool | `TypeOK`, `Exclusive`, `UnsafeBeforeLater`, `ContextInOrder` |
| `tool_errors` | two calls with progress and two messages each, four kinds of tools | `Answered`, `DoneMeansDelivered` |
| `tool_liveness` | two calls, every tool known | `TurnEnds`, `QueueDrains` |
| `task_ids` | two processes, four operations (create, reset, status, busy claim), four ids, one crash | `TypeOK`, `UniqueIds`, `OperationsEnd` |
| `task_claims` | two processes, three operations (claim, `TaskUpdate`, status, unassign, block, delete), two tasks, one crash | `ClaimStands` |
| `lock_safety` | three processes, one of them a resumed session, stops, exits, one crash | `TypeOK`, `OneOwnerUntilRobbed`, `NoOrphanLock`, `TakenOver` |
| `cron` | two sessions; two tasks due at once, with or without a session that stops or dies; one task with that or with an edit (which may add another) | `CronTypeOK`, `FiresOnce`, `NothingVanishes`, `DueFires` |
| `upload` | six events, one not serializable, one large; batches of two, three bytes; two flushes; budget of two failures; close | `TypeOK`, `StreamSpec`, `ServerOrder`, `FlushMeansSent`, `FlushesEnd` |
| `bridge` | the history, three events among two messages, two new epochs and one closed stream; refreshes, teardown | `TypeOK`, `ServerOrder`, `LatestEpoch`, `TornDownCloses`, `GateOpens`, `Arrives` |
| `turn` | three commands of six kinds, one turn cancelled or timed out | `TypeOK`, `GuardIsOwned`, `NoReentry`, `NothingLost`, `QueueServed` |
| `permission` | one request of the main agent, one of a teammate, claude.ai and a channel, one cancel, one mode switch | `TypeOK`, `OneDecision`, `RemoteDismissed`, `Answered` |
| `permission_dropped` | two requests of the main agent, claude.ai, one ESC | `Answerable` fails |

**Bounds.** Three calls are enough for an unsafe tool between two others, for two suspended scans
and for a call that arrives while both are; errors need two calls (one fails, one is cancelled)
but several messages. Two processes and one task each way are enough for every pair of operations
of the task list to overlap at each file-system call, and a third operation lets one of them come
between. Three processes let two recover a lock while the third holds it, with one that inherits
the identity of another. Six events fill a buffer of two behind a batch of two, twice. Three
commands let one run, one be dispatched and one arrive. The bounds on failures (crashes, ESC and
timeouts) are one each: every violation below needs one or none. For a permission, a request of
each kind lets one stand behind the other; two of the main agent with one remote side were checked as
well (222,000 states). For the bridge one change of the epoch is enough for
every overlap of two transports; that a refresh and a 401 recovery both fetch credentials takes two, so that there are
three epochs, and the run finds the stale transport when the test of `authRecoveryInFlight` is taken out of the stream's
callback. The bound on all events (`MaxEvents`) leaves room for a closed stream and both epochs, or for two messages
and one of them. The proofs below are for any number. In the cron tasks one match each suffices for a
one-shot and two for a recurring task to fire, be stamped and age; overlapping changes
need two tasks that are due at once. `Initially` couples what the file holds at first with how many edits and ends may
come (`Mixed`), so that not all of it has to happen in one behaviour. Where liveness is checked the
bounds only limit what the environment starts.

**Fairness.** *ToolExecutor:* the consumer and suspended scans go on (they are microtasks), a tool
that runs ends or is aborted; nobody has to send messages or to abort. *TaskStore:* a process that
is not dead takes its next step, and a dead holder's lock becomes stale; no retry needs to run out.
*SchedulerLock:* timers fire, file-system calls return, an exiting process exits; nobody has to
start, stop or crash. *EventUploader:* sleeps and requests end, and a request that is repeated
for ever succeeds at last or its batch is dropped (strong fairness of `SendOk`: the
server is not down for ever). *RemoteBridge:* requests end, and a batch of the latest epoch that is
posted for ever gets through; nobody has to write, refresh or tear down, and no heartbeat to be under way when
its transport is closed. *CronTasks:* time passes,
file-system calls return, the watcher reports and `check` runs (a turn that holds its gate ends).
*PermissionPrompt:* hooks, classifier and rechecks end, timers fire, React renders, and the user
answers a request whose dialog is shown again and again (strong fairness: dialogs are hidden while
the user types); no remote side has to reply. *TurnQueue:* React runs an effect whose dependencies changed; inputs,
drains and queries end; the user closes a dialog. `CHECK_DEADLOCK FALSE` is set where the program
may stop: all events sent, all sessions gone, no more input. `TaskStore` and `ToolExecutor` have an
explicit end instead, so a deadlock there would be found.

## What the runs show

The properties of the eleven passing runs hold. The twelfth refutes what a comment of the code says:

**`permission_dropped`.** `handleInteractivePermission` "sets up callbacks that eventually call
`resolve()`" (`interactiveHandler.ts:53-55`). ESC empties the queue of dialogs and tells only the
request whose dialog is rendered. In the run a request of the main agent is open, its hook has ended
without a decision, and its dialog is not rendered since the user types: ESC drops it and aborts the controller,
and the abort removes its handler at claude.ai. The tool call waits for ever. The same happens to a request
behind the rendered one.

Eight more are kept as configurations to be run by hand, for instance
`tlc -workers 2 -config ToolSpin.cfg MCToolExecutor`; each ends with a violation:

1. `ToolSpin` (`MCToolExecutor`, `TurnEnds`). `getRemainingResults` parks only if no tool is completed
   (`StreamingToolExecutor.ts:467`), but `getCompletedResults` stops at a running unsafe tool. An unknown
   tool is completed by `addTool` at once. Behind a running unsafe tool it is never delivered, so the
   loop spins on microtasks and the running tool's I/O is never served: the turn hangs.
2. `TaskBusyRace` (`MCTaskStore`, `BusyClaimStands`). The busy check locks the list "to prevent TOCTOU
   race conditions" (`tasks.ts:528`), a plain claim the task, and neither looks at the owner again: the
   first claimant was told success and loses the task.
3. `LockTwoStart` (`MCSchedulerLock`, `OneDriver`). A session that reads the lock between its creation and
   its writing takes it for corrupt, removes it and creates its own. Both drive from then on, against
   "only one should drive the cron scheduler" (`cronTasksLock.ts:3`).
4. `TurnOneInput` (`MCTurnQueue`, `OneInput`). A reservation of the query guard has no generation. After
   ESC the `finally` block of the cancelled turn releases the reservation of the next turn, and a third
   command starts beside it ("no concurrent executeUserInput call", `handlePromptSubmit.ts:418`). One of the
   two is put back into the queue when it comes to query; a bash command has run by then and comes back
   as a prompt. On the same paths `setAbortController(null)` takes the controller of the new turn, which
   ESC then cannot stop.
5. `BridgeFailed` (`MCRemoteBridge`, `FailedIsDead`). "onClose fires only for TERMINAL failures"
   (`remoteBridgeCore.ts:456`). A heartbeat of the transport that a refresh replaced gets a 409, and the
   bridge reports that it has failed while the new transport works.
6. `CronMissed` (`MCCronTasks`, `MissedMeansDown`). A session that starts while another drives tells the
   user that a task that is just due was "missed while Claude was not running", and removes it.
7. `TaskStartRace` (`MCTaskStore`, `StartedClaimStands`). `claimTask` locks the file "to prevent race
   conditions" (`tasks.ts:535`). A `TaskUpdate` with the status `in_progress` reads the task before any lock and, when it
   saw no owner, writes its own agent as owner (`TaskUpdateTool.ts:149`, `:188-199`, `:276`). A claim in between
   succeeds, and the task is taken from the agent that was told so. `ClaimStands` is therefore about all updates but
   this one.
8. `CronLate` (`MCCronTasks`, `FiresOnceUnlessDisturbed`). "`inFlight` guards against double-fire during the async
   `removeCronTasks` + chokidar reload" (`cronScheduler.ts:333-334`). The id leaves `inFlight` when the removal is
   written (`:342`); the watcher reloads the list some 0.4 s later, and a tick in between still has the task, has
   forgotten its schedule (`:343`), and fires it again. `FiresOnce` excepts such a tick (`late`).

`HistoryBeforeLive` of `MCRemoteBridge` fails too: after a 401 before the first connect the gate is
drained into the new transport before the history (`remoteBridgeCore.ts:280`).

Other divergences were met while the models were built; no run is kept for them:

- An unsafe tool that starts and ends while a pass is suspended at a `yield` is delivered before an
  earlier call (`StreamingToolExecutor.ts:38` says order of receipt). A `now` command interrupts
  tools whose behaviour is `block` (`:222`).
- `deleteTask` moves the high water mark without the list lock: a deleted id can be given again
  (`tasks.ts:400`). A blocker that is being written does not block (`:584`). A task deleted during a
  claim is reported as claimed (`:536`). Two `blockTask` calls lose one side of a dependency
  (`:471`). A reset does not keep an update from bringing a task back (`:145`). Unassigning reopens
  a task completed meanwhile (`:809`).
- The slower of two sessions that recover a stale scheduler lock removes the lock of the faster
  (`cronTasksLock.ts:109`); two releases of one process may remove another's lock (`:176`).
- `enqueue()` of the uploader drops events instead of blocking (`SerialBatchEventUploader.ts:14`);
  a failed batch is put back into a full buffer (`:44`); a flush after `close()` may never resolve
  (`:124`).
- A prompt in the snapshot of a mid-turn drain that is taken back, or served by the next turn after
  ESC, is attached all the same. The watchdog ends the guard without aborting the query.
  `dequeueAllMatching` keeps the order of arrival, not of priority (`messageQueueManager.ts:242`).

- *Permissions.* A hook that loses the race has persisted its rules, and its interrupt has aborted the
  turn, before it tries to claim. A dialog of a request that was answered elsewhere pops the next one from
  the queue when the user answers it (`REPL.tsx:4650`). ESC on a teammate's dialog leaves the turn of the
  main agent running without a controller, and a teammate's request that ESC drops waits for ever too. A
  teammate's recheck does not look again whether the decision was made
  (`inProcessRunner.ts:315`). After an abort claude.ai still shows its prompt although its reply has no
  handler; a malformed reply removes the handler and decides nothing (`useReplBridge.tsx:382`).
- *Bridge.* A refresh that gets no credentials ends quietly; if it overtook the flush of the history the
  gate stays closed for ever. Messages written between the close of the stream and the start of the gate,
  or buffered in the transport that is closed, are lost (`remoteBridgeCore.ts:482-484`). The uploader
  does not wait for the initial PUT (`:519`). A 401 during a refresh reports `failed`.
- *Cron.* Concurrent adds lose one of the tasks; a
  read of the truncated file loses a removal, a stamp or all tasks. Two sessions that start at once both
  show a missed task.

## What is proved

Seven modules prove, for every value of the constants, what runs check on small instances, and an
eighth what they need of lists. The inductive invariants were first checked by TLC on the instances of
the runs.

| theorem | module | assumes |
| --- | --- | --- |
| `TypeCorrect`, `Exclusion`, `QueueOrder`, `NothingForgotten`, `EveryCallAnswered`, `ContextsInOrder`, `DeliveryOrder`, `DoneIsDone` | `ToolExecutorProofs` | `ToolBounds`, `KindSets` |
| `TypesAreKept`, `IdsAreUnique`, `ClaimsStand`, `NobodyWaitsInACircle` | `TaskStoreProofs` | `StoreConstants`, and what operations there are |
| `TypeCorrect`, `OneOwner`, `NoOrphan`, `DriversTakeTurns` | `CronSchedulerProofs` | `LockConstants` |
| `TypesAreKept`, `NothingFiresTwice`, `NoTaskVanishes` | `CronSchedulerProofs` | `CronConstants` |
| `TypesAreKept`, `OrderKept`, `KeepsPromise`, `FlushSends`, `NobodyForgotten` | `EventUploaderProofs` | `UploaderConstants` |
| `GuardOwned`, `OneAtATime`, `TypesAreKept`, `NoCommandLost`, `NobodyLeftWaiting` | `TurnQueueProofs` | `TurnConstants` |
| `DecidedOnce`, `NoStalePrompt`, `TypesAreKept`, `NoRequestLost` | `PermissionPromptProofs` | `PromptConstants` |
| `EpochIsLatest`, `NothingOpenAfterTeardown`, `OrderKept`, `TypesAreKept`, `SomebodyOpensTheGate` | `RemoteBridgeProofs` | `BridgeConstants` |
| `KeepPicks`, `KeepSet`, `KeepOnce`, `KeepHead` | `FilteringTheorems` | |

**ToolExecutor.** `Exclusive`, `StartsInOrder` and `QueueIsWatched` are not inductive: a scan that resumes
in the middle of the list could start a call behind a queued one, unless nothing before it is still
queued. `IInv` says so: every position where a scan is suspended, the consumer's included, has only
settled calls before it (`ScansSettled`, `Settled`), and calls arrive in the order of their ids
(`Arrived`). `StartLemma` shows that starting the first startable call keeps this, `IdleScanLemma`
that a scan that starts nothing leaves queued calls only behind a running tool (by the least queued
call), `SegmentLemma` joins them for a stretch of a scan.

What tools answer, do to the context and deliver follows from a summary of what any step may do to one
tool (`Summary`: it enters the queue, starts, is given up, collects a message, completes, or is
delivered), which `SummaryLemma` proves once for all actions. On it rest four invariants:

- `ResultsInv`, for `Answered`: a running tool has at most one message that decides its call, and the
  abort of one that has an error adds none.
- `ContextInv`, for `ContextInOrder`: while an unsafe tool executes nothing behind it has started
  (`UnsafeHoldsBack`), so the one whose modifier is applied next is the latest.
- `OrderInv`, for `UnsafeBeforeLater`: what lies before the place where a suspended pass goes on has
  started, and is delivered if it is unsafe (`Passed`); scans that run meanwhile only start later calls.
  It needs that no call names an unknown tool, as the property does: those are completed by `addTool`.
- `DeliveryInv`, for `DoneMeansDelivered`: an id in progress is of a tool that is not delivered yet, or
  whose results are just being yielded, and the last generator is entered with no tool unfinished.

**TaskStore.** `Typed` has the types and the flow: which operations come by each step and what their locals
hold there (`PathOf`, `HoldsOf`). `Keeps(p)` says that a step of p leaves the locals of the others,
so each invariant is a conjunct per process that only p's step can disturb.

`IdsAreUnique` needs that nobody deletes. Its invariant `Numbered` says where the list is locked
(`ListGuardOf`), that every id given is not above the mark, or there is a file above it (`Remembered`), and what
the holder of the lock knows of that at each step (`CountOf`): between the truncation of the mark and
its writing the files are all there is to remember the ids, so a process that dies there loses nothing. `deleteTask`
breaks `CountOf`: it moves the mark without the lock (see above, what the runs show).

`ClaimsStand` needs that nobody claims with the busy check and that no `TaskUpdate` joins its agent to a task it read as
nobody's (`TaskBusyRace` and `TaskStartRace` are why), and that tasks are not both created and deleted, since it relies on `IdsAreUnique` for the new file. Its invariant `Claimed` says what the holder of
a task's lock knows: from the reread on, nobody but the claimant was told that it won (`WonOf`); an update that
keeps an owner keeps the one who was told (`WonOf`), and only a claim or an update by name gives one (`OwnerOf`); nobody works on the task that is being
created (`NewOf`). `Tame` is what a step may do to the tasks without harm to the others' knowledge, `Shy` a step
that touches none, and `OthersShy` shows that all but ten actions are that.

`NobodyWaitsInACircle` has no such restriction: all operations, and crashes. Each holder of a lock is at a step that
its operation takes with that lock (`HolderOf`): a task's lock is taken last, and only create, reset and the busy
claim hold the list's, so a chain of waiting operations has two links at most.

**SchedulerLock.** One driver is not inductive: what makes it true is whose name is in the file. The invariant says that, until
a lock is robbed, the file belongs to the live driver and to whoever is writing its name into it (`Held`), that a
file without its text is being written by the one that made it (`Named`, so that a release that reads it
never mistakes it for another's), that who gives a lock back neither drives nor tries any more
(`Releases`), and that one process at a time runs a session (`OneRunning`, from the guard of `Start`).
`OneOwner` then is a matter of cardinalities: the live drivers are a subset of the one process the file names.
`DriversTakeTurns` is what `CronTasks` assumes: a process comes to drive only when none does (only an attempt that
finds its name in the file makes it one, `TurnLemma`) and ceases to only when it is stopped or gone.

**CronTasks.** Both safety properties need to know where a task is between its fire and the file. A task that fired stays in
`inFlight` of the session that fired it until its removal or its stamp is in the file, and is named by one change at a
time (`Flight`). As long as no two changes overlap and no session ends during one (`disturbed`), the only
session that removes and stamps is the owner (`Drives`), and a change writes to the file as it is
(`WrittenLemma`). So a one-shot task that fired and is neither in flight nor being removed has left the file
(`OneShots`), and a recurring one has a stamp not before its last fire, while no schedule in any memory is due
before the match that follows that fire (`Recurs`; a new owner that sees the task for the first time
anchors at the stamp). For `NothingVanishes` each removal that is under way has its reason already
(`Explained`), and what is added has not been in the file (`Knows`). Ticks that come before a report see what
the file had: as long as none of them was `late`, a task that a tick schedules is in the file as it was loaded, and one
that has a schedule is not due before the match after its last fire (`FreshLemma`). `CheckLemma` is the long one: a tick
fires, schedules, and begins one removal for each task that ends and one stamp for all that go on.

**EventUploader.** `FlushSends` needs no invariant: `DrainLemma` shows that the drain loop, from any buffer and batch,
resolves its callers only where it leaves both empty, or after `close()`. The others rest on `IInv`, whose part `Line`
says that what is unsent, the batch in front, is in the order of the calls, and that what the server has not
seen of it comes after all it has. `NobodyForgotten` follows from the ways in which the loop ends: it takes what
came meanwhile, or resolves its callers. `BatchLemma` says what `takeBatch` takes: a prefix of what can be serialized, not empty unless
nothing is left, never more than `MaxBatch`. `OrderKept` is `Line`. For the refinement (`KeepsPromise`) each
action is shown to be a step of `EventStream` or a stutter, with the batch in flight in front of the buffer as the
queue: sequences in order are equal when they have the same elements, so the conditions of the promise can be
told by sets.

**TurnQueue.** For the guard, the invariant adds `Generations`: a query's generation is not one to come, and no two queries have the same.
`TakesLemma` keeps it when a query starts (its generation is new), `ForceLemma` when the guard is ended by
force (no query has the generation that follows), and `SettleLemma` covers every way in which a turn
ends: with its input put back, run locally, thrown, or its query over, by the owner of the guard or by one
that was overtaken. `OneAtATime` rests on `OneTurn`: until the first forced end, two turns that are not
over are the same, and an idle guard means that all are.

`NoCommandLost` and the types follow from `Goods`. A command that has arrived is accounted for (`NoneLost`), whatever
is put back, drained or settled. That it is delivered once until a forced end needs to know where it
may be (`Once`): in the queue, perhaps with the snapshot of the drain, or in the turn that processes it, or delivered.

`NobodyLeftWaiting` (`Watched`): every step but the effect's own makes it due when it changes what the effect depends
on, and an effect that finds the REPL free takes at least what it peeked at (`TakesSomethingLemma`), so it is
only done when nothing is left for the main thread (`PeekFindsLemma`).

**PermissionPrompt.** The invariant adds that the counter of decisions agrees with the phase (`Claims`), that what
was saved belongs to the author of the decision or to a hook (`SavedByAuthor`), and that hooks and
classifier run for requests of the main agent only, so that no suspended racer touches a teammate's.
Every racer looks and claims in one step (`DecideLemma`); those that only look (a recheck's
`isResolved`) claim again after their await, which is what the proof of `CheckLemma` needs. The types need that a request
stands once in the queue of dialogs (`Dialogs`): it is queued when its phase says that it was not before,
and a filter keeps what is once in it once (`KeepOnce`).

`NoRequestLost` (`Accounted`) needs to know that the dialog shown is the head's, or of a request that left the queue
(`HeadShown`), so that an answer removes the request it decides; one that pops another's entry is where a request is
dropped. `KeepHead` is why a request taken out of the middle does not change the dialog.

**RemoteBridge.** One recovery at a time holds the flag (`OneRecovery`), credentials that were fetched are of
the latest epoch (`FreshCredentials`: nobody else can have moved it), an open transport has it unless
such credentials wait to be used or were lost (`FreshTransport`), and only the last transport may be
open (`Replaced`), not even that one after teardown (`Closes`). For `OrderKept`, transports have rising
epochs (`Epochs`), so that the server takes requests of the current one only. What that one still sends is rising
and comes after what the server has, repeated posts apart (`Line`); while the gate is active the
server has at most the history (`Held`), and a gate that was opened stays open; the history is given to a transport
once (`HistoryOnce`), to the first before any message (`HistoryFirst`), and only to a later one behind messages (`Late`).

`SomebodyOpensTheGate` (`GateTended`): a gate that is active is one that a recovery in progress will end, or that the first
connection will. The step to watch is a connection that comes up while the flag is set: it leaves the gate
closed, and this is harmless since the flag belongs to a recovery that goes on (`Flag`). Teardown opens the
gate (`GateInUse`).

**Filtering.** `Array.prototype.filter` is a recursive function (`Filter`). What it returns is proved by the
least counterexample, with the set of what passes in place of the test.

**Only model-checked.** The liveness properties (fairness and `ENABLED` are outside the prover's
reach). What five of them rest on is proved, for every value of the constants: whoever waits has somebody left to serve
him (`NobodyForgotten` for `FlushesEnd`, `NoRequestLost` for `Answered`, `NobodyWaitsInACircle` for `OperationsEnd`,
`SomebodyOpensTheGate` for `GateOpens`, `NobodyLeftWaiting` for `QueueServed`). These invariants stand in the
proof modules; that those who are left act in the end is what the runs show. Of the safety properties that the runs check all are proved; `UniqueIds` and `ClaimStands` for the
operations named above, and with the others both are false: a deleted id that is given again takes the claims of
the old task with it.

## Plan

What is worth modelling next, in order:

1. `ConsolidationLock` (`services/autoDream/consolidationLock.ts`), with `SchedulerLock`'s way of modelling
   files: two processes that write and re-read, and a rollback that does not look whose the file is.
2. `WorkerState` (`cli/transports/WorkerStateUploader.ts`), beside `EventUploader`: the server ends with the
   last value of every key.
3. Two executors over one environment after `discard()` (`query.ts:918-926`), which does not abort the tools
   of the first; tool batches without streaming; teammate mailboxes with the permissions they carry.
4. `CronTasks` composed with `SchedulerLock` instead of its promise; `RemoteBridge` with `EventUploader`.
5. `TurnQueue`: the `now` priority, immediate commands, subagents' drains.

Proofs: an abstract task list that `TaskStore` implements without the busy check.
