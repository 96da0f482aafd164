---------------------------- MODULE ToolExecutor ----------------------------
(***************************************************************************)
(* StreamingToolExecutor: runs the tool calls of one assistant message     *)
(* while the message is still streaming in, and the loop of query() that   *)
(* feeds it and consumes it.                                               *)
(*                                                                         *)
(* The program is single-threaded JavaScript.  The actors are coroutines:  *)
(*   - the consumer: query() and the two result generators it iterates;    *)
(*   - one processQueue() scan per addTool, per finished tool and per      *)
(*     round of getRemainingResults; a scan suspends after every tool it   *)
(*     starts (await executeTool), so several are alive at once;           *)
(*   - one runToolUse generator per executing tool, which is I/O.          *)
(* One action is what runs between two suspension points.  pc = "pass" or  *)
(* "loop" means the consumer holds the thread in the middle of such a      *)
(* stretch: nothing else runs then (Free).                                 *)
(***************************************************************************)
EXTENDS Integers, Sequences, FiniteSets

CONSTANTS
  MaxTools,         \* bound: tool calls in the message
  MaxProgress,      \* bound: undelivered progress messages of a tool
  MaxMessages,      \* bound: messages a tool collects besides a synthetic one
  Kinds,            \* the tools a call may name
  Unknown,          \* kinds that are not in toolDefinitions
  ConcurrencySafe,  \* kinds whose isConcurrencySafe(input) is true
  Bash,             \* kinds whose errors cancel their siblings
  Cancellable,      \* kinds whose interruptBehavior is 'cancel'
  NoKind            \* the kind of a call that has not arrived

ASSUME ToolBounds == MaxTools \in Nat /\ MaxProgress \in Nat /\ MaxMessages \in Nat
\* addTool records an unknown tool as concurrency safe.
ASSUME KindSets == /\ Unknown \subseteq ConcurrencySafe
                   /\ ConcurrencySafe \subseteq Kinds
                   /\ Bash \subseteq Kinds \ Unknown
                   /\ Cancellable \subseteq Kinds \ Unknown
                   /\ NoKind \notin Kinds

ToolIds == 1..MaxTools
Positions == 1..(MaxTools + 1)

VARIABLES
  kind,        \* what each call names
  status,      \* TrackedTool.status; "absent" before addTool
  progress,    \* how many messages pendingProgress holds
  results,     \* the messages each tool has collected, as their classes
  context,     \* the tools whose context modifiers were applied, in order
  hasErrored, discarded,
  parentAbort, \* toolUseContext.abortController: "none" or its reason
  inProgress,  \* the ids setInProgressToolUseIDs holds
  scans,       \* suspended processQueue() scans: how many will resume at each position
  pc, mode, pos, item,  \* the consumer: see ConsumerVars
  cpos,        \* where the consumer's own scan resumes (0: it has returned)
  waitSet,     \* the promises the consumer races on
  armed,       \* progressAvailableResolve is defined: its promise is not resolved
  out          \* history: the tools whose results were delivered, in order

toolVars == <<kind, status, progress, results, context, inProgress>>
abortVars == <<hasErrored, discarded, parentAbort>>
\* pc: where the consumer is; mode: which generator it iterates; pos: the tool
\* the generator is at; item: what it yielded there.
consumerVars == <<pc, mode, pos, item, cpos, waitSet, out>>
vars == <<toolVars, abortVars, scans, consumerVars, armed>>

Statuses == {"absent", "queued", "executing", "completed", "yielded"}
AbortReasons == {"streaming_fallback", "sibling_error", "user_interrupted"}
Messages == AbortReasons \cup {"unknown", "ok", "err", "aux"}

TypeOK ==
  /\ kind \in [ToolIds -> Kinds \cup {NoKind}]
  /\ status \in [ToolIds -> Statuses]
  /\ progress \in [ToolIds -> Nat]
  /\ results \in [ToolIds -> Seq(Messages)]
  /\ context \in Seq(ToolIds)
  /\ hasErrored \in BOOLEAN /\ discarded \in BOOLEAN
  /\ parentAbort \in {"none", "interrupt", "abort"}
  /\ inProgress \subseteq ToolIds
  /\ scans \in [Positions -> Nat]
  /\ pc \in {"stream", "pass", "item", "loop", "scan", "parked", "done", "gone"}
  /\ mode \in {"streaming", "remaining", "final"}
  /\ pos \in Positions
  /\ item \in {"none", "progress", "results"}
  /\ cpos \in Positions \cup {0}
  /\ waitSet \subseteq ToolIds
  /\ armed \in BOOLEAN
  /\ out \in Seq(ToolIds)

Init ==
  /\ kind = [i \in ToolIds |-> NoKind]
  /\ status = [i \in ToolIds |-> "absent"]
  /\ progress = [i \in ToolIds |-> 0]
  /\ results = [i \in ToolIds |-> <<>>]
  /\ context = <<>>
  /\ hasErrored = FALSE /\ discarded = FALSE
  /\ parentAbort = "none"
  /\ inProgress = {}
  /\ scans = [p \in Positions |-> 0]
  /\ pc = "stream" /\ mode = "streaming" /\ pos = 1 /\ item = "none"
  /\ cpos = 0 /\ waitSet = {} /\ armed = FALSE /\ out = <<>>

-----------------------------------------------------------------------------
(* Reading the state                                                       *)

Safe(i) == kind[i] \in ConcurrencySafe
Executing == {i \in ToolIds : status[i] = "executing"}
Free == pc \notin {"pass", "loop"}

\* thisToolErrored: this tool itself delivered an error result.
Errored(i) == \E n \in DOMAIN results[i] : results[i][n] = "err"

\* getAbortReason, in the order the code asks.
AbortReason(i) ==
  IF discarded THEN "streaming_fallback"
  ELSE IF hasErrored THEN "sibling_error"
  ELSE IF parentAbort = "abort" THEN "user_interrupted"
  ELSE IF parentAbort = "interrupt" /\ kind[i] \in Cancellable THEN "user_interrupted"
  ELSE "none"

\* Fault (DoneMeansDelivered): only the queue counts as unfinished.
HasUnfinishedToolsQueueOnly == \E i \in ToolIds : status[i] = "queued"

HasUnfinishedTools == \E i \in ToolIds : status[i] \notin {"absent", "yielded"}
HasCompletedResults == \E i \in ToolIds : status[i] = "completed"
HasPendingProgress == \E i \in ToolIds : progress[i] > 0

-----------------------------------------------------------------------------
(* processQueue and executeTool                                            *)

\* Fault (Exclusive): the candidate's own safety is not asked.
CanExecuteIgnoringSelf(tk, ts, i) ==
  \A j \in ToolIds : ts[j] = "executing" => tk[j] \in ConcurrencySafe

\* Fault (ContextInOrder): no check at all.
CanExecuteAlways(tk, ts, i) == TRUE

\* A call as the scan sees it: tk and ts are kind and status, with the call
\* being added already in them.
CanExecute(tk, ts, i) ==
  \A j \in ToolIds : ts[j] = "executing" =>
      tk[j] \in ConcurrencySafe /\ tk[i] \in ConcurrencySafe

\* Fault (UnsafeBeforeLater): the break is missing.
StartableNoBreak(tk, ts, p) ==
  {i \in ToolIds : /\ i >= p /\ ts[i] = "queued" /\ CanExecute(tk, ts, i)
                   /\ \A k \in ToolIds : k >= p /\ k < i /\ ts[k] = "queued" =>
                        ~CanExecute(tk, ts, k)}

\* The tool a scan at position p starts: the first queued one that can
\* execute, unless a queued unsafe tool before it ends the scan.
Startable(tk, ts, p) ==
  {i \in ToolIds : /\ i >= p /\ ts[i] = "queued" /\ CanExecute(tk, ts, i)
                   /\ \A k \in ToolIds : k >= p /\ k < i /\ ts[k] = "queued" =>
                        tk[k] \in ConcurrencySafe /\ ~CanExecute(tk, ts, k)}

\* executeTool: with an abort reason the tool completes on the spot with a
\* synthetic error and never runs.
Start(ts, i) ==
  /\ status' = [ts EXCEPT ![i] = IF AbortReason(i) = "none" THEN "executing" ELSE "completed"]
  /\ results' = IF AbortReason(i) = "none" THEN results
                ELSE [results EXCEPT ![i] = <<AbortReason(i)>>]
  /\ inProgress' = inProgress \cup {i}

\* How many new scans the start spawns: the .finally of a promise that has
\* already settled.
SpawnedBy(i) == IF AbortReason(i) = "none" THEN 0 ELSE 1

Plus(bag, p, n) == [bag EXCEPT ![p] = @ + n]

\* A stretch of a background scan from position p: up to the await after the
\* first start, or to its end.
Segment(tk, ts, p, bag) ==
  \/ /\ Startable(tk, ts, p) = {}
     /\ status' = ts /\ scans' = bag
     /\ UNCHANGED <<results, inProgress>>
  \/ \E i \in Startable(tk, ts, p) :
     /\ Start(ts, i)
     /\ scans' = Plus(Plus(bag, i + 1, 1), 1, SpawnedBy(i))

\* A background scan that resumes after its await.
ScanStep(p) ==
  /\ Free /\ scans[p] > 0
  /\ Segment(kind, status, p, Plus(scans, p, -1))
  /\ UNCHANGED <<kind, progress, context, abortVars, consumerVars, armed>>

\* The same stretch for the scan getRemainingResults awaits.
OwnSegment(p) ==
  \/ /\ Startable(kind, status, p) = {}
     /\ cpos' = 0
     /\ UNCHANGED <<status, results, inProgress, scans>>
  \/ \E i \in Startable(kind, status, p) :
     /\ Start(status, i)
     /\ cpos' = i + 1
     /\ scans' = Plus(scans, 1, SpawnedBy(i))

-----------------------------------------------------------------------------
(* The updates of a running tool (the for-await loop of collectResults)    *)

Running(i) == Free /\ status[i] = "executing"
HasResult(i) == \E n \in DOMAIN results[i] : results[i][n] \in {"ok", "err"}

\* Fault (Answered): thisToolErrored is not looked at.
CancelledAnyTool(i) == AbortReason(i) # "none"

\* An update that finds the call cancelled is replaced by a synthetic error.
Cancelled(i) == AbortReason(i) # "none" /\ ~Errored(i)

\* Fault (QueueDrains): no .finally.
CompleteNoFinally(i, rs) ==
  /\ status' = [status EXCEPT ![i] = "completed"]
  /\ results' = [results EXCEPT ![i] = rs]
  /\ context' = context
  /\ scans' = scans

\* The end of collectResults, with rs the messages: the modifiers of an unsafe
\* tool are applied, and .finally starts a scan.
Complete(i, rs) ==
  /\ status' = [status EXCEPT ![i] = "completed"]
  /\ results' = [results EXCEPT ![i] = rs]
  /\ context' = IF ~Safe(i) /\ \E n \in DOMAIN rs : rs[n] = "ok"
                THEN Append(context, i) ELSE context
  /\ scans' = Plus(scans, 1, 1)

\* Any update of a cancelled tool, whatever it carries.
CancelledUpdate(i) ==
  /\ Running(i) /\ Cancelled(i)
  /\ Complete(i, Append(results[i], AbortReason(i)))
  /\ UNCHANGED <<kind, progress, inProgress, abortVars, consumerVars, armed>>

\* A progress message: queued apart, and the consumer's promise is resolved.
ProgressUpdate(i) ==
  /\ Running(i) /\ ~Cancelled(i) /\ progress[i] < MaxProgress
  /\ progress' = [progress EXCEPT ![i] = @ + 1]
  /\ armed' = FALSE
  /\ UNCHANGED <<kind, status, results, context, inProgress, abortVars, scans, consumerVars>>

\* The tool_result.  An error of a Bash tool cancels its siblings.
ResultUpdate(i, r) ==
  /\ Running(i) /\ ~Cancelled(i) /\ ~HasResult(i)
  /\ results' = [results EXCEPT ![i] = Append(@, r)]
  /\ hasErrored' = (hasErrored \/ (r = "err" /\ kind[i] \in Bash))
  /\ UNCHANGED <<kind, status, progress, context, inProgress, discarded, parentAbort,
                 scans, consumerVars, armed>>

\* A message after the result: a hook attachment or a message the tool adds.
TrailingUpdate(i) ==
  /\ Running(i) /\ ~Cancelled(i) /\ HasResult(i) /\ Len(results[i]) < MaxMessages
  /\ results' = [results EXCEPT ![i] = Append(@, "aux")]
  /\ UNCHANGED <<kind, status, progress, context, inProgress, abortVars, scans,
                 consumerVars, armed>>

\* The generator returns.  runToolUse never returns without a tool_result.
Finish(i) ==
  /\ Running(i) /\ HasResult(i)
  /\ Complete(i, results[i])
  /\ UNCHANGED <<kind, progress, inProgress, abortVars, consumerVars, armed>>

\* A permission dialog is rejected: the tool's controller aborts, and its
\* listener passes the abort to the query's controller unless a sibling error
\* has aborted it before, the query is aborted already, or this is discarded.
RejectPermission(i) ==
  /\ Running(i) /\ ~HasResult(i)
  /\ parentAbort = "none" /\ ~hasErrored /\ ~discarded
  /\ parentAbort' = "abort"
  /\ UNCHANGED <<toolVars, hasErrored, discarded, scans, consumerVars, armed>>

\* The user aborts the turn (ESC), or a 'now' command interrupts it.
UserAbort(reason) ==
  /\ Free /\ pc # "done" /\ parentAbort = "none"
  /\ parentAbort' = reason
  /\ UNCHANGED <<toolVars, hasErrored, discarded, scans, consumerVars, armed>>

-----------------------------------------------------------------------------
(* The consumer                                                            *)

\* A tool_use block streams in: addTool, then a pass over the results.
AddTool(k) ==
  /\ pc = "stream" /\ parentAbort = "none"
  /\ \E i \in ToolIds :
     /\ status[i] = "absent" /\ \A j \in 1..(i - 1) : status[j] # "absent"
     /\ kind' = [kind EXCEPT ![i] = k]
     /\ IF k \in Unknown
        THEN /\ status' = [status EXCEPT ![i] = "completed"]
             /\ results' = [results EXCEPT ![i] = <<"unknown">>]
             /\ UNCHANGED <<inProgress, scans>>
        ELSE Segment(kind', [status EXCEPT ![i] = "queued"], 1, scans)
  /\ pc' = "pass" /\ pos' = 1
  /\ UNCHANGED <<progress, context, abortVars, mode, item, cpos, waitSet, armed, out>>

\* Any other message of the stream: only the pass.
StreamMessage ==
  /\ pc = "stream" /\ parentAbort = "none"
  /\ pc' = "pass" /\ pos' = 1
  /\ UNCHANGED <<toolVars, abortVars, scans, mode, item, cpos, waitSet, armed, out>>

\* The stream ends, or the query finds itself aborted: getRemainingResults.
StreamEnd ==
  /\ pc = "stream"
  /\ pc' = "loop" /\ mode' = "remaining"
  /\ UNCHANGED <<toolVars, abortVars, scans, pos, item, cpos, waitSet, armed, out>>

\* Streaming fallback: the executor is discarded and its consumer goes away.
Discard ==
  /\ pc = "stream"
  /\ discarded' = TRUE /\ pc' = "gone"
  /\ UNCHANGED <<toolVars, hasErrored, parentAbort, scans, mode, pos, item, cpos,
                 waitSet, armed, out>>

\* The head of the while loop of getRemainingResults.
LoopRound ==
  /\ pc = "loop" /\ HasUnfinishedTools
  /\ OwnSegment(1) /\ pc' = "scan"
  /\ UNCHANGED <<kind, progress, context, abortVars, mode, pos, item, waitSet, armed, out>>

LoopExit ==
  /\ pc = "loop" /\ ~HasUnfinishedTools
  /\ pc' = "pass" /\ mode' = "final" /\ pos' = 1
  /\ UNCHANGED <<toolVars, abortVars, scans, item, cpos, waitSet, armed, out>>

\* The scan the consumer awaits goes on.
OwnScanStep ==
  /\ pc = "scan" /\ cpos > 0
  /\ OwnSegment(cpos)
  /\ UNCHANGED <<kind, progress, context, abortVars, pc, mode, pos, item, waitSet, armed, out>>

OwnScanReturns ==
  /\ pc = "scan" /\ cpos = 0
  /\ pc' = "pass" /\ pos' = 1
  /\ UNCHANGED <<toolVars, abortVars, scans, mode, item, cpos, waitSet, armed, out>>

\* getCompletedResults goes on from pos: the first tool it does not pass over.
Stops == {i \in ToolIds : /\ i >= pos
                          /\ \/ progress[i] > 0 \/ status[i] = "completed"
                             \/ status[i] = "executing" /\ ~Safe(i)}
IsFirstStop(i) == i \in Stops /\ \A j \in Stops : i <= j

\* Fault (TypeOK): a message is shifted without asking for one.
PassProgressUnchecked ==
  /\ pc = "pass"
  /\ \E i \in ToolIds : /\ IsFirstStop(i)
                        /\ progress' = [progress EXCEPT ![i] = @ - 1]
                        /\ pos' = i
  /\ pc' = "item" /\ item' = "progress"
  /\ UNCHANGED <<kind, status, results, context, inProgress, abortVars, scans, mode,
                 cpos, waitSet, armed, out>>

PassProgress ==
  /\ pc = "pass"
  /\ \E i \in ToolIds : /\ IsFirstStop(i) /\ progress[i] > 0
                        /\ progress' = [progress EXCEPT ![i] = @ - 1]
                        /\ pos' = i
  /\ pc' = "item" /\ item' = "progress"
  /\ UNCHANGED <<kind, status, results, context, inProgress, abortVars, scans, mode,
                 cpos, waitSet, armed, out>>

PassResults ==
  /\ pc = "pass"
  /\ \E i \in ToolIds : /\ IsFirstStop(i) /\ progress[i] = 0 /\ status[i] = "completed"
                        /\ status' = [status EXCEPT ![i] = "yielded"]
                        /\ out' = Append(out, i)
                        /\ pos' = i
  /\ pc' = "item" /\ item' = "results"
  /\ UNCHANGED <<kind, progress, results, context, inProgress, abortVars, scans, mode,
                 cpos, waitSet, armed>>

\* The pass is over: no tool is left, or an unsafe one is executing.
PassOver == pc = "pass" /\ \A i \in ToolIds :
              IsFirstStop(i) => progress[i] = 0 /\ status[i] = "executing"

\* getRemainingResults waits only if nothing is there to deliver.
MustWait == Executing # {} /\ ~HasCompletedResults /\ ~HasPendingProgress

StreamPassEnd ==
  /\ PassOver /\ mode = "streaming"
  /\ pc' = "stream" /\ pos' = 1
  /\ UNCHANGED <<toolVars, abortVars, scans, mode, item, cpos, waitSet, armed, out>>

Park ==
  /\ PassOver /\ mode = "remaining" /\ MustWait
  /\ pc' = "parked" /\ waitSet' = Executing /\ armed' = TRUE /\ pos' = 1
  /\ UNCHANGED <<toolVars, abortVars, scans, mode, item, cpos, out>>

NextRound ==
  /\ PassOver /\ mode = "remaining" /\ ~MustWait
  /\ pc' = "loop" /\ pos' = 1
  /\ UNCHANGED <<toolVars, abortVars, scans, mode, item, cpos, waitSet, armed, out>>

FinalPassEnd ==
  /\ PassOver /\ mode = "final"
  /\ pc' = "done" /\ pos' = 1
  /\ UNCHANGED <<toolVars, abortVars, scans, mode, item, cpos, waitSet, armed, out>>

\* The caller asks for the next item; after a tool's last result the generator
\* calls markToolUseAsComplete.
Resume ==
  /\ pc = "item" /\ pc' = "pass" /\ item' = "none"
  /\ IF item = "results"
     THEN inProgress' = inProgress \ {pos} /\ pos' = pos + 1
     ELSE UNCHANGED <<inProgress, pos>>
  /\ UNCHANGED <<kind, status, progress, results, context, abortVars, scans, mode, cpos,
                 waitSet, armed, out>>

\* Fault (TurnEnds): the race waits for progress only.
WakeOnProgress ==
  /\ pc = "parked" /\ ~armed
  /\ pc' = "loop" /\ waitSet' = {}
  /\ UNCHANGED <<toolVars, abortVars, scans, mode, pos, item, cpos, armed, out>>

\* Promise.race settles: a tool it waits for completed, or there is progress.
Wake ==
  /\ pc = "parked"
  /\ (\E i \in waitSet : status[i] # "executing") \/ ~armed
  /\ pc' = "loop" /\ waitSet' = {}
  /\ UNCHANGED <<toolVars, abortVars, scans, mode, pos, item, cpos, armed, out>>

\* The turn is over and nothing is left running.
Terminated ==
  /\ pc \in {"done", "gone"} /\ Executing = {} /\ \A p \in Positions : scans[p] = 0
  /\ UNCHANGED vars

ConsumerSync == PassProgress \/ PassResults \/ StreamPassEnd \/ Park \/ NextRound
                \/ FinalPassEnd \/ LoopRound \/ LoopExit
ConsumerAsync == OwnScanStep \/ OwnScanReturns \/ Resume \/ Wake
Consumer == ConsumerSync \/ ConsumerAsync \/ StreamMessage \/ StreamEnd \/ Discard
            \/ \E k \in Kinds : AddTool(k)
ToolUpdate(i) == \/ CancelledUpdate(i) \/ ProgressUpdate(i) \/ TrailingUpdate(i)
                 \/ \E r \in {"ok", "err"} : ResultUpdate(i, r)
                 \/ Finish(i) \/ RejectPermission(i)

Next == \/ Consumer
        \/ \E p \in Positions : ScanStep(p)
        \/ \E i \in ToolIds : ToolUpdate(i)
        \/ \E reason \in {"interrupt", "abort"} : UserAbort(reason)
        \/ Terminated

Spec == Init /\ [][Next]_vars

-----------------------------------------------------------------------------
(* Fairness.  Coroutines the engine has scheduled run: the microtask queue *)
(* is FIFO, so a scan that stays suspended is resumed even if the consumer *)
(* takes the thread again and again (strong fairness).  A running tool     *)
(* answers, but its I/O is delivered by the event loop, and that runs only *)
(* when the consumer has no microtask of its own to run (Idle).            *)
(* Nothing is assumed of the model's stream, the user or progress.         *)

Idle == pc \in {"stream", "item", "parked", "done", "gone"}

ToolAnswers(i) == \/ CancelledUpdate(i) \/ Finish(i)
                  \/ \E r \in {"ok", "err"} : ResultUpdate(i, r)

Fairness == /\ WF_vars(ConsumerSync) /\ WF_vars(ConsumerAsync)
            /\ \A p \in Positions : SF_vars(ScanStep(p))
            /\ \A i \in ToolIds : SF_vars(Idle /\ ToolAnswers(i))

FairSpec == Spec /\ Fairness

-----------------------------------------------------------------------------
(* Safety                                                                  *)

\* "Non-concurrent tools must execute alone": however the scans interleave, an
\* executing unsafe tool is the only one executing (canExecuteTool).
Exclusive == \A i, j \in Executing : i # j => Safe(i) /\ Safe(j)

\* The queue is served in order: no call has left the queue while an earlier
\* one is still in it (the break in processQueue, and scans that resume in the
\* middle).  Unknown tools never enter the queue.
StartsInOrder ==
  \A i, j \in ToolIds :
    i < j /\ status[i] = "queued" /\ status[j] \in {"executing", "completed", "yielded"}
      => kind[j] \in Unknown

\* A queue nobody executes is a queue a scan is about to look at: when calls
\* are queued and nothing is executing, a scan is suspended, so a queued call
\* cannot be forgotten (the .finally of executeTool), not even by an executor
\* whose consumer is gone.
QueueIsWatched ==
  (\E i \in ToolIds : status[i] = "queued") /\ Executing = {}
    => \E p \in Positions : scans[p] > 0

\* What an unsafe tool did is told before what was called after it: unless the
\* message names an unknown tool, every call delivered before an unsafe one was
\* made before it (the break in getCompletedResults, which resumes in the
\* middle of a pass while scans start and finish tools behind its back).
UnsafeBeforeLater ==
  (\A i \in ToolIds : kind[i] \notin Unknown) =>
    \A m, n \in DOMAIN out : m < n /\ ~Safe(out[n]) => out[m] < out[n]

\* Context modifiers are applied in the order of the calls, so an unsafe tool
\* never undoes what a later one did to the context.
ContextInOrder == \A m, n \in DOMAIN context : m < n => context[m] < context[n]

ToolResults(i) == {n \in DOMAIN results[i] : results[i][n] # "aux"}

\* Every call that ends is answered, and a tool that reported an error is
\* answered once, even if siblings, the user or a fallback cancel it afterwards
\* (thisToolErrored).
Answered ==
  \A i \in ToolIds : status[i] \in {"completed", "yielded"} =>
    /\ ToolResults(i) # {}
    /\ Errored(i) => Cardinality(ToolResults(i)) = 1

\* When getRemainingResults ends, every call was delivered, nothing runs, and
\* no id is left among the tools in progress.
DoneMeansDelivered ==
  pc = "done" =>
    /\ inProgress = {} /\ ~HasPendingProgress
    /\ \A i \in ToolIds : status[i] # "absent" => \E n \in DOMAIN out : out[n] = i

-----------------------------------------------------------------------------
(* Liveness                                                                *)

\* "Wait for remaining tools and yield their results as they complete": once
\* getRemainingResults is called it ends.
TurnEnds == pc = "loop" ~> pc = "done"

\* A queued call is run or cancelled, also when the executor was discarded and
\* only the scans of .finally are left to serve the queue.
QueueDrains == \A i \in ToolIds :
                 status[i] = "queued" ~> status[i] \in {"completed", "yielded"}
=============================================================================
