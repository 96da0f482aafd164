------------------------------ MODULE TurnQueue ------------------------------
(***************************************************************************)
(* How the REPL decides which turn runs: the query guard of                *)
(* utils/QueryGuard.ts, the command queue of utils/messageQueueManager.ts, *)
(* the effect that serves it (hooks/useQueueProcessor.ts), executeUserInput*)
(* of utils/handlePromptSubmit.ts, and onQuery and onCancel of             *)
(* screens/REPL.tsx.  A turn is one call of executeUserInput or of onQuery;*)
(* an action is what runs between two awaits that really wait.             *)
(***************************************************************************)
EXTENDS Integers, Sequences, FiniteSets, SequencesExt, Filtering

CONSTANTS
  MaxCommands,  \* bound: commands that arrive
  MaxForced,    \* bound: turns the user cancels or the watchdog gives up
  Kinds         \* the kinds of commands that arrive

\* slash: a prompt that begins with '/'; tick: a prompt of the system (isMeta);
\* note: a task notification, agentNote: one for a subagent; mail: a message
\* for handleIncomingPrompt.
Kind == {"prompt", "slash", "bash", "tick", "note", "agentNote", "mail"}
Commands == 1..MaxCommands

ASSUME TurnConstants ==
  /\ MaxCommands \in Nat /\ MaxForced \in Nat
  /\ Kinds \subseteq Kind

VARIABLES
  kind,       \* the commands that have arrived, by their kinds
  queue,      \* commandQueue
  status,     \* _status of the guard
  generation, \* _generation of the guard
  turn,       \* the turns begun
  controller, \* whose AbortController is the REPL's; 0: nobody's
  dialog,     \* hasActiveLocalJsxUI
  due,        \* has something changed that the effect depends on?
  delivered,  \* how often each command got into a conversation, or ran
  settled,    \* the commands the user took back, and those whose turn threw
  forced      \* how often the guard was ended by force

guard == <<status, generation>>
history == <<delivered, settled>>
vars == <<kind, queue, guard, turn, controller, dialog, due, history, forced>>

Turns == DOMAIN turn
Arrived == DOMAIN kind
Active == status # "idle"

\* A place in the queue.  by: the turn that put the command back, as a prompt.
Entry == [cmd : Commands, by : Nat]
Of(entries) == {e.cmd : e \in ToSet(entries)}
KindOf(e) == IF e.by = 0 THEN kind[e.cmd] ELSE "prompt"

\* input: in processUserInput; query: in query(); drain: query() is making
\* attachments of queued commands.
PC == {"input", "query", "drain", "done"}

TypeOK ==
  /\ kind \in Seq(Kinds) /\ Len(kind) <= MaxCommands
  /\ queue \in Seq(Entry) /\ Of(queue) \subseteq Arrived
  /\ status \in {"idle", "dispatching", "running"} /\ generation \in Nat
  /\ \A t \in Turns :
       /\ turn[t].pc \in PC /\ turn[t].gen \in 0..generation
       /\ turn[t].wrapped \in BOOLEAN /\ turn[t].aborted \in BOOLEAN
       /\ Of(turn[t].cmds) \subseteq Arrived
       /\ turn[t].pc = "drain" <=> turn[t].snapshot # <<>>
  /\ controller \in {0} \cup Turns /\ dialog \in BOOLEAN /\ due \in BOOLEAN
  /\ delivered \in [Commands -> Nat] /\ settled \subseteq Arrived /\ forced \in 0..MaxForced

Init ==
  /\ kind = <<>> /\ queue = <<>> /\ status = "idle" /\ generation = 0
  /\ turn = <<>> /\ controller = 0 /\ dialog = FALSE /\ due = FALSE
  /\ delivered = [c \in Commands |-> 0] /\ settled = {} /\ forced = 0

\* React runs the effect again once the queue, the guard or the dialog changes.
Noticed == due' = (due \/ queue' # queue \/ Active' # Active \/ dialog' # dialog)

Delivers(cs) == delivered' = [c \in Commands |-> delivered[c] + IF c \in cs THEN 1 ELSE 0]

-----------------------------------------------------------------------------
(* QueryGuard, as functions of its status                                  *)

\* Fault (NoReentry): the guard is not reserved before the input is processed.
ReservedLate(s) == s
Reserved(s) == IF s = "idle" THEN "dispatching" ELSE s
Unreserved(s) == IF s = "dispatching" THEN "idle" ELSE s
\* Fault (GuardIsOwned): end() does not compare generations.
OwnsAny(t) == status = "running"
Owns(t) == turn[t].gen = generation /\ status = "running"

\* Fault (TypeOK): the guard starts afresh.
ForceEndAfresh == status' = "idle" /\ generation' = 0
ForceEnd ==
  /\ status' = "idle"
  /\ generation' = generation + IF Active THEN 1 ELSE 0

-----------------------------------------------------------------------------
(* The command queue                                                       *)

Editable(e) == KindOf(e) \in {"prompt", "slash", "bash"}
IsSlashCommand(e) == KindOf(e) = "slash"
MainThread(e) == KindOf(e) # "agentNote"
Later(e) == KindOf(e) \in {"tick", "note", "agentNote"}
Mode(e) == CASE KindOf(e) \in {"prompt", "slash", "tick"} -> "prompt"
             [] KindOf(e) = "bash" -> "bash"
             [] OTHER -> "task-notification"

Without(entries) == LET gone == ToSet(entries) IN Filter(queue, LAMBDA e : e \notin gone)
Queued(cmds, by) == queue \o [i \in DOMAIN cmds |-> [cmd |-> cmds[i], by |-> by]]

\* The commands of the best priority: peek() returns the first of them.
Foremost(s) ==
  LET next == Filter(s, LAMBDA e : ~Later(e)) IN IF next = <<>> THEN s ELSE next

\* Fault (QueueServed): peek() is not told to skip subagents' commands.
PeekAnyone == Foremost(queue)
Peek == Foremost(Filter(queue, MainThread))

\* What processQueueIfReady takes: a slash or bash command by itself, else all
\* of the same mode.
ToProcess ==
  LET peeked == Peek
      next == Head(peeked)
  IN IF peeked = <<>> THEN <<>>
     ELSE IF IsSlashCommand(next) \/ Mode(next) = "bash" THEN <<next>>
     ELSE Filter(queue, LAMBDA e : /\ MainThread(e) /\ ~IsSlashCommand(e)
                                   /\ Mode(e) = Mode(next))

-----------------------------------------------------------------------------
(* Turns                                                                   *)

Begun(entries, pc, gen) ==
  Append(turn, [pc |-> pc, cmds |-> entries, gen |-> gen, wrapped |-> pc = "input",
                aborted |-> FALSE, snapshot |-> <<>>])

\* executeUserInput up to its first await.
StartTurn(entries) ==
  /\ turn' = Begun(entries, "input", 0)
  /\ controller' = Len(turn) + 1
  /\ status' = Reserved(status)
  /\ UNCHANGED generation

Done(t) == [turn EXCEPT ![t] = [@ EXCEPT !.pc = "done", !.cmds = <<>>, !.gen = 0]]

\* handlePromptSubmit.  A bash command may interrupt the tool that is running.
Submit(k) ==
  /\ k \in {"prompt", "slash", "bash"}
  /\ kind' = Append(kind, k)
  /\ LET c == Len(kind) + 1
     IN IF Active
        THEN /\ queue' = Queued(<<c>>, 0)
             /\ \/ UNCHANGED turn
                \/ /\ k = "bash" /\ controller # 0
                   /\ turn' = [turn EXCEPT ![controller].aborted = TRUE]
             /\ UNCHANGED <<guard, controller>>
        ELSE StartTurn(<<[cmd |-> c, by |-> 0]>>) /\ UNCHANGED queue
  /\ UNCHANGED <<dialog, history, forced>> /\ Noticed

\* enqueuePendingNotification.
Notify(k) ==
  /\ k \in {"tick", "note", "agentNote"}
  /\ kind' = Append(kind, k) /\ queue' = Queued(<<Len(kind) + 1>>, 0)
  /\ UNCHANGED <<guard, turn, controller, dialog, history, forced>> /\ Noticed

\* handleIncomingPrompt, when it accepts: a turn that calls onQuery itself.
Incoming ==
  /\ ~Active /\ \A e \in ToSet(queue) : Mode(e) = "task-notification"
  /\ kind' = Append(kind, "mail")
  /\ status' = "running" /\ generation' = generation + 1
  /\ turn' = Begun(<<>>, "query", generation + 1) /\ controller' = Len(turn) + 1
  /\ Delivers({Len(kind) + 1})
  /\ UNCHANGED <<queue, dialog, settled, forced>> /\ Noticed

Arrives(k) ==
  /\ Len(kind) < MaxCommands
  /\ Submit(k) \/ Notify(k) \/ (k = "mail" /\ Incoming)

\* The effect of useQueueProcessor, with processQueueIfReady.
Effect ==
  /\ due
  /\ LET next == ToProcess
     IN IF Active \/ dialog \/ next = <<>>
        THEN due' = FALSE /\ UNCHANGED <<queue, guard, turn, controller>>
        ELSE StartTurn(next) /\ queue' = Without(next) /\ UNCHANGED due
  /\ UNCHANGED <<kind, dialog, history, forced>>

\* onQuery finds a query running: what is not isMeta is put back as prompts.
PutBack(t) ==
  LET again == Filter(turn[t].cmds, LAMBDA e : KindOf(e) # "tick")
  IN /\ status = "running"
     /\ queue' = Queued([i \in DOMAIN again |-> again[i].cmd], t)
     /\ turn' = Done(t)
     /\ UNCHANGED <<kind, guard, controller, dialog, history, forced>> /\ Noticed

\* processUserInput returns and onQuery starts a query.
BeginQuery(t) ==
  /\ status # "running"
  /\ status' = "running" /\ generation' = generation + 1
  /\ turn' = [turn EXCEPT ![t].pc = "query", ![t].gen = generation + 1, ![t].cmds = <<>>]
  /\ Delivers(Of(turn[t].cmds))
  /\ UNCHANGED <<kind, queue, controller, dialog, settled, forced>> /\ Noticed

\* It returns shouldQuery FALSE: onQuery starts the guard and ends it again.
RunLocally(t) ==
  /\ status # "running"
  /\ status' = "idle" /\ generation' = generation + 1 /\ controller' = 0
  /\ turn' = Done(t) /\ Delivers(Of(turn[t].cmds))
  /\ UNCHANGED <<kind, queue, dialog, settled, forced>> /\ Noticed

\* It returns no messages (/model, /theme).
RunSilently(t) ==
  /\ \E e \in ToSet(turn[t].cmds) : IsSlashCommand(e)
  /\ status' = Unreserved(status) /\ controller' = 0
  /\ turn' = Done(t) /\ Delivers(Of(turn[t].cmds))
  /\ UNCHANGED <<kind, queue, generation, dialog, settled, forced>> /\ Noticed

\* It throws: only the finally block runs.
Throw(t) ==
  /\ status' = Unreserved(status)
  /\ turn' = Done(t) /\ settled' = settled \cup Of(turn[t].cmds)
  /\ UNCHANGED <<kind, queue, generation, controller, dialog, delivered, forced>>
  /\ Noticed

InputDone(t) ==
  /\ turn[t].pc = "input"
  /\ PutBack(t) \/ BeginQuery(t) \/ RunLocally(t) \/ RunSilently(t) \/ Throw(t)

\* query.ts, after the tools of a round: the queued commands it will attach.
DrainStart(t) ==
  /\ turn[t].pc = "query" /\ ~turn[t].aborted
  /\ \E sleepRan \in BOOLEAN :
       LET snapshot == Filter(queue, LAMBDA e : /\ MainThread(e) /\ ~IsSlashCommand(e)
                                                /\ Mode(e) # "bash"
                                                /\ sleepRan \/ ~Later(e))
       IN /\ snapshot # <<>>
          /\ turn' = [turn EXCEPT ![t].pc = "drain", ![t].snapshot = snapshot]
  /\ UNCHANGED <<kind, queue, guard, controller, dialog, due, history, forced>>

\* Fault (NothingLost): what is removed is looked up again, not the snapshot.
DrainEndAll(t) ==
  /\ turn[t].pc = "drain"
  /\ queue' = Filter(queue, LAMBDA e : ~MainThread(e) \/ IsSlashCommand(e) \/ Mode(e) = "bash")
  /\ turn' = [turn EXCEPT ![t].pc = "query", ![t].snapshot = <<>>]
  /\ Delivers(Of(turn[t].snapshot))
  /\ UNCHANGED <<kind, guard, controller, dialog, settled, forced>> /\ Noticed

\* The attachments are made: the snapshot is removed from the queue.
DrainEnd(t) ==
  /\ turn[t].pc = "drain"
  /\ queue' = Without(turn[t].snapshot)
  /\ turn' = [turn EXCEPT ![t].pc = "query", ![t].snapshot = <<>>]
  /\ Delivers(Of(turn[t].snapshot))
  /\ UNCHANGED <<kind, guard, controller, dialog, settled, forced>> /\ Noticed

\* query() is over, or threw: onQuery's finally, then executeUserInput's.
QueryEnd(t) ==
  /\ turn[t].pc = "query"
  /\ LET ended == IF Owns(t) THEN "idle" ELSE status
     IN status' = IF turn[t].wrapped THEN Unreserved(ended) ELSE ended
  /\ controller' = IF Owns(t) THEN 0 ELSE controller
  /\ turn' = Done(t)
  /\ UNCHANGED <<kind, queue, generation, dialog, history, forced>> /\ Noticed

-----------------------------------------------------------------------------
(* The user and the clock                                                  *)

\* handleCancel with a task to cancel, and onCancel.  A local JSX command has
\* the keyboard for itself.
Cancel ==
  /\ forced < MaxForced /\ forced' = forced + 1
  /\ ~dialog /\ controller # 0 /\ ~turn[controller].aborted
  /\ ForceEnd
  /\ turn' = [turn EXCEPT ![controller].aborted = TRUE] /\ controller' = 0
  /\ UNCHANGED <<kind, queue, dialog, history>> /\ Noticed

\* The watchdog of the guard: nothing is aborted.
Timeout ==
  /\ forced < MaxForced /\ forced' = forced + 1
  /\ status = "running" /\ ForceEnd
  /\ UNCHANGED <<kind, queue, turn, controller, dialog, history>> /\ Noticed

\* popAllEditable: the user takes the queued commands back into the input.
Pop ==
  LET editable == Filter(queue, Editable)
  IN /\ editable # <<>>
     /\ queue' = Without(editable) /\ settled' = settled \cup Of(editable)
     /\ UNCHANGED <<kind, guard, turn, controller, dialog, delivered, forced>> /\ Noticed

\* A local JSX command shows its UI during a turn, and the user closes it.
OpenDialog ==
  /\ Active /\ ~dialog /\ dialog' = TRUE
  /\ UNCHANGED <<kind, queue, guard, turn, controller, history, forced>> /\ Noticed
CloseDialog ==
  /\ dialog /\ dialog' = FALSE
  /\ UNCHANGED <<kind, queue, guard, turn, controller, history, forced>> /\ Noticed

Next ==
  \/ \E k \in Kinds : Arrives(k)
  \/ Effect
  \/ \E t \in Turns : InputDone(t) \/ DrainStart(t) \/ DrainEnd(t) \/ QueryEnd(t)
  \/ Cancel \/ Timeout \/ Pop \/ OpenDialog \/ CloseDialog

Spec == Init /\ [][Next]_vars

\* React runs a due effect; inputs and queries come to an end (they throw if
\* nothing else); the user closes what is shown.
FairSpec ==
  /\ Spec /\ WF_vars(Effect) /\ WF_vars(CloseDialog)
  /\ WF_vars(\E t \in Turns : InputDone(t))
  /\ WF_vars(\E t \in Turns : DrainEnd(t)) /\ WF_vars(\E t \in Turns : QueryEnd(t))

-----------------------------------------------------------------------------
(* Properties                                                              *)

\* A guard that is not idle belongs to a turn that will release it: a running
\* query of the current generation, or an input still being processed.  The
\* spinner cannot stay on with nobody behind it.  And a query keeps the guard it
\* took until it ends or is ended by force: a turn that ends late does not release
\* the guard of another.
GuardIsOwned ==
  /\ \A t \in Turns :
       turn[t].pc \in {"query", "drain"} /\ turn[t].gen = generation => status = "running"
  /\ status = "running" => \E t \in Turns : turn[t].pc \in {"query", "drain"} /\ Owns(t)
  /\ status = "dispatching" => \E t \in Turns : turn[t].pc = "input"

\* As long as nothing is cancelled and no turn times out, there is one turn at a
\* time, whatever arrives while its input is processed.
NoReentry ==
  forced = 0 => Cardinality({t \in Turns : turn[t].pc # "done"}) <= 1

\* A command is in the queue or in a turn that will deliver it, or it has been
\* delivered, taken back, or has failed: turns that drain the queue, collide or
\* are cancelled lose none, except the system's ticks.  And it is delivered once,
\* as long as nothing is cancelled and no turn times out: neither by two drains nor
\* by a drain and a turn of its own.
NothingLost ==
  /\ \A c \in Arrived :
       \/ kind[c] = "tick" \/ delivered[c] > 0 \/ c \in settled \cup Of(queue)
       \/ \E t \in Turns : turn[t].pc = "input" /\ c \in Of(turn[t].cmds)
  /\ forced = 0 => \A c \in Arrived : delivered[c] <= 1

\* A command for the main thread does not stay in the queue, whatever subagents'
\* notifications are queued before it and whatever dialog was open.
QueueServed ==
  \A c \in Commands :
    (\E e \in ToSet(queue) : e.cmd = c /\ MainThread(e)) ~> (c \notin Of(queue))

\* Of the turns that are not cancelled, at most one is processing its input.
OneInput ==
  Cardinality({t \in Turns : turn[t].pc = "input" /\ ~turn[t].aborted}) <= 1
=============================================================================
