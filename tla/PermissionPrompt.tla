--------------------------- MODULE PermissionPrompt ---------------------------
(***************************************************************************)
(* How a permission request gets its one answer: useCanUseTool,            *)
(* handleInteractivePermission with its resolve-once guard, the requests of*)
(* in-process teammates (utils/swarm/inProcessRunner.ts), and the queue of *)
(* dialogs of screens/REPL.tsx.  The user, hooks, the classifier, claude.ai*)
(* (the bridge), a chat channel and a recheck race for each request.       *)
(***************************************************************************)
EXTENDS Naturals, Sequences, SequencesExt, Filtering

CONSTANTS
  Main,       \* requests of the main agent: they share one AbortController
  Teammates,  \* requests of in-process teammates, each with its own
  Remotes,    \* the remote sides that are connected
  MaxCancels, \* bound: ESC, remote interrupts, killed teammates
  MaxSwitches \* bound: mode changes that recheck what is queued

Requests == Main \cup Teammates
Nobody == "nobody"
Racers == {"user", "hook", "classifier", "bridge", "channel", "config", "abort"}

ASSUME PromptConstants ==
  /\ Main \cap Teammates = {} /\ Nobody \notin Requests /\ "main" \notin Requests
  /\ Remotes \subseteq {"bridge", "channel"}
  /\ MaxCancels \in Nat /\ MaxSwitches \in Nat

VARIABLES
  phase,      \* checking: before the prompt; open: nobody has claimed it;
              \* claimed: claimed, not yet resolved; answered: resolved
  by,         \* who claimed it
  decisions,  \* how often somebody decided it
  saved,      \* whose permission updates were persisted for it
  queue,      \* toolUseConfirmQueue
  shown,      \* the request whose dialog is rendered
  aborted,    \* the controllers that are aborted: "main", or a teammate's
  listening,  \* the remote sides whose reply has a handler
  onScreen,   \* the requests claude.ai shows
  hooks,      \* the requests whose hooks run
  classifier, \* those whose classifier may still approve
  checkmark,  \* those approved by the classifier whose dialog stays for a while
  rechecks,   \* those whose recheckPermission is suspended
  dropped,    \* those that left the queue undecided
  cancels, switches

decision == <<phase, by, decisions, saved>>
dialogs == <<queue, shown, dropped>>
remote == <<listening, onScreen>>
racing == <<hooks, classifier, checkmark, rechecks>>
bounds == <<cancels, switches>>
vars == <<decision, dialogs, remote, racing, aborted, bounds>>

Open(r) == phase[r] = "open"
Controller(r) == IF r \in Main THEN "main" ELSE r
Queued == ToSet(queue)

TypeOK ==
  /\ phase \in [Requests -> {"none", "checking", "open", "claimed", "answered"}]
  /\ by \in [Requests -> Racers \cup {Nobody}]
  /\ \A r \in Requests : by[r] = Nobody <=> phase[r] \in {"none", "checking", "open"}
  /\ decisions \in [Requests -> Nat] /\ saved \in [Requests -> SUBSET Racers]
  /\ queue \in Seq(Requests) /\ IsInjective(queue)
  /\ shown \in Requests \cup {Nobody} /\ dropped \subseteq Requests
  /\ aborted \subseteq {"main"} \cup Teammates
  /\ listening \in [Requests -> SUBSET Remotes] /\ onScreen \subseteq Main
  /\ hooks \subseteq Main /\ classifier \subseteq Main /\ checkmark \subseteq Main
  /\ rechecks \subseteq Requests
  /\ cancels \in 0..MaxCancels /\ switches \in 0..MaxSwitches

Init ==
  /\ phase = [r \in Requests |-> "none"] /\ by = [r \in Requests |-> Nobody]
  /\ decisions = [r \in Requests |-> 0] /\ saved = [r \in Requests |-> {}]
  /\ queue = <<>> /\ shown = Nobody /\ dropped = {} /\ aborted = {}
  /\ listening = [r \in Requests |-> {}] /\ onScreen = {}
  /\ hooks = {} /\ classifier = {} /\ checkmark = {} /\ rechecks = {}
  /\ cancels = 0 /\ switches = 0

-----------------------------------------------------------------------------
(* What the racers share                                                   *)

Removed(rs) == Filter(queue, LAMBDA q : q \notin rs)

\* Fault (Answered): an abort stops the timer and leaves the dialog.
CheckmarksKept(cs) == {}
\* The dialogs an abort of these controllers removes: checkmarkAbortHandler.
Checkmarks(cs) == {r \in checkmark : Controller(r) \in cs}

\* abort() of the controllers cs, in a step that takes the requests rs out of
\* the queue: the listeners for 'abort' unsubscribe the remote sides.
Abort(cs, rs) ==
  /\ aborted' = aborted \cup cs
  /\ queue' = Removed(rs \cup Checkmarks(cs))
  /\ checkmark' = {r \in checkmark : Controller(r) \notin cs}

\* The handlers left when those in sides are deleted for r.
Handlers(r, sides, cs) ==
  [q \in Requests |-> {s \in listening[q] : Controller(q) \notin cs /\ ~(q = r /\ s \in sides)}]

Decide(r, who, next) ==
  /\ phase' = [phase EXCEPT ![r] = next] /\ by' = [by EXCEPT ![r] = who]
  /\ decisions' = [decisions EXCEPT ![r] = @ + 1]

\* A racer who won: claude.ai is told to dismiss its prompt (cancelRequest, or
\* the reply itself), the channel is unsubscribed, the dialog removed.
Win(r, who, cs) ==
  /\ Decide(r, who, "answered")
  /\ Abort(cs, {r})
  /\ listening' = Handlers(r, {who, "channel"}, cs) /\ onScreen' = onScreen \ {r}

\* A racer who lost the claim: at most its abort takes effect.
Lose(r, who, cs) ==
  /\ Abort(cs, {}) /\ UNCHANGED <<phase, by, decisions, onScreen>>
  /\ listening' = Handlers(r, {who}, cs)

Saves(r, who, updates) == saved' = [saved EXCEPT ![r] = IF updates THEN @ \cup {who} ELSE @]

-----------------------------------------------------------------------------
(* Before the prompt                                                       *)

Ask(r) ==
  /\ phase[r] = "none" /\ phase' = [phase EXCEPT ![r] = "checking"]
  /\ UNCHANGED <<by, decisions, saved, dialogs, remote, racing, aborted, bounds>>

\* Rules, a mode, the coordinator's hooks or the speculative classifier decide,
\* the controller is aborted, or a check throws.
Settled(r) ==
  /\ \/ Controller(r) \in aborted /\ Decide(r, "abort", "answered") /\ Abort({}, {})
     \/ Controller(r) \notin aborted /\ Decide(r, "config", "answered") /\ Abort({}, {})
     \/ r \in Main /\ Decide(r, "abort", "answered") /\ Abort({"main"}, {})
  /\ listening' = Handlers(r, {}, aborted')
  /\ UNCHANGED <<saved, shown, dropped, onScreen, hooks, classifier, rechecks, bounds>>

\* handleInteractivePermission, or the teammate's prompt.
Prompt(r) ==
  /\ Controller(r) \notin aborted
  /\ phase' = [phase EXCEPT ![r] = "open"] /\ queue' = Append(queue, r)
  /\ IF r \in Main
     THEN /\ listening' = [listening EXCEPT ![r] = Remotes]
          /\ onScreen' = onScreen \cup (IF "bridge" \in Remotes THEN {r} ELSE {})
          /\ hooks' = hooks \cup {r}
          /\ classifier' \in {classifier, classifier \cup {r}}
     ELSE UNCHANGED <<remote, hooks, classifier>>
  /\ UNCHANGED <<by, decisions, saved, shown, dropped, checkmark, rechecks, aborted, bounds>>

Checked(r) == phase[r] = "checking" /\ (Settled(r) \/ Prompt(r))

-----------------------------------------------------------------------------
(* The dialog                                                              *)

\* React renders the dialog of the head, or none while the user types.
Render ==
  \E s \in {Nobody} \cup {queue[i] : i \in {1} \cap DOMAIN queue} :
    /\ s # shown /\ shown' = s
    /\ UNCHANGED <<decision, queue, dropped, remote, racing, aborted, bounds>>

\* onDone of the dialog: whatever is the head by now leaves the queue.
Done(q) == IF q = <<>> THEN q ELSE Tail(q)
DropsUndecided == dropped' = dropped \cup {q \in Queued \ ToSet(queue') : phase'[q] = "open"}

\* Fault (TypeOK, OneDecision): onAllow does not claim before it awaits.
AllowedUnclaimed(r) == "open"
\* onAllow awaits handleUserAllow; a teammate's does not wait.
Allowed(r) == IF r \in Main THEN "claimed" ELSE "answered"

\* The user allows: onAllow up to its await, then onDone.  The dialog may be of
\* a request that was answered elsewhere and has left the queue.
Allow(r, updates) ==
  /\ shown = r /\ r \notin checkmark /\ shown' = Nobody
  /\ queue' = Done(queue)
  /\ IF Open(r)
     THEN /\ Decide(r, "user", Allowed(r)) /\ Saves(r, "user", updates)
          /\ listening' = Handlers(r, {"channel"}, {}) /\ onScreen' = onScreen \ {r}
     ELSE UNCHANGED <<decision, remote>>
  /\ DropsUndecided
  /\ UNCHANGED <<racing, aborted, bounds>>

\* The user rejects, with feedback or (in the main agent) an abort; Ctrl+C in
\* the dialog rejects too, and while a checkmark is shown only closes it.
Reject(r, feedback) ==
  LET cs == IF Open(r) /\ r \in Main /\ ~feedback THEN {"main"} ELSE {}
  IN /\ shown = r /\ shown' = Nobody
     /\ queue' = Done(Filter(queue, LAMBDA q : q = r \/ q \notin Checkmarks(cs)))
     /\ aborted' = aborted \cup cs /\ checkmark' = checkmark \ Checkmarks(cs)
     /\ IF Open(r)
        THEN /\ Decide(r, "user", "answered")
             /\ listening' = Handlers(r, {"channel"}, cs) /\ onScreen' = onScreen \ {r}
        ELSE UNCHANGED <<phase, by, decisions, remote>>
     /\ DropsUndecided
     /\ UNCHANGED <<saved, hooks, classifier, rechecks, bounds>>

Answer(r) == \E b \in BOOLEAN : Allow(r, b) \/ Reject(r, b)

\* onAllow goes on after handleUserAllow.
Resolve(r) ==
  /\ phase[r] = "claimed" /\ phase' = [phase EXCEPT ![r] = "answered"]
  /\ UNCHANGED <<by, decisions, saved, dialogs, remote, racing, aborted, bounds>>

\* onUserInteraction: the classifier may not approve any more.
Interact(r) ==
  /\ shown = r /\ r \in classifier /\ classifier' = classifier \ {r}
  /\ UNCHANGED <<decision, dialogs, remote, hooks, checkmark, rechecks, aborted, bounds>>

-----------------------------------------------------------------------------
(* The other racers                                                        *)

\* runHooks ends.  What a hook decides is persisted, and its interrupt aborts,
\* before the claim.
Hook(r) ==
  /\ r \in hooks /\ hooks' = hooks \ {r}
  /\ \/ UNCHANGED <<decision, queue, remote, checkmark, aborted>>
     \/ \E updates, interrupt \in BOOLEAN :
          LET cs == IF interrupt THEN {"main"} ELSE {}
          IN /\ ~(updates /\ interrupt)
             /\ Saves(r, "hook", updates)
             /\ IF Open(r) THEN Win(r, "hook", cs) ELSE Lose(r, "hook", cs)
  /\ UNCHANGED <<shown, dropped, classifier, rechecks, bounds>>

\* The classifier ends.  If it approves the dialog stays with a checkmark.
Classified(r) ==
  /\ r \in classifier /\ classifier' = classifier \ {r}
  /\ \/ UNCHANGED <<decision, remote, checkmark>>
     \/ /\ Open(r) /\ Decide(r, "classifier", "answered") /\ UNCHANGED saved
        /\ listening' = Handlers(r, {"channel"}, {}) /\ onScreen' = onScreen \ {r}
        /\ checkmark' = checkmark \cup {r}
  /\ UNCHANGED <<dialogs, hooks, rechecks, aborted, bounds>>

\* The timer of the checkmark, or Esc.
CheckmarkEnds(r) ==
  /\ r \in checkmark /\ checkmark' = checkmark \ {r} /\ queue' = Removed({r})
  /\ UNCHANGED <<decision, shown, dropped, remote, hooks, classifier, rechecks, aborted, bounds>>

\* claude.ai or a channel replies.  The handler is deleted before it is called, and
\* it is not called for a malformed answer of claude.ai, whose refusal without a
\* message aborts.
Reply(r, side) ==
  /\ side \in listening[r]
  /\ \/ /\ Open(r)
        /\ \E updates, aborts \in BOOLEAN :
             /\ side = "channel" => ~updates /\ ~aborts
             /\ ~(updates /\ aborts)
             /\ Win(r, side, IF aborts THEN {"main"} ELSE {}) /\ Saves(r, side, updates)
     \/ /\ Open(r) => side = "bridge"
        /\ Lose(r, side, {}) /\ UNCHANGED saved
  /\ UNCHANGED <<shown, dropped, hooks, classifier, rechecks, bounds>>

\* claude.ai switches the mode: every queued request is checked again.
Switch ==
  /\ switches < MaxSwitches /\ switches' = switches + 1
  /\ rechecks' = rechecks \cup {q \in Queued : Open(q)}
  /\ UNCHANGED <<decision, dialogs, remote, hooks, classifier, checkmark, aborted, cancels>>

\* Fault (OneDecision): recheckPermission relies on isResolved() alone.
RecheckedUnclaimed(r) ==
  /\ r \in rechecks /\ rechecks' = rechecks \ {r}
  /\ Win(r, "config", {})
  /\ UNCHANGED <<saved, shown, dropped, hooks, classifier, bounds>>

\* Fault (RemoteDismissed): recheckPermission does not tell claude.ai.
RecheckedQuietly(r) ==
  /\ r \in rechecks /\ rechecks' = rechecks \ {r}
  /\ IF Open(r) THEN Decide(r, "config", "answered") /\ Abort({}, {r})
     ELSE UNCHANGED <<phase, by, decisions, queue, checkmark, aborted>>
  /\ UNCHANGED <<saved, shown, dropped, remote, hooks, classifier, bounds>>

\* recheckPermission goes on.  A teammate's does not look again whether the
\* decision was made; its second resolve() has no effect.
Rechecked(r) ==
  /\ r \in rechecks /\ rechecks' = rechecks \ {r}
  /\ \/ UNCHANGED <<decision, queue, remote, checkmark, aborted>>
     \/ Open(r) /\ Win(r, "config", {}) /\ UNCHANGED saved
     \/ /\ ~Open(r) /\ r \in Teammates
        /\ decisions' = [decisions EXCEPT ![r] = @ + 1] /\ Abort({}, {r})
        /\ UNCHANGED <<phase, by, saved, remote>>
  /\ UNCHANGED <<shown, dropped, hooks, classifier, bounds>>

-----------------------------------------------------------------------------
(* Cancelling                                                              *)

\* ESC: handleCancel and onCancel.  Only the request whose dialog is rendered is
\* told; if none is, the controller is aborted.  The queue is emptied.
Cancel ==
  LET told == {r \in {shown} \cap Requests : Open(r)}
      cs == IF shown = Nobody \/ told \cap Main # {} THEN {"main"} ELSE {}
  IN /\ cancels < MaxCancels /\ cancels' = cancels + 1
     /\ "main" \notin aborted
     /\ phase' = [r \in Requests |-> IF r \in told THEN "answered" ELSE phase[r]]
     /\ by' = [r \in Requests |-> IF r \in told THEN "user" ELSE by[r]]
     /\ decisions' = [r \in Requests |-> decisions[r] + IF r \in told THEN 1 ELSE 0]
     /\ queue' = <<>> /\ DropsUndecided /\ shown' = Nobody
     /\ aborted' = aborted \cup cs /\ checkmark' = checkmark \ Checkmarks(cs)
     /\ listening' = [r \in Requests |->
          IF Controller(r) \in cs THEN {}
          ELSE IF r \in told THEN listening[r] \ {"channel"} ELSE listening[r]]
     /\ onScreen' = onScreen \ told
     /\ UNCHANGED <<saved, hooks, classifier, rechecks, switches>>

\* The main controller is aborted elsewhere (an interrupt of claude.ai, a 'now'
\* command): nothing is cleared.
Interrupt ==
  /\ cancels < MaxCancels /\ cancels' = cancels + 1
  /\ "main" \notin aborted /\ Abort({"main"}, {})
  /\ listening' = [r \in Requests |-> IF r \in Main THEN {} ELSE listening[r]]
  /\ UNCHANGED <<decision, shown, dropped, onScreen, hooks, classifier, rechecks, switches>>

\* A teammate is killed: onAbortListener.
Kill(r) ==
  /\ cancels < MaxCancels /\ cancels' = cancels + 1
  /\ r \in Teammates /\ r \notin aborted
  /\ IF Open(r) THEN Decide(r, "abort", "answered") /\ Abort({r}, {r})
     ELSE Abort({r}, {}) /\ UNCHANGED <<phase, by, decisions>>
  /\ UNCHANGED <<saved, shown, dropped, remote, hooks, classifier, rechecks, switches>>

Next ==
  \/ \E r \in Requests :
       Ask(r) \/ Checked(r) \/ Answer(r) \/ Resolve(r) \/ Interact(r) \/ Hook(r)
       \/ Classified(r) \/ CheckmarkEnds(r) \/ Rechecked(r) \/ Kill(r)
       \/ \E side \in Remotes : Reply(r, side)
  \/ Render \/ Switch \/ Cancel \/ Interrupt

Spec == Init /\ [][Next]_vars

\* Checks, hooks, classifier and rechecks end, React renders, timers fire, and
\* the user answers an undecided request whose dialog is shown again and again.
\* Nobody has to reply, to cancel or to switch.
FairSpec ==
  /\ Spec /\ WF_vars(Render)
  /\ \A r \in Requests :
       /\ WF_vars(Checked(r)) /\ WF_vars(Resolve(r)) /\ WF_vars(Hook(r))
       /\ WF_vars(Classified(r)) /\ WF_vars(CheckmarkEnds(r)) /\ WF_vars(Rechecked(r))
       /\ SF_vars(Open(r) /\ Answer(r))

-----------------------------------------------------------------------------
(* Properties                                                              *)

\* However the racers interleave, a request of the main agent is decided once,
\* also when a recheck or a hook was suspended while another racer won; and a rule
\* is never persisted for the user or claude.ai unless theirs is the decision.
OneDecision ==
  /\ \A r \in Main : decisions[r] <= 1
  /\ \A r \in Requests : saved[r] \subseteq {by[r], "hook"}

\* Once a request is decided, whoever decided it, claude.ai shows no prompt for
\* a tool that already runs.
RemoteDismissed == \A r \in onScreen : Open(r)

\* Every request that is not dropped gets its answer and leaves the queue, so the
\* next one is shown: with dialogs suppressed while the user types, rechecks, and
\* an abort of the turn while the checkmark is on.
Answered ==
  \A r \in Requests :
    Open(r) ~> (r \in dropped \/ (phase[r] = "answered" /\ r \notin Queued))
=============================================================================
