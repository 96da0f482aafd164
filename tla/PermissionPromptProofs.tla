------------------------ MODULE PermissionPromptProofs ------------------------
(***************************************************************************)
(* Proofs about PermissionPrompt, for any sets of requests and any remote  *)
(* sides.  The argument: a request is counted as decided exactly when it   *)
(* has left the phases before a decision, and whoever finds it open claims *)
(* it in the same step, so none of the suspended racers can decide it again*)
(***************************************************************************)
EXTENDS PermissionPrompt, FilteringTheorems, TLAPS

Undecided == {"none", "checking", "open"}
Phases == Undecided \cup {"claimed", "answered"}

\* A request has one decision and one author, from the claim on.
Claims ==
  /\ phase \in [Requests -> Phases]
  /\ by \in [Requests -> Racers \cup {Nobody}]
  /\ decisions \in [Requests -> Nat]
  /\ \A r \in Requests : by[r] = Nobody <=> phase[r] \in Undecided
  /\ \A r \in Main : decisions[r] = IF phase[r] \in Undecided THEN 0 ELSE 1

\* What was persisted is the author's, or a hook's that lost the race.
SavedByAuthor ==
  /\ saved \in [Requests -> SUBSET Racers]
  /\ \A r \in Requests : saved[r] \subseteq {by[r], "hook"}

Handled == listening \in [Requests -> SUBSET Remotes]

\* claude.ai shows open requests only.
Screen == onScreen \subseteq Main /\ \A r \in onScreen : phase[r] = "open"

Racing == hooks \subseteq Main /\ classifier \subseteq Main

IInv == Claims /\ SavedByAuthor /\ Handled /\ Screen /\ Racing

-----------------------------------------------------------------------------
\* The sets of racers and requests, for the provers.
LEMMA Names ==
  /\ Main \subseteq Requests /\ Teammates \subseteq Requests
  /\ \A r \in Teammates : r \notin Main
  /\ Nobody \notin Racers /\ "hook" \in Racers /\ Remotes \subseteq Racers
PROOF
  BY PromptConstants DEF Requests, Racers, Nobody

LEMMA InitLemma == Init => IInv
PROOF
<1>. SUFFICES ASSUME Init PROVE IInv
  OBVIOUS
<1>1. Claims
  BY Names DEF Init, Claims, Undecided, Phases
<1>2. SavedByAuthor /\ Handled /\ Screen /\ Racing
  BY DEF Init, SavedByAuthor, Handled, Screen, Racing
<1>. QED  BY <1>1, <1>2 DEF IInv

\* One racer decides a request that nobody has decided.
LEMMA DecideLemma ==
  ASSUME IInv, NEW r \in Requests, phase[r] \in Undecided,
         NEW who \in Racers, NEW next \in {"claimed", "answered"}, Decide(r, who, next)
  PROVE  /\ Claims'
         /\ phase'[r] \notin Undecided /\ by'[r] = who
         /\ \A q \in Requests \ {r} : phase'[q] = phase[q] /\ by'[q] = by[q]
PROOF
<1>1. /\ phase'[r] = next /\ by'[r] = who /\ decisions'[r] = decisions[r] + 1
      /\ \A q \in Requests \ {r} :
           phase'[q] = phase[q] /\ by'[q] = by[q] /\ decisions'[q] = decisions[q]
  BY DEF Decide, IInv, Claims
<1>2. /\ phase' \in [Requests -> Phases] /\ by' \in [Requests -> Racers \cup {Nobody}]
      /\ decisions' \in [Requests -> Nat]
  BY DEF Decide, IInv, Claims, Phases
<1>3. next \notin Undecided
  BY DEF Undecided
<1>4. \A q \in Requests : by'[q] = Nobody <=> phase'[q] \in Undecided
  BY <1>1, <1>3, Names DEF IInv, Claims
<1>5. \A q \in Main : decisions'[q] = IF phase'[q] \in Undecided THEN 0 ELSE 1
  BY <1>1, <1>3, Names DEF IInv, Claims
<1>. QED  BY <1>1, <1>2, <1>3, <1>4, <1>5 DEF Claims

\* What he persists is his, and what a hook persists a hook's.
LEMMA SavesLemma ==
  ASSUME IInv, NEW r \in Requests, phase[r] \in Undecided, NEW who \in Racers,
         by'[r] = who, \A q \in Requests \ {r} : by'[q] = by[q],
         NEW x \in {who, "hook"}, NEW b \in BOOLEAN, saved' = saved \/ Saves(r, x, b)
  PROVE  SavedByAuthor'
PROOF
<1>1. x \in Racers /\ saved[r] \subseteq {"hook"}
  BY Names DEF IInv, Claims, SavedByAuthor
<1>2. saved' \in [Requests -> SUBSET Racers]
  BY <1>1 DEF Saves, IInv, SavedByAuthor
<1>3. saved'[r] \subseteq {who, "hook"} /\ \A q \in Requests \ {r} : saved'[q] = saved[q]
  BY <1>1 DEF Saves, IInv, SavedByAuthor
<1>. QED  BY <1>2, <1>3 DEF IInv, SavedByAuthor

\* Deleting handlers, and taking a decided request from the screen.
LEMMA HandlersLemma ==
  ASSUME IInv, NEW r, NEW sides, NEW cs, listening' = Handlers(r, sides, cs)
  PROVE  Handled'
PROOF
  BY DEF IInv, Handled, Handlers

LEMMA ScreenLemma ==
  ASSUME IInv, NEW r \in Requests, phase'[r] \notin Undecided,
         \A q \in Requests \ {r} : phase'[q] = phase[q], onScreen' = onScreen \ {r}
  PROVE  Screen'
PROOF
  BY Names DEF IInv, Screen

\* The whole of a winner's step.
LEMMA WinLemma ==
  ASSUME IInv, NEW r \in Requests, Open(r), NEW who \in Racers, NEW cs, Win(r, who, cs),
         NEW x \in {who, "hook"}, NEW b \in BOOLEAN, saved' = saved \/ Saves(r, x, b)
  PROVE  Claims' /\ SavedByAuthor' /\ Handled' /\ Screen'
PROOF
<1>1. phase[r] \in Undecided
  BY DEF Open, Undecided
<1>2. /\ Claims' /\ phase'[r] \notin Undecided /\ by'[r] = who
      /\ \A q \in Requests \ {r} : phase'[q] = phase[q] /\ by'[q] = by[q]
  BY <1>1, DecideLemma DEF Win
<1>3. SavedByAuthor'
  BY <1>1, <1>2, SavesLemma
<1>4. Handled'
  BY HandlersLemma DEF Win
<1>5. Screen'
  BY <1>2, ScreenLemma DEF Win
<1>. QED  BY <1>2, <1>3, <1>4, <1>5
-----------------------------------------------------------------------------
\* Steps that decide nothing and ask claude.ai nothing.
LEMMA QuietLemma ==
  ASSUME IInv, UNCHANGED decision, Handled', UNCHANGED onScreen,
         hooks' \subseteq hooks, classifier' \subseteq classifier
  PROVE  IInv'
PROOF
  BY DEF IInv, Claims, SavedByAuthor, Screen, Racing, decision

\* The steps before the prompt.
LEMMA CheckLemma ==
  ASSUME IInv, NEW r \in Requests, Ask(r) \/ Checked(r)
  PROVE  IInv'
PROOF
<1>1. CASE Ask(r)
  <2>1. /\ phase' \in [Requests -> Phases] /\ phase'[r] = "checking" /\ phase[r] = "none"
        /\ \A q \in Requests \ {r} : phase'[q] = phase[q]
    BY <1>1 DEF Ask, IInv, Claims, Phases, Undecided
  <2>2. Claims'
    BY <1>1, <2>1, Names DEF Ask, IInv, Claims, Undecided
  <2>3. Screen'
    BY <1>1, <2>1, Names DEF Ask, remote, IInv, Screen
  <2>. QED
    BY <1>1, <2>2, <2>3 DEF Ask, remote, racing, IInv, SavedByAuthor, Handled, Racing
<1>2. CASE phase[r] = "checking" /\ Settled(r)
  <2>1. PICK who \in {"abort", "config"} : Decide(r, who, "answered")
    BY <1>2 DEF Settled
  <2>2. phase[r] \in Undecided /\ who \in Racers
    BY <1>2 DEF Undecided, Racers
  <2>3. /\ Claims' /\ phase'[r] \notin Undecided /\ by'[r] = who
        /\ \A q \in Requests \ {r} : phase'[q] = phase[q] /\ by'[q] = by[q]
    BY <2>1, <2>2, DecideLemma
  <2>4. saved' = saved /\ TRUE \in BOOLEAN
    BY <1>2 DEF Settled
  <2>5. SavedByAuthor'
    BY <2>2, <2>3, <2>4, SavesLemma
  <2>6. Handled'
    BY <1>2, HandlersLemma DEF Settled
  <2>7. onScreen' = onScreen \ {r}
    BY <1>2 DEF Settled, IInv, Screen
  <2>8. Screen'
    BY <2>3, <2>7, ScreenLemma
  <2>. QED  BY <1>2, <2>3, <2>5, <2>6, <2>8 DEF Settled, IInv, Racing
<1>3. CASE phase[r] = "checking" /\ Prompt(r)
  <2>1. /\ phase' \in [Requests -> Phases] /\ phase'[r] = "open"
        /\ \A q \in Requests \ {r} : phase'[q] = phase[q]
    BY <1>3 DEF Prompt, IInv, Claims, Phases, Undecided
  <2>2. Claims'
    BY <1>3, <2>1, Names DEF Prompt, IInv, Claims, Undecided
  <2>3. Handled' /\ Racing'
    BY <1>3 DEF Prompt, remote, IInv, Handled, Racing
  <2>4. Screen'
    BY <1>3, <2>1, Names DEF Prompt, remote, IInv, Screen
  <2>. QED  BY <1>3, <2>2, <2>3, <2>4 DEF Prompt, IInv, SavedByAuthor
<1>. QED  BY <1>1, <1>2, <1>3 DEF Checked

\* The steps of the user at the dialog.
LEMMA DialogLemma ==
  ASSUME IInv, NEW r \in Requests, Answer(r) \/ Resolve(r) \/ Interact(r)
  PROVE  IInv'
PROOF
<1>1. ASSUME NEW b \in BOOLEAN, Allow(r, b) \/ Reject(r, b), ~Open(r)  PROVE IInv'
  BY <1>1, QuietLemma DEF Allow, Reject, decision, remote, racing, IInv, Handled
<1>2. ASSUME NEW b \in BOOLEAN, Allow(r, b), Open(r)  PROVE IInv'
  <2>1. Allowed(r) \in {"claimed", "answered"} /\ phase[r] \in Undecided /\ "user" \in Racers
    BY <1>2 DEF Allowed, Open, Undecided, Racers
  <2>2. Decide(r, "user", Allowed(r)) /\ Saves(r, "user", b)
    BY <1>2 DEF Allow
  <2>3. /\ Claims' /\ phase'[r] \notin Undecided /\ by'[r] = "user"
        /\ \A q \in Requests \ {r} : phase'[q] = phase[q] /\ by'[q] = by[q]
    BY <2>1, <2>2, DecideLemma
  <2>4. SavedByAuthor'
    BY <2>1, <2>2, <2>3, SavesLemma
  <2>5. Handled' /\ Screen'
    BY <1>2, <2>3, HandlersLemma, ScreenLemma DEF Allow
  <2>. QED  BY <1>2, <2>3, <2>4, <2>5 DEF Allow, racing, IInv, Racing
<1>3. ASSUME NEW b \in BOOLEAN, Reject(r, b), Open(r)  PROVE IInv'
  <2>1. phase[r] \in Undecided /\ "user" \in Racers
    BY <1>3 DEF Open, Undecided, Racers
  <2>2. Decide(r, "user", "answered") /\ saved' = saved
    BY <1>3 DEF Reject
  <2>3. /\ Claims' /\ phase'[r] \notin Undecided /\ by'[r] = "user"
        /\ \A q \in Requests \ {r} : phase'[q] = phase[q] /\ by'[q] = by[q]
    BY <2>1, <2>2, DecideLemma
  <2>4. SavedByAuthor'
    BY <1>3, <2>1, <2>2, <2>3, SavesLemma
  <2>5. Handled' /\ Screen'
    BY <1>3, <2>3, HandlersLemma, ScreenLemma DEF Reject
  <2>. QED  BY <1>3, <2>3, <2>4, <2>5 DEF Reject, IInv, Racing
<1>4. CASE Resolve(r)
  <2>1. /\ phase' \in [Requests -> Phases] /\ phase'[r] = "answered" /\ phase[r] = "claimed"
        /\ \A q \in Requests \ {r} : phase'[q] = phase[q]
    BY <1>4 DEF Resolve, IInv, Claims, Phases, Undecided
  <2>2. Claims'
    BY <1>4, <2>1, Names DEF Resolve, IInv, Claims, Undecided
  <2>3. Screen'
    BY <1>4, <2>1, Names DEF Resolve, remote, IInv, Screen
  <2>. QED
    BY <1>4, <2>2, <2>3 DEF Resolve, remote, racing, IInv, SavedByAuthor, Handled, Racing
<1>5. CASE Interact(r)
  BY <1>5, QuietLemma DEF Interact, remote, IInv, Handled
<1>. QED  BY <1>1, <1>2, <1>3, <1>4, <1>5 DEF Answer
\* Hooks, the classifier and its checkmark.
LEMMA BackgroundLemma ==
  ASSUME IInv, NEW r \in Requests, Hook(r) \/ Classified(r) \/ CheckmarkEnds(r)
  PROVE  IInv'
PROOF
<1>1. CASE Hook(r)
  <2>1. r \in Main /\ "hook" \in Racers /\ Racing'
    BY <1>1, Names DEF Hook, IInv, Racing
  <2>2. CASE UNCHANGED decision /\ UNCHANGED remote
    BY <1>1, <2>2, QuietLemma DEF Hook, remote, IInv, Handled
  <2>3. ASSUME NEW updates \in BOOLEAN, NEW cs, Saves(r, "hook", updates),
               Open(r), Win(r, "hook", cs)
        PROVE IInv'
    BY <2>1, <2>3, WinLemma DEF IInv
  <2>4. ASSUME NEW updates \in BOOLEAN, NEW cs, Saves(r, "hook", updates),
               Lose(r, "hook", cs)
        PROVE IInv'
    <3>1. Claims' /\ Screen'
      BY <2>4 DEF Lose, IInv, Claims, Screen
    <3>2. Handled'
      BY <2>4, HandlersLemma DEF Lose
    <3>3. saved' \in [Requests -> SUBSET Racers] /\ \A q \in Requests : saved'[q] \subseteq saved[q] \cup {"hook"}
      BY <2>1, <2>4 DEF Saves, IInv, SavedByAuthor
    <3>4. SavedByAuthor'
      BY <2>4, <3>3 DEF Lose, IInv, SavedByAuthor
    <3>. QED  BY <2>1, <3>1, <3>2, <3>4 DEF IInv
  <2>. QED  BY <1>1, <2>2, <2>3, <2>4 DEF Hook
<1>2. CASE Classified(r)
  <2>1. Racing'
    BY <1>2 DEF Classified, IInv, Racing
  <2>2. CASE UNCHANGED decision /\ UNCHANGED remote
    BY <1>2, <2>1, <2>2, QuietLemma DEF Classified, remote, IInv, Handled
  <2>3. CASE /\ Open(r) /\ Decide(r, "classifier", "answered") /\ UNCHANGED saved
             /\ listening' = Handlers(r, {"channel"}, {}) /\ onScreen' = onScreen \ {r}
    <3>1. phase[r] \in Undecided /\ "classifier" \in Racers
      BY <2>3 DEF Open, Undecided, Racers
    <3>2. /\ Claims' /\ phase'[r] \notin Undecided /\ by'[r] = "classifier"
          /\ \A q \in Requests \ {r} : phase'[q] = phase[q] /\ by'[q] = by[q]
      BY <2>3, <3>1, DecideLemma
    <3>3. SavedByAuthor'
      BY <2>3, <3>1, <3>2, SavesLemma
    <3>4. Handled' /\ Screen'
      BY <2>3, <3>2, HandlersLemma, ScreenLemma
    <3>. QED  BY <2>1, <3>2, <3>3, <3>4 DEF IInv
  <2>. QED  BY <1>2, <2>2, <2>3 DEF Classified
<1>3. CASE CheckmarkEnds(r)
  BY <1>3, QuietLemma DEF CheckmarkEnds, remote, IInv, Handled
<1>. QED  BY <1>1, <1>2, <1>3

\* Replies from claude.ai and the channel, and rechecks.
LEMMA RemoteLemma ==
  ASSUME IInv, NEW r \in Requests,
         (\E side \in Remotes : Reply(r, side)) \/ Rechecked(r)
  PROVE  IInv'
PROOF
<1>1. ASSUME NEW side \in Remotes, Reply(r, side)  PROVE IInv'
  <2>1. side \in Racers
    BY Names
  <2>2. PICK updates \in BOOLEAN, cs \in {{}, {"main"}} :
          \/ Open(r) /\ Win(r, side, cs) /\ Saves(r, side, updates)
          \/ Lose(r, side, cs) /\ UNCHANGED saved
    BY <1>1 DEF Reply
  <2>3. CASE Open(r) /\ Win(r, side, cs) /\ Saves(r, side, updates)
    BY <1>1, <2>1, <2>3, WinLemma DEF Reply, IInv, Racing
  <2>4. CASE Lose(r, side, cs) /\ UNCHANGED saved
    <3>1. Handled'
      BY <2>4, HandlersLemma DEF Lose
    <3>. QED
      BY <1>1, <2>4, <3>1 DEF Reply, Lose, IInv, Claims, SavedByAuthor, Screen, Racing
  <2>. QED  BY <2>2, <2>3, <2>4
<1>2. CASE Rechecked(r)
  <2>1. Racing'
    BY <1>2 DEF Rechecked, IInv, Racing
  <2>2. CASE UNCHANGED <<decision, remote>>
    BY <1>2, <2>2, QuietLemma DEF Rechecked, remote, IInv, Handled
  <2>3. CASE Open(r) /\ Win(r, "config", {}) /\ UNCHANGED saved
    <3>1. "config" \in Racers /\ TRUE \in BOOLEAN
      BY DEF Racers
    <3>. QED  BY <2>1, <2>3, <3>1, WinLemma DEF IInv
  <2>4. CASE /\ ~Open(r) /\ r \in Teammates
             /\ decisions' = [decisions EXCEPT ![r] = @ + 1]
             /\ UNCHANGED <<phase, by, saved, remote>>
    <3>1. decisions' \in [Requests -> Nat] /\ \A q \in Main : decisions'[q] = decisions[q]
      BY <2>4, Names DEF IInv, Claims
    <3>2. Claims'
      BY <2>4, <3>1 DEF IInv, Claims
    <3>. QED
      BY <2>1, <2>4, <3>2 DEF remote, IInv, SavedByAuthor, Handled, Screen
  <2>. QED  BY <1>2, <2>2, <2>3, <2>4 DEF Rechecked
<1>. QED  BY <1>1, <1>2

\* ESC, interrupts, and teammates that are killed.
LEMMA CancelLemma ==
  ASSUME IInv, Cancel \/ Interrupt \/ \E r \in Requests : Kill(r)
  PROVE  IInv'
PROOF
<1>1. CASE Cancel
  <2>. DEFINE told == {r \in {shown} \cap Requests : Open(r)}
  <2>1. /\ phase' = [r \in Requests |-> IF r \in told THEN "answered" ELSE phase[r]]
        /\ by' = [r \in Requests |-> IF r \in told THEN "user" ELSE by[r]]
        /\ decisions' = [r \in Requests |-> decisions[r] + IF r \in told THEN 1 ELSE 0]
        /\ onScreen' = onScreen \ told
        /\ UNCHANGED <<saved, hooks, classifier>>
    BY <1>1 DEF Cancel
  <2>2. /\ "user" \in Racers /\ "user" # Nobody
        /\ told \subseteq Requests /\ \A r \in told : phase[r] = "open"
    BY DEF Racers, Nobody, Open
  <2>. HIDE DEF told
  <2>3. Claims'
    <3>1. phase' \in [Requests -> Phases] /\ by' \in [Requests -> Racers \cup {Nobody}]
      BY <2>1, <2>2 DEF IInv, Claims, Phases, Undecided
    <3>2. decisions' \in [Requests -> Nat]
      BY <2>1 DEF IInv, Claims
    <3>3. \A r \in Requests : by'[r] = Nobody <=> phase'[r] \in Undecided
      BY <2>1, <2>2 DEF IInv, Claims, Undecided
    <3>4. \A r \in Main : decisions'[r] = IF phase'[r] \in Undecided THEN 0 ELSE 1
      BY <2>1, <2>2, Names DEF IInv, Claims, Undecided
    <3>. QED  BY <3>1, <3>2, <3>3, <3>4 DEF Claims
  <2>4. SavedByAuthor'
    <3>1. ASSUME NEW r \in told  PROVE saved[r] \subseteq {"hook"}
      BY <2>2, <3>1, Names DEF IInv, Claims, SavedByAuthor, Undecided
    <3>. QED  BY <2>1, <2>2, <3>1 DEF IInv, SavedByAuthor
  <2>5. Handled'
    BY <1>1 DEF Cancel, IInv, Handled
  <2>6. Screen'
    BY <2>1, Names DEF IInv, Screen
  <2>. QED  BY <2>1, <2>3, <2>4, <2>5, <2>6 DEF IInv, Racing
<1>2. CASE Interrupt
  BY <1>2, QuietLemma DEF Interrupt, IInv, Handled
<1>3. ASSUME NEW r \in Requests, Kill(r)  PROVE IInv'
  <2>1. CASE Open(r)
    <3>1. phase[r] \in Undecided /\ "abort" \in Racers /\ TRUE \in BOOLEAN
      BY <2>1 DEF Open, Undecided, Racers
    <3>2. Decide(r, "abort", "answered") /\ UNCHANGED <<saved, remote, hooks, classifier>>
      BY <1>3, <2>1 DEF Kill
    <3>3. /\ Claims' /\ phase'[r] \notin Undecided /\ by'[r] = "abort"
          /\ \A q \in Requests \ {r} : phase'[q] = phase[q] /\ by'[q] = by[q]
      BY <3>1, <3>2, DecideLemma
    <3>4. SavedByAuthor'
      BY <3>1, <3>2, <3>3, SavesLemma
    <3>5. onScreen' = onScreen \ {r}
      BY <1>3, <3>2, Names DEF Kill, remote, IInv, Screen
    <3>6. Screen'
      BY <3>3, <3>5, ScreenLemma
    <3>. QED  BY <3>2, <3>3, <3>4, <3>6 DEF remote, IInv, Handled, Racing
  <2>2. CASE ~Open(r)
    BY <1>3, <2>2, QuietLemma DEF Kill, decision, remote, IInv, Handled
  <2>. QED  BY <2>1, <2>2
<1>. QED  BY <1>1, <1>2, <1>3

-----------------------------------------------------------------------------
\* The invariant is inductive.
THEOREM Inductive == Spec => []IInv
PROOF
<1>1. Init => IInv
  BY InitLemma
<1>2. IInv /\ [Next]_vars => IInv'
  <2>. SUFFICES ASSUME IInv, [Next]_vars PROVE IInv'
    OBVIOUS
  <2>1. CASE UNCHANGED vars
    BY <2>1, QuietLemma DEF vars, remote, racing, IInv, Handled
  <2>2. ASSUME NEW r \in Requests, Ask(r) \/ Checked(r)  PROVE IInv'
    BY <2>2, CheckLemma
  <2>3. ASSUME NEW r \in Requests, Answer(r) \/ Resolve(r) \/ Interact(r)  PROVE IInv'
    BY <2>3, DialogLemma
  <2>4. ASSUME NEW r \in Requests, Hook(r) \/ Classified(r) \/ CheckmarkEnds(r)  PROVE IInv'
    BY <2>4, BackgroundLemma
  <2>5. ASSUME NEW r \in Requests, (\E side \in Remotes : Reply(r, side)) \/ Rechecked(r)
        PROVE IInv'
    BY <2>5, RemoteLemma
  <2>6. CASE Cancel \/ Interrupt \/ \E r \in Requests : Kill(r)
    BY <2>6, CancelLemma
  <2>7. CASE Render \/ Switch
    BY <2>7, QuietLemma DEF Render, Switch, remote, racing, dialogs, IInv, Handled
  <2>. QED
    BY <2>1, <2>2, <2>3, <2>4, <2>5, <2>6, <2>7 DEF Next
<1>. QED  BY <1>1, <1>2, PTL DEF Spec

\* However many racers are suspended between their check and their answer, a
\* request of the main agent is decided once, and no rule is persisted for another
\* than the racer whose decision it is (a hook's apart).
THEOREM DecidedOnce == Spec => []OneDecision
PROOF
<1>1. IInv => OneDecision
  BY Names DEF IInv, Claims, SavedByAuthor, OneDecision
<1>. QED  BY <1>1, Inductive, PTL

\* claude.ai shows no prompt for a request that is decided, for any number of
\* requests and whoever decides them.
THEOREM NoStalePrompt == Spec => []RemoteDismissed
PROOF
<1>1. IInv => RemoteDismissed
  BY DEF IInv, Screen, RemoteDismissed, Open
<1>. QED  BY <1>1, Inductive, PTL

-----------------------------------------------------------------------------
\* The queue of dialogs.
Posed == {"open", "claimed", "answered"}

\* A request is queued once, and not before it is prompted for.
Dialogs ==
  /\ queue \in Seq(Requests) /\ IsInjective(queue)
  /\ \A r \in Queued : phase[r] \in Posed
  /\ shown \in Requests \cup {Nobody} /\ dropped \subseteq Requests

Rest ==
  /\ aborted \subseteq {"main"} \cup Teammates /\ checkmark \subseteq Main
  /\ rechecks \subseteq Requests
  /\ cancels \in 0..MaxCancels /\ switches \in 0..MaxSwitches

\* A part of the queue, in whatever order.
Part(q) == q \in Seq(Requests) /\ IsInjective(q) /\ ToSet(q) \subseteq Queued

LEMMA KeepPart ==
  ASSUME Dialogs, NEW T
  PROVE  Part(Keep(queue, T))
PROOF
<1>1. queue \in Seq(Requests) /\ \A i, j \in DOMAIN queue : queue[i] = queue[j] => i = j
  BY DEF Dialogs, IsInjective
<1>2. Keep(queue, T) \in Seq(Requests) /\ ToSet(Keep(queue, T)) = ToSet(queue) \cap T
  BY <1>1, KeepSet
<1>3. \A i, j \in DOMAIN Keep(queue, T) : Keep(queue, T)[i] = Keep(queue, T)[j] => i = j
  BY <1>1, KeepOnce
<1>. QED  BY <1>2, <1>3 DEF Part, IsInjective, Queued

LEMMA RemovedPart == ASSUME Dialogs, NEW rs PROVE Part(Removed(rs))
PROOF
<1>1. \A n \in 0..Len(queue) : n # 0 => (queue[n] \notin rs <=> queue[n] \in Requests \ rs)
  BY DEF Dialogs
<1>2. Removed(rs) = Keep(queue, Requests \ rs)
  BY <1>1 DEF Removed, Filter, Keep
<1>. QED  BY <1>2, KeepPart

\* The head leaves.
LEMMA DonePart == ASSUME NEW q, Part(q) PROVE Part(Done(q))
PROOF
<1>1. CASE q = <<>>
  BY <1>1 DEF Done
<1>2. CASE q # <<>>
  <2>1. /\ Done(q) = Tail(q) /\ Tail(q) \in Seq(Requests) /\ Len(q) \in Nat
        /\ DOMAIN Tail(q) = 1..(Len(q) - 1) /\ DOMAIN q = 1..Len(q)
        /\ \A i \in 1..(Len(q) - 1) : Tail(q)[i] = q[i + 1]
    BY <1>2 DEF Done, Part
  <2>2. \A i \in 1..(Len(q) - 1) : i + 1 \in 1..Len(q)
    BY <2>1
  <2>3. IsInjective(Tail(q))
    BY <2>1, <2>2 DEF Part, IsInjective
  <2>4. ToSet(Tail(q)) \subseteq ToSet(q)
    BY <2>1, <2>2 DEF ToSet
  <2>. QED  BY <2>1, <2>3, <2>4 DEF Part
<1>. QED  BY <1>1, <1>2

\* A request that has been prompted for stays so.
LEMMA PosedLemma ==
  ASSUME IInv, [Next]_vars, NEW r \in Requests, phase[r] \in Posed
  PROVE  phase'[r] \in Posed
PROOF
<1>1. phase' = phase => phase'[r] \in Posed
  OBVIOUS
<1>2. \A q, x : phase' = [phase EXCEPT ![q] = x] /\ (x \in Posed \/ q # r) => phase'[r] \in Posed
  BY DEF IInv, Claims
<1>3. \A q, who : Decide(q, who, "answered") \/ Decide(q, who, "claimed") => phase'[r] \in Posed
  BY <1>2 DEF Decide, Posed
<1>4. \A q : Ask(q) => phase'[r] \in Posed
  BY <1>2 DEF Ask, Posed
<1>5. \A q : Checked(q) => phase'[r] \in Posed
  BY <1>2, <1>3 DEF Checked, Settled, Prompt, Posed
<1>6. \A q : Answer(q) => phase'[r] \in Posed
  BY <1>1, <1>3 DEF Answer, Allow, Reject, Allowed, decision
<1>7. \A q : Resolve(q) => phase'[r] \in Posed
  BY <1>2 DEF Resolve, Posed
<1>8. \A q : Hook(q) \/ Classified(q) \/ Rechecked(q) \/ Kill(q) => phase'[r] \in Posed
  BY <1>1, <1>3 DEF Hook, Classified, Rechecked, Kill, Win, Lose, decision
<1>9. \A q, side : Reply(q, side) => phase'[r] \in Posed
  BY <1>1, <1>3 DEF Reply, Win, Lose
<1>10. Cancel => phase'[r] \in Posed
  BY DEF Cancel, Posed
<1>11. \A q : Interact(q) \/ CheckmarkEnds(q) => phase'[r] \in Posed
  BY <1>1 DEF Interact, CheckmarkEnds, decision
<1>12. Render \/ Switch \/ Interrupt \/ UNCHANGED vars => phase'[r] \in Posed
  BY <1>1 DEF Render, Switch, Interrupt, decision, vars
<1>. QED  BY <1>4, <1>5, <1>6, <1>7, <1>8, <1>9, <1>10, <1>11, <1>12 DEF Next

\* Nothing is queued but the request that is prompted for.
LEMMA QueueMoves ==
  ASSUME IInv, Dialogs, [Next]_vars
  PROVE  \/ Part(queue')
         \/ \E r \in Requests : /\ phase[r] = "checking" /\ phase'[r] = "open"
                                /\ queue' = Append(queue, r)
PROOF
<1>1. Part(queue)
  BY DEF Dialogs, Part, Queued
<1>2. Part(<<>>)
  BY DEF Part, IsInjective, ToSet
<1>3. \A cs, rs : Abort(cs, rs) => Part(queue')
  BY RemovedPart DEF Abort
<1>4. ASSUME NEW r \in Requests, Checked(r), Prompt(r)
      PROVE  phase[r] = "checking" /\ phase'[r] = "open" /\ queue' = Append(queue, r)
  BY <1>4 DEF Checked, Prompt, IInv, Claims
<1>5. \A r : Settled(r) => Part(queue')
  BY <1>3 DEF Settled
<1>6. \A r, b : Allow(r, b) => Part(queue')
  BY <1>1, DonePart DEF Allow
<1>7. ASSUME NEW r, NEW b, Reject(r, b)  PROVE Part(queue')
  <2>. DEFINE cs == IF Open(r) /\ r \in Main /\ ~b THEN {"main"} ELSE {}
              T == {q \in Requests : q = r \/ q \notin Checkmarks(cs)}
              rest == Filter(queue, LAMBDA q : q = r \/ q \notin Checkmarks(cs))
  <2>1. queue' = Done(rest)
    BY <1>7 DEF Reject
  <2>2. \A n \in 0..Len(queue) :
          n # 0 => ((queue[n] = r \/ queue[n] \notin Checkmarks(cs)) <=> queue[n] \in T)
    BY DEF Dialogs
  <2>3. rest = Keep(queue, T)
    BY <2>2 DEF Filter, Keep
  <2>. HIDE DEF rest, T
  <2>. QED  BY <2>1, <2>3, KeepPart, DonePart
<1>8. \A r : Hook(r) \/ Rechecked(r) \/ Kill(r) => Part(queue')
  BY <1>1, <1>3 DEF Hook, Rechecked, Kill, Win, Lose
<1>9. \A r, side : Reply(r, side) => Part(queue')
  BY <1>3 DEF Reply, Win, Lose
<1>10. \A r : CheckmarkEnds(r) => Part(queue')
  BY RemovedPart DEF CheckmarkEnds
<1>11. \A r : Ask(r) \/ Resolve(r) \/ Interact(r) \/ Classified(r) => Part(queue')
  BY <1>1 DEF Ask, Resolve, Interact, Classified, dialogs
<1>12. Cancel => Part(queue')
  BY <1>2 DEF Cancel
<1>13. Interrupt => Part(queue')
  BY <1>3 DEF Interrupt
<1>14. Render \/ Switch \/ UNCHANGED vars => Part(queue')
  BY <1>1 DEF Render, Switch, dialogs, vars
<1>. QED
  BY <1>4, <1>5, <1>6, <1>7, <1>8, <1>9, <1>10, <1>11, <1>12, <1>13, <1>14 DEF Next, Checked, Answer

LEMMA DialogsLemma == ASSUME IInv, Dialogs, [Next]_vars PROVE Dialogs'
PROOF
<1>1. /\ queue' \in Seq(Requests) /\ IsInjective(queue')
      /\ \A r \in ToSet(queue') : phase'[r] \in Posed
  <2>1. CASE Part(queue')
    <3>1. \A r \in Queued : r \in Requests /\ phase[r] \in Posed
      BY DEF Dialogs, Queued, ToSet
    <3>. QED  BY <2>1, <3>1, PosedLemma DEF Part
  <2>2. ASSUME NEW r \in Requests, phase[r] = "checking", phase'[r] = "open",
               queue' = Append(queue, r)
        PROVE  /\ queue' \in Seq(Requests) /\ IsInjective(queue')
               /\ \A q \in ToSet(queue') : phase'[q] \in Posed
    <3>1. /\ queue' \in Seq(Requests) /\ DOMAIN queue = 1..Len(queue) /\ Len(queue) \in Nat
          /\ DOMAIN queue' = 1..(Len(queue) + 1) /\ queue'[Len(queue) + 1] = r
          /\ \A i \in 1..Len(queue) : queue'[i] = queue[i]
      BY <2>2 DEF Dialogs
    <3>2. \A i \in 1..(Len(queue) + 1) : i = Len(queue) + 1 \/ i \in 1..Len(queue)
      BY <3>1
    <3>3. \A i \in 1..Len(queue) : queue[i] \in Requests /\ phase[queue[i]] \in Posed /\ queue[i] # r
      BY <2>2, <3>1 DEF Dialogs, Queued, ToSet, Posed
    <3>4. IsInjective(queue')
      BY <3>1, <3>2, <3>3 DEF Dialogs, IsInjective
    <3>5. \A i \in 1..(Len(queue) + 1) : phase'[queue'[i]] \in Posed
      <4>1. \A i \in 1..Len(queue) : phase'[queue[i]] \in Posed
        BY <3>3, PosedLemma
      <4>2. phase'[r] \in Posed
        BY <2>2 DEF Posed
      <4>. QED  BY <3>1, <3>2, <4>1, <4>2
    <3>. QED  BY <3>1, <3>4, <3>5 DEF ToSet
  <2>. QED  BY <2>1, <2>2, QueueMoves
<1>2. shown \in Requests \cup {Nobody} /\ dropped \subseteq Requests /\ Queued \subseteq Requests
  BY DEF Dialogs, Queued, ToSet
<1>3. shown' \in Requests \cup {Nobody}
  <2>1. shown' \in {shown, Nobody} \/ Render
    BY ZenonT(40) DEF Next, Ask, Checked, Settled, Prompt, Answer, Allow, Reject, Resolve, Interact, Hook, Classified,
       CheckmarkEnds, Reply, Rechecked, Kill, Switch, Cancel, Interrupt, dialogs, vars
  <2>2. Render => shown' \in Requests \cup {Nobody}
    BY DEF Render, Dialogs
  <2>. QED  BY <1>2, <2>1, <2>2
<1>4. dropped' \subseteq Requests
  <2>1. dropped' = dropped \/ DropsUndecided
    BY ZenonT(40) DEF Next, Ask, Checked, Settled, Prompt, Answer, Allow, Reject, Resolve, Interact, Hook, Classified,
       CheckmarkEnds, Reply, Rechecked, Kill, Switch, Cancel, Interrupt, Render, dialogs, vars
  <2>2. DropsUndecided => dropped' \subseteq dropped \cup Queued
    BY DEF DropsUndecided
  <2>. QED  BY <1>2, <2>1, <2>2
<1>. QED  BY <1>1, <1>3, <1>4 DEF Dialogs, Queued

LEMMA RestLemma == ASSUME IInv, Dialogs, Rest, [Next]_vars PROVE Rest'
PROOF
<1>. DEFINE Fine == aborted' \subseteq {"main"} \cup Teammates /\ checkmark' \subseteq Main
<1>1. Fine
  <2>1. aborted' = aborted /\ checkmark' \subseteq checkmark => Fine
    BY DEF Rest
  <2>2. \A cs, rs : Abort(cs, rs) /\ cs \subseteq {"main"} \cup Teammates => Fine
    BY DEF Abort, Rest
  <2>3. \A r : Settled(r) => Fine
    BY <2>2 DEF Settled
  <2>4. \A r : Prompt(r) => Fine
    BY <2>1 DEF Prompt
  <2>5. \A r, b : Allow(r, b) => Fine
    BY <2>1 DEF Allow, racing
  <2>6. ASSUME NEW r, NEW b, Reject(r, b)  PROVE Fine
    <3>. DEFINE cs == IF Open(r) /\ r \in Main /\ ~b THEN {"main"} ELSE {}
    <3>1. aborted' = aborted \cup cs /\ checkmark' = checkmark \ Checkmarks(cs)
      BY <2>6 DEF Reject
    <3>. QED  BY <3>1 DEF Rest
  <2>7. ASSUME NEW r, Hook(r)  PROVE Fine
    <3>1. UNCHANGED <<checkmark, aborted>>
          \/ \E i \in BOOLEAN : \E rs : Abort(IF i THEN {"main"} ELSE {}, rs)
      BY <2>7 DEF Hook, Win, Lose
    <3>. QED  BY <2>1, <2>2, <3>1
  <2>8. \A r : Classified(r) => Fine
    BY <2>1 DEF Classified, Rest, IInv, Racing
  <2>9. \A r, side : Reply(r, side) => Fine
    BY <2>2 DEF Reply, Win, Lose
  <2>10. \A r : Rechecked(r) => Fine
    BY <2>1, <2>2 DEF Rechecked, Win
  <2>11. \A r : Kill(r) => Fine
    BY <2>2 DEF Kill
  <2>12. \A r : Ask(r) \/ Resolve(r) \/ Interact(r) \/ CheckmarkEnds(r) => Fine
    BY <2>1 DEF Ask, Resolve, Interact, CheckmarkEnds, racing
  <2>13. Cancel => Fine
    BY DEF Cancel, Rest
  <2>14. Interrupt => Fine
    BY <2>2 DEF Interrupt
  <2>15. Render \/ Switch \/ UNCHANGED vars => Fine
    BY <2>1 DEF Render, Switch, racing, vars
  <2>. HIDE DEF Fine
  <2>. QED
    BY <2>3, <2>4, <2>5, <2>6, <2>7, <2>8, <2>9, <2>10, <2>11, <2>12, <2>13, <2>14, <2>15
    DEF Next, Checked, Answer
<1>3. rechecks' \subseteq Requests
  <2>1. rechecks' \subseteq rechecks \cup Queued
    BY ZenonT(40) DEF Next, Ask, Checked, Settled, Prompt, Answer, Allow, Reject, Resolve, Interact, Hook,
       Classified, CheckmarkEnds, Reply, Rechecked, Kill, Switch, Cancel, Interrupt, Render, racing, vars
  <2>2. Queued \subseteq Requests
    BY DEF Dialogs, Queued, ToSet
  <2>. QED  BY <2>1, <2>2 DEF Rest
<1>4. cancels' \in 0..MaxCancels /\ switches' \in 0..MaxSwitches
  <2>1. cancels' = cancels \/ (cancels < MaxCancels /\ cancels' = cancels + 1)
    BY ZenonT(40) DEF Next, Ask, Checked, Settled, Prompt, Answer, Allow, Reject, Resolve, Interact, Hook,
       Classified, CheckmarkEnds, Reply, Rechecked, Kill, Switch, Cancel, Interrupt, Render, bounds, vars
  <2>2. switches' = switches \/ (switches < MaxSwitches /\ switches' = switches + 1)
    BY ZenonT(40) DEF Next, Ask, Checked, Settled, Prompt, Answer, Allow, Reject, Resolve, Interact, Hook,
       Classified, CheckmarkEnds, Reply, Rechecked, Kill, Switch, Cancel, Interrupt, Render, bounds, vars
  <2>. QED  BY <2>1, <2>2, PromptConstants DEF Rest
<1>. QED  BY <1>1, <1>3, <1>4 DEF Rest

\* A request has at most one dialog, queued when it is prompted for and at no other
\* time, whatever removes dialogs from the queue or claims the request meanwhile.
THEOREM TypesAreKept == Spec => []TypeOK
PROOF
<1>1. Init => Dialogs /\ Rest
  <2>1. MaxCancels \in Nat /\ MaxSwitches \in Nat
    BY PromptConstants
  <2>. QED  BY <2>1 DEF Init, Dialogs, Rest, IsInjective, Queued, ToSet
<1>2. IInv /\ Dialogs /\ Rest /\ [Next]_vars => Dialogs' /\ Rest'
  BY DialogsLemma, RestLemma
<1>3. IInv /\ Dialogs /\ Rest => TypeOK
  <2>1. Phases = {"none", "checking", "open", "claimed", "answered"}
    BY DEF Phases, Undecided
  <2>. QED
    BY <2>1 DEF IInv, Claims, Undecided, SavedByAuthor, Handled, Screen, Racing, Dialogs, Rest, TypeOK
<1>. QED  BY <1>1, <1>2, <1>3, Inductive, PTL DEF Spec

-----------------------------------------------------------------------------
(* What Answered rests on: an undecided request keeps its place in the     *)
(* queue, and a decided one gives it up.                                   *)

\* An undecided request is queued, or was dropped by the user's answer to another
\* dialog or by ESC; a decided one is queued only while its checkmark is shown.
Accounted ==
  /\ \A r \in Requests : Open(r) => r \in Queued \cup dropped
  /\ \A r \in Queued : Open(r) \/ r \in checkmark
  /\ \A r \in dropped : r \notin Queued

\* The dialog that is rendered is the head's, or of a request that left the queue.
HeadShown ==
  /\ shown \in Queued => shown = queue[1]
  /\ \A r \in Requests : r = shown \/ r \in dropped => phase[r] \in Posed
  /\ \A r \in checkmark : phase[r] = "answered"

Full == IInv /\ Dialogs /\ Rest /\ Accounted /\ HeadShown

\* The phases of a request, in their order.
Goes ==
  {<<"none", "checking">>, <<"checking", "open">>, <<"checking", "answered">>,
   <<"open", "claimed">>, <<"open", "answered">>, <<"claimed", "answered">>}

LEMMA PhaseLemma ==
  ASSUME IInv, [Next]_vars, NEW r \in Requests
  PROVE  phase'[r] = phase[r] \/ <<phase[r], phase'[r]>> \in Goes
PROOF
<1>. DEFINE Good == phase'[r] = phase[r] \/ <<phase[r], phase'[r]>> \in Goes
<1>1. phase' = phase => Good
  OBVIOUS
<1>2. \A q, x : phase' = [phase EXCEPT ![q] = x] /\ (q = r => <<phase[q], x>> \in Goes) => Good
  BY DEF IInv, Claims
<1>3. \A q, who, x : Decide(q, who, x) /\ <<phase[q], x>> \in Goes => Good
  BY <1>2 DEF Decide
<1>4. \A x \in {"claimed", "answered"} : <<"open", x>> \in Goes
  BY DEF Goes
<1>. HIDE DEF Good
<1>5. \A q : Ask(q) => Good
  BY <1>2 DEF Ask, Goes
<1>6. \A q : Checked(q) => Good
  BY <1>2, <1>3 DEF Checked, Settled, Prompt, Goes
<1>7. \A q : Answer(q) => Good
  BY <1>1, <1>3, <1>4 DEF Answer, Allow, Reject, Allowed, decision, Open
<1>8. \A q : Resolve(q) => Good
  BY <1>2 DEF Resolve, Goes
<1>9. \A q : Hook(q) \/ Classified(q) \/ Rechecked(q) \/ Kill(q) => Good
  BY <1>1, <1>3, <1>4 DEF Hook, Classified, Rechecked, Kill, Win, Lose, decision, Open
<1>10. \A q, side : Reply(q, side) => Good
  BY <1>1, <1>3, <1>4 DEF Reply, Win, Lose, Open
<1>11. Cancel => Good
  BY <1>4 DEF Cancel, Open, Good
<1>12. \A q : Interact(q) \/ CheckmarkEnds(q) => Good
  BY <1>1 DEF Interact, CheckmarkEnds, decision
<1>13. Render \/ Switch \/ Interrupt \/ UNCHANGED vars => Good
  BY <1>1 DEF Render, Switch, Interrupt, decision, vars
<1>14. Good
  BY <1>5, <1>6, <1>7, <1>8, <1>9, <1>10, <1>11, <1>12, <1>13 DEF Next
<1>. QED  BY <1>14 DEF Good

\* Nobody goes back before the prompt, and an answer is final.
LEMMA Onward ==
  ASSUME IInv, [Next]_vars, NEW r \in Requests
  PROVE  /\ phase[r] \in Posed => phase'[r] \in Posed
         /\ phase[r] = "answered" => phase'[r] = "answered"
         /\ Open(r)' => Open(r) \/ phase[r] = "checking"
PROOF
  BY PhaseLemma DEF Goes, Posed, Open

LEMMA QueuedAre == ASSUME Dialogs PROVE /\ Queued \subseteq Requests
                                        /\ \A r \in Queued : phase[r] \in Posed
PROOF
  BY DEF Dialogs, Queued, ToSet

\* Requests leave the queue and the dialog stays: each that leaves is decided, each
\* that stays is open or shows its checkmark.
LEMMA RemoveLemma ==
  ASSUME Full, [Next]_vars, NEW T, queue' = Keep(queue, T), UNCHANGED <<shown, dropped>>,
         \A r \in Requests : Open(r)' => Open(r),
         \A r \in Queued \ T : ~Open(r)',
         \A r \in Queued \cap T : Open(r)' \/ r \in checkmark',
         \A r \in checkmark' : r \in Requests /\ phase'[r] = "answered"
  PROVE  Accounted' /\ HeadShown'
PROOF
<1>1. queue \in Seq(Requests) /\ Queued' = Queued \cap T
  BY KeepSet DEF Full, Dialogs, Queued
<1>2. Queued \subseteq Requests /\ dropped \subseteq Requests
  BY QueuedAre DEF Full, Dialogs
<1>3. Accounted'
  BY <1>1, <1>2 DEF Full, Accounted
<1>4. shown' \in Queued' => shown' = queue'[1]
  <2>. SUFFICES ASSUME shown' \in Queued'  PROVE queue'[1] = shown
    OBVIOUS
  <2>1. shown \in Queued \cap T /\ shown = queue[1]
    BY <1>1 DEF Full, HeadShown
  <2>2. queue # <<>>
    BY <2>1 DEF Queued, ToSet
  <2>. QED  BY <1>1, <2>1, <2>2, KeepHead
<1>5. \A r \in Requests : r = shown' \/ r \in dropped' => phase'[r] \in Posed
  BY Onward DEF Full, HeadShown
<1>. QED  BY <1>3, <1>4, <1>5 DEF HeadShown

\* A step that changes nothing of the queue.
LEMMA StillLemma ==
  ASSUME Full, [Next]_vars, UNCHANGED dialogs,
         \A r \in Queued : Open(r)' \/ r \in checkmark',
         \A r \in Requests : Open(r)' => Open(r),
         \A r \in checkmark' : r \in Requests /\ phase'[r] = "answered"
  PROVE  Accounted' /\ HeadShown'
PROOF
<1>1. Accounted'
  BY DEF dialogs, Full, Accounted, Queued
<1>2. \A r \in Requests : r = shown' \/ r \in dropped' => phase'[r] \in Posed
  BY Onward DEF dialogs, Full, HeadShown
<1>. QED  BY <1>1, <1>2 DEF dialogs, Full, HeadShown, Queued

\* A dialog closes: what leaves the queue undecided is dropped.
LEMMA CloseLemma ==
  ASSUME Full, [Next]_vars, Part(queue'), shown' = Nobody, DropsUndecided,
         \A r \in Requests : Open(r)' => Open(r),
         \A r \in ToSet(queue') : Open(r)' \/ r \in checkmark',
         \A r \in checkmark' : r \in Requests /\ phase'[r] = "answered"
  PROVE  Accounted' /\ HeadShown'
PROOF
<1>1. Queued' = ToSet(queue') /\ Queued' \subseteq Queued
  BY DEF Part, Queued
<1>2. Queued \subseteq Requests /\ dropped \subseteq Requests /\ \A r \in Queued : phase[r] \in Posed
  BY QueuedAre DEF Full, Dialogs
<1>3. dropped' = dropped \cup {q \in Queued \ Queued' : Open(q)'}
  BY <1>1 DEF DropsUndecided, Open
<1>4. Accounted'
  BY <1>1, <1>2, <1>3 DEF Full, Accounted
<1>5. shown' \notin Requests
  BY PromptConstants
<1>6. \A r \in Requests : r \in dropped' => phase'[r] \in Posed
  BY <1>2, <1>3, Onward DEF Full, HeadShown
<1>. QED  BY <1>1, <1>2, <1>4, <1>5, <1>6 DEF HeadShown

-----------------------------------------------------------------------------
\* An abort, in a step that decides at most requests that leave the queue or were
\* never in it.
LEMMA AbortLemma ==
  ASSUME Full, [Next]_vars, NEW cs, NEW rs, Abort(cs, rs), UNCHANGED <<shown, dropped>>,
         \A r \in rs : ~Open(r)',
         \A r \in Requests \ rs : phase'[r] = phase[r] \/ (phase[r] = "checking" /\ ~Open(r)')
  PROVE  Accounted' /\ HeadShown'
PROOF
<1>. DEFINE out == rs \cup Checkmarks(cs)
            T == Requests \ out
<1>1. queue' = Removed(out) /\ checkmark' = checkmark \ Checkmarks(cs)
  BY DEF Abort, Checkmarks
<1>2. queue' = Keep(queue, T)
  <2>1. \A n \in 0..Len(queue) : n # 0 => (queue[n] \notin out <=> queue[n] \in T)
    BY DEF Full, Dialogs
  <2>. QED  BY <1>1, <2>1 DEF Removed, Filter, Keep
<1>3. Queued \subseteq Requests /\ checkmark \subseteq Requests /\ \A r \in Queued : phase[r] \in Posed
  BY QueuedAre, Names DEF Full, Rest
<1>4. \A r \in checkmark : phase'[r] = "answered"
  BY <1>3, Onward DEF Full, HeadShown
<1>5. \A r \in Requests : Open(r)' => Open(r)
  BY DEF Open
<1>6. \A r \in Queued \ T : ~Open(r)'
  BY <1>3, <1>4 DEF Checkmarks, Open
<1>7. \A r \in Queued \cap T : Open(r)' \/ r \in checkmark'
  <2>1. \A r \in Queued \cap T : Open(r) \/ r \in checkmark
    BY DEF Full, Accounted
  <2>2. \A r \in Queued \cap T : r \notin Checkmarks(cs) /\ phase'[r] = phase[r]
    BY <1>3 DEF Posed
  <2>. QED  BY <1>1, <2>1, <2>2 DEF Open
<1>. HIDE DEF T
<1>. QED  BY <1>1, <1>2, <1>3, <1>4, <1>5, <1>6, <1>7, RemoveLemma

\* A racer who finds the request open decides it, and its dialog goes.
LEMMA DecidedOut ==
  ASSUME Full, NEW r \in Requests, NEW who, NEW next \in {"claimed", "answered"},
         Decide(r, who, next)
  PROVE  /\ ~Open(r)' /\ phase'[r] = next
         /\ \A q \in Requests \ {r} : phase'[q] = phase[q]
         /\ \A q \in Requests : Open(q)' => Open(q)
PROOF
  BY DEF Full, IInv, Claims, Decide, Open

LEMMA WinOut ==
  ASSUME Full, [Next]_vars, NEW r \in Requests, NEW who, NEW cs, Win(r, who, cs),
         UNCHANGED <<shown, dropped>>
  PROVE  Accounted' /\ HeadShown'
PROOF
  BY DecidedOut, AbortLemma DEF Win

\* Steps that decide nothing and at most abort.
LEMMA SamePhase ==
  ASSUME Full, [Next]_vars, UNCHANGED phase, UNCHANGED <<shown, dropped>>,
         \/ UNCHANGED <<queue, checkmark>>
         \/ \E cs : Abort(cs, {})
  PROVE  Accounted' /\ HeadShown'
PROOF
<1>1. CASE UNCHANGED <<queue, checkmark>>
  <2>1. \A r \in checkmark : r \in Requests /\ phase[r] = "answered"
    BY Names DEF Full, Rest, HeadShown
  <2>2. \A r \in Queued : Open(r)' \/ r \in checkmark'
    BY <1>1 DEF Full, Accounted, Open
  <2>. QED  BY <1>1, <2>1, <2>2, StillLemma DEF dialogs, Open
<1>2. ASSUME NEW cs, Abort(cs, {})  PROVE Accounted' /\ HeadShown'
  BY <1>2, AbortLemma
<1>. QED  BY <1>1, <1>2

-----------------------------------------------------------------------------
\* The step of each action.
LEMMA CheckAccounts ==
  ASSUME Full, [Next]_vars, NEW r \in Requests, Ask(r) \/ Checked(r)
  PROVE  Accounted' /\ HeadShown'
PROOF
<1>0. /\ Queued \subseteq Requests /\ dropped \subseteq Requests /\ checkmark \subseteq Requests
      /\ \A q \in Queued : phase[q] \in Posed
      /\ \A q \in checkmark : phase[q] = "answered"
      /\ phase \in [Requests -> Phases]
  BY QueuedAre, Names DEF Full, IInv, Claims, Dialogs, Rest, HeadShown
<1>1. CASE Ask(r)
  <2>1. UNCHANGED <<dialogs, checkmark>> /\ phase[r] = "none" /\ phase' = [phase EXCEPT ![r] = "checking"]
    BY <1>1 DEF Ask, racing
  <2>2. ~Open(r)' /\ \A q \in Requests \ {r} : phase'[q] = phase[q]
    BY <1>0, <2>1 DEF Open
  <2>3. \A q \in Queued : Open(q)' \/ q \in checkmark'
    BY <1>0, <2>1, <2>2 DEF Full, Accounted, Open, Posed
  <2>4. \A q \in checkmark' : q \in Requests /\ phase'[q] = "answered"
    BY <1>0, <2>1, <2>2
  <2>5. \A q \in Requests : Open(q)' => Open(q)
    BY <2>2 DEF Open
  <2>. QED  BY <2>1, <2>3, <2>4, <2>5, StillLemma
<1>2. CASE phase[r] = "checking" /\ Settled(r)
  <2>1. PICK who, cs : Decide(r, who, "answered") /\ Abort(cs, {}) /\ UNCHANGED <<shown, dropped>>
    BY <1>2 DEF Settled
  <2>2. ~Open(r)' /\ \A q \in Requests \ {r} : phase'[q] = phase[q]
    BY <2>1, DecidedOut
  <2>. QED  BY <1>2, <2>1, <2>2, AbortLemma
<1>3. CASE phase[r] = "checking" /\ Prompt(r)
  <2>1. /\ phase' = [phase EXCEPT ![r] = "open"] /\ queue' = Append(queue, r)
        /\ UNCHANGED <<shown, dropped, checkmark>>
    BY <1>3 DEF Prompt
  <2>2. Open(r)' /\ \A q \in Requests \ {r} : phase'[q] = phase[q]
    BY <1>0, <2>1 DEF Open
  <2>3. /\ Queued' = Queued \cup {r}
        /\ \A q \in Queued : queue'[1] = queue[1]
    <3>1. /\ DOMAIN queue = 1..Len(queue) /\ Len(queue) \in Nat
          /\ DOMAIN queue' = 1..(Len(queue) + 1) /\ queue'[Len(queue) + 1] = r
          /\ \A i \in 1..Len(queue) : queue'[i] = queue[i]
      BY <2>1 DEF Full, Dialogs
    <3>2. \A i \in 1..(Len(queue) + 1) : i = Len(queue) + 1 \/ i \in 1..Len(queue)
      BY <3>1
    <3>3. Queued' = Queued \cup {r}
      BY <3>1, <3>2 DEF Queued, ToSet
    <3>4. \A q \in Queued : 1 \in 1..Len(queue)
      BY <3>1 DEF Queued, ToSet
    <3>. QED  BY <3>1, <3>3, <3>4
  <2>4. r \notin Queued /\ r \notin dropped /\ r # shown /\ r \notin checkmark
    BY <1>0, <1>3 DEF Full, HeadShown, Posed
  <2>5. Accounted'
    BY <1>0, <2>1, <2>2, <2>3, <2>4 DEF Full, Accounted, Open
  <2>6. HeadShown'
    BY <1>0, <2>1, <2>2, <2>3, <2>4 DEF Full, HeadShown
  <2>. QED  BY <2>5, <2>6
<1>. QED  BY <1>1, <1>2, <1>3 DEF Checked

\* The answer of the user: the dialog is the head's, so the head leaves decided, or
\* of a request that is not queued any more, so the head is dropped.
LEMMA AnswerAccounts ==
  ASSUME Full, [Next]_vars, NEW r \in Requests, Answer(r)
  PROVE  Accounted' /\ HeadShown'
PROOF
<1>0. /\ Queued \subseteq Requests /\ checkmark \subseteq Requests
      /\ \A q \in checkmark : phase[q] = "answered" /\ phase'[q] = "answered"
      /\ shown = r /\ Part(queue)
  BY QueuedAre, Names, Onward DEF Full, Rest, HeadShown, Answer, Allow, Reject, Dialogs, Part, Queued
<1>1. ASSUME NEW q, Part(q), r \in ToSet(q) => q[1] = r
      PROVE  Part(Done(q)) /\ r \notin ToSet(Done(q)) /\ ToSet(Done(q)) \subseteq ToSet(q)
  <2>1. CASE q = <<>>
    BY <1>1, <2>1, DonePart DEF Done, ToSet
  <2>2. CASE q # <<>>
    <3>1. /\ Done(q) = Tail(q) /\ Len(q) \in Nat
          /\ DOMAIN Tail(q) = 1..(Len(q) - 1) /\ DOMAIN q = 1..Len(q)
          /\ \A i \in 1..(Len(q) - 1) : Tail(q)[i] = q[i + 1] /\ i + 1 \in 1..Len(q) /\ i + 1 # 1
      BY <1>1, <2>2 DEF Done, Part
    <3>2. 1 \in 1..Len(q)
      BY <1>1, <2>2, <3>1 DEF Part
    <3>3. ToSet(Tail(q)) \subseteq ToSet(q)
      BY <3>1 DEF ToSet
    <3>4. r \notin ToSet(Tail(q))
      <4>1. \A i \in 1..(Len(q) - 1) : q[i + 1] # q[1]
        BY <1>1, <3>1, <3>2 DEF Part, IsInjective
      <4>. QED  BY <1>1, <3>1, <3>3, <4>1 DEF ToSet
    <3>. QED  BY <1>1, <3>1, <3>3, <3>4, DonePart
  <2>. QED  BY <2>1, <2>2
<1>2. r \in Queued => queue[1] = r
  BY <1>0 DEF Full, HeadShown
<1>3. Open(r) => (\A q \in Requests \ {r} : phase'[q] = phase[q]) /\ ~Open(r)'
  BY DecidedOut DEF Answer, Allow, Reject, Allowed
<1>4. ~Open(r) => phase' = phase
  BY DEF Answer, Allow, Reject, decision
<1>5. \A q \in Requests : Open(q)' => Open(q)
  BY <1>3, <1>4 DEF Open
<1>6. \A q \in Requests : q # r => phase'[q] = phase[q]
  BY <1>3, <1>4
<1>7. ASSUME NEW b \in BOOLEAN, Allow(r, b)  PROVE Accounted' /\ HeadShown'
  <2>1. /\ queue' = Done(queue) /\ shown' = Nobody /\ DropsUndecided /\ checkmark' = checkmark
    BY <1>7 DEF Allow, racing
  <2>2. Part(queue') /\ r \notin ToSet(queue') /\ ToSet(queue') \subseteq Queued
    BY <1>0, <1>1, <1>2, <2>1 DEF Queued
  <2>3. \A q \in ToSet(queue') : Open(q)' \/ q \in checkmark'
    BY <1>0, <1>6, <2>1, <2>2 DEF Full, Accounted, Open
  <2>. QED  BY <1>0, <1>5, <2>1, <2>2, <2>3, CloseLemma
<1>8. ASSUME NEW b \in BOOLEAN, Reject(r, b)  PROVE Accounted' /\ HeadShown'
  <2>. DEFINE cs == IF Open(r) /\ r \in Main /\ ~b THEN {"main"} ELSE {}
              T == {q \in Requests : q = r \/ q \notin Checkmarks(cs)}
              rest == Filter(queue, LAMBDA q : q = r \/ q \notin Checkmarks(cs))
  <2>1. /\ queue' = Done(rest) /\ shown' = Nobody /\ DropsUndecided
        /\ checkmark' = checkmark \ Checkmarks(cs)
    BY <1>8 DEF Reject
  <2>2. rest = Keep(queue, T)
    <3>1. \A n \in 0..Len(queue) :
            n # 0 => ((queue[n] = r \/ queue[n] \notin Checkmarks(cs)) <=> queue[n] \in T)
      BY DEF Full, Dialogs
    <3>. QED  BY <3>1 DEF Filter, Keep
  <2>3. r \in T /\ \A q \in T : q = r \/ q \notin Checkmarks(cs)
    OBVIOUS
  <2>. HIDE DEF rest, T
  <2>4. queue \in Seq(Requests) /\ Part(rest) /\ ToSet(rest) = Queued \cap T
    BY <2>2, KeepPart, KeepSet DEF Full, Dialogs, Queued
  <2>5. r \in ToSet(rest) => rest[1] = r
    <3>. SUFFICES ASSUME r \in ToSet(rest)  PROVE rest[1] = r
      OBVIOUS
    <3>1. r \in Queued /\ queue # <<>>
      BY <2>4 DEF Queued, ToSet
    <3>. QED  BY <1>2, <2>2, <2>3, <2>4, <3>1, KeepHead
  <2>6. Part(queue') /\ r \notin ToSet(queue') /\ ToSet(queue') \subseteq Queued \cap T
    BY <1>1, <2>1, <2>4, <2>5
  <2>7. \A q \in ToSet(queue') : Open(q)' \/ q \in checkmark'
    BY <1>0, <1>6, <2>1, <2>3, <2>6 DEF Full, Accounted, Open
  <2>. QED  BY <1>0, <1>5, <2>1, <2>6, <2>7, CloseLemma
<1>. QED  BY <1>7, <1>8 DEF Answer

LEMMA RacerAccounts ==
  ASSUME Full, [Next]_vars, NEW r \in Requests,
         \/ Resolve(r) \/ Interact(r) \/ Hook(r) \/ Classified(r) \/ CheckmarkEnds(r)
         \/ Rechecked(r) \/ Kill(r) \/ \E side \in Remotes : Reply(r, side)
  PROVE  Accounted' /\ HeadShown'
PROOF
<1>0. /\ Queued \subseteq Requests /\ checkmark \subseteq Requests
      /\ \A q \in checkmark : phase[q] = "answered" /\ phase'[q] = "answered"
      /\ \A q \in Queued : Open(q) \/ q \in checkmark
      /\ phase \in [Requests -> Phases] /\ queue \in Seq(Requests)
  BY QueuedAre, Names, Onward DEF Full, IInv, Claims, Rest, HeadShown, Accounted, Dialogs
<1>1. CASE Resolve(r)
  <2>1. UNCHANGED <<dialogs, checkmark>> /\ phase[r] = "claimed" /\ phase' = [phase EXCEPT ![r] = "answered"]
    BY <1>1 DEF Resolve, racing
  <2>2. \A q \in Requests : Open(q)' <=> Open(q)
    BY <1>0, <2>1 DEF Open
  <2>. QED  BY <1>0, <2>1, <2>2, StillLemma
<1>2. CASE Interact(r)
  BY <1>2, SamePhase DEF Interact, decision, dialogs
<1>3. CASE Hook(r)
  <2>1. UNCHANGED <<shown, dropped>>
    BY <1>3 DEF Hook
  <2>2. CASE UNCHANGED <<decision, queue, remote, checkmark, aborted>>
    BY <2>1, <2>2, SamePhase DEF decision
  <2>3. ASSUME NEW cs, Win(r, "hook", cs)  PROVE Accounted' /\ HeadShown'
    BY <2>1, <2>3, WinOut
  <2>4. ASSUME NEW cs, Lose(r, "hook", cs)  PROVE Accounted' /\ HeadShown'
    BY <2>1, <2>4, SamePhase DEF Lose
  <2>. QED  BY <1>3, <2>2, <2>3, <2>4 DEF Hook
<1>4. CASE Classified(r)
  <2>1. CASE UNCHANGED <<decision, remote, checkmark>>
    BY <1>4, <2>1, SamePhase DEF Classified, decision, dialogs
  <2>2. CASE Decide(r, "classifier", "answered") /\ checkmark' = checkmark \cup {r}
    <3>1. /\ phase'[r] = "answered" /\ \A q \in Requests \ {r} : phase'[q] = phase[q]
          /\ \A q \in Requests : Open(q)' => Open(q)
      BY <2>2, DecidedOut
    <3>2. \A q \in Queued : Open(q)' \/ q \in checkmark'
      BY <1>0, <2>2, <3>1 DEF Open
    <3>3. \A q \in checkmark' : q \in Requests /\ phase'[q] = "answered"
      BY <1>0, <2>2, <3>1
    <3>. QED  BY <1>4, <3>1, <3>2, <3>3, StillLemma DEF Classified
  <2>. QED  BY <1>4, <2>1, <2>2 DEF Classified
<1>5. CASE CheckmarkEnds(r)
  <2>1. /\ r \in checkmark /\ checkmark' = checkmark \ {r} /\ queue' = Removed({r})
        /\ UNCHANGED <<phase, shown, dropped>>
    BY <1>5 DEF CheckmarkEnds, decision
  <2>. DEFINE T == Requests \ {r}
  <2>2. queue' = Keep(queue, T)
    <3>1. \A n \in 0..Len(queue) : n # 0 => (queue[n] \notin {r} <=> queue[n] \in T)
      BY <1>0
    <3>. QED  BY <2>1, <3>1 DEF Removed, Filter, Keep
  <2>3. \A q \in Queued \ T : ~Open(q)'
    BY <1>0, <2>1 DEF Open
  <2>4. \A q \in Queued \cap T : Open(q)' \/ q \in checkmark'
    BY <1>0, <2>1 DEF Open
  <2>5. \A q \in Requests : Open(q)' => Open(q)
    BY <2>1 DEF Open
  <2>. HIDE DEF T
  <2>. QED  BY <1>0, <2>1, <2>2, <2>3, <2>4, <2>5, RemoveLemma
<1>6. CASE Rechecked(r)
  <2>1. UNCHANGED <<shown, dropped>>
    BY <1>6 DEF Rechecked
  <2>2. CASE UNCHANGED <<decision, queue, remote, checkmark, aborted>>
    BY <2>1, <2>2, SamePhase DEF decision
  <2>3. CASE Win(r, "config", {})
    BY <2>1, <2>3, WinOut
  <2>4. CASE ~Open(r) /\ Abort({}, {r}) /\ UNCHANGED phase
    BY <2>1, <2>4, AbortLemma DEF Open
  <2>. QED  BY <1>6, <2>2, <2>3, <2>4 DEF Rechecked
<1>7. CASE Kill(r)
  <2>1. UNCHANGED <<shown, dropped>>
    BY <1>7 DEF Kill
  <2>2. CASE Decide(r, "abort", "answered") /\ Abort({r}, {r})
    BY <2>1, <2>2, DecidedOut, AbortLemma
  <2>3. CASE Abort({r}, {}) /\ UNCHANGED phase
    BY <2>1, <2>3, SamePhase
  <2>. QED  BY <1>7, <2>2, <2>3 DEF Kill
<1>8. ASSUME NEW side, Reply(r, side)  PROVE Accounted' /\ HeadShown'
  <2>1. UNCHANGED <<shown, dropped>>
    BY <1>8 DEF Reply
  <2>2. ASSUME NEW cs, Win(r, side, cs)  PROVE Accounted' /\ HeadShown'
    BY <2>1, <2>2, WinOut
  <2>3. CASE Lose(r, side, {})
    BY <2>1, <2>3, SamePhase DEF Lose
  <2>. QED  BY <1>8, <2>2, <2>3 DEF Reply
<1>. QED  BY <1>1, <1>2, <1>3, <1>4, <1>5, <1>6, <1>7, <1>8

LEMMA CancelAccounts ==
  ASSUME Full, [Next]_vars, Render \/ Switch \/ Cancel \/ Interrupt \/ UNCHANGED vars
  PROVE  Accounted' /\ HeadShown'
PROOF
<1>0. /\ Queued \subseteq Requests /\ checkmark \subseteq Requests
      /\ \A q \in checkmark : phase[q] = "answered" /\ phase'[q] = "answered"
      /\ queue \in Seq(Requests)
  BY QueuedAre, Names, Onward DEF Full, Rest, HeadShown, Dialogs
<1>1. CASE Render
  <2>1. UNCHANGED <<phase, queue, dropped, checkmark>>
    BY <1>1 DEF Render, decision, racing
  <2>2. Accounted'
    BY <2>1 DEF Full, Accounted, Open, Queued
  <2>3. PICK s \in {Nobody} \cup {queue[i] : i \in {1} \cap DOMAIN queue} : shown' = s
    BY <1>1 DEF Render
  <2>4. shown' = Nobody \/ (shown' = queue[1] /\ 1 \in DOMAIN queue)
    BY <2>3
  <2>5. shown' \in Queued' => shown' = queue'[1]
    BY <1>0, <2>1, <2>4, PromptConstants DEF Queued
  <2>6. \A q \in Requests : q = shown' \/ q \in dropped' => phase'[q] \in Posed
    <3>1. \A q \in Queued : phase[q] \in Posed
      BY QueuedAre DEF Full
    <3>2. 1 \in DOMAIN queue => queue[1] \in Queued
      BY DEF Queued, ToSet
    <3>. QED  BY <2>1, <2>4, <3>1, <3>2, PromptConstants DEF Full, HeadShown
  <2>7. \A q \in checkmark' : phase'[q] = "answered"
    BY <2>1 DEF Full, HeadShown
  <2>. QED  BY <2>2, <2>5, <2>6, <2>7 DEF HeadShown
<1>2. CASE Switch \/ UNCHANGED vars
  BY <1>2, SamePhase DEF Switch, vars, decision, dialogs, racing
<1>3. CASE Cancel
  <2>. DEFINE told == {r \in {shown} \cap Requests : Open(r)}
              cs == IF shown = Nobody \/ told \cap Main # {} THEN {"main"} ELSE {}
  <2>1. /\ phase' = [r \in Requests |-> IF r \in told THEN "answered" ELSE phase[r]]
        /\ queue' = <<>> /\ DropsUndecided /\ shown' = Nobody
        /\ checkmark' = checkmark \ Checkmarks(cs)
    BY <1>3 DEF Cancel
  <2>2. Part(queue') /\ ToSet(queue') = {}
    BY <2>1 DEF Part, IsInjective, ToSet
  <2>3. \A q \in Requests : Open(q)' => Open(q)
    BY <2>1 DEF Open
  <2>. HIDE DEF told, cs
  <2>. QED  BY <1>0, <2>1, <2>2, <2>3, CloseLemma
<1>4. CASE Interrupt
  <2>1. Abort({"main"}, {}) /\ UNCHANGED <<phase, shown, dropped>>
    BY <1>4 DEF Interrupt, decision
  <2>. QED  BY <2>1, SamePhase
<1>. QED  BY <1>1, <1>2, <1>3, <1>4

\* For any requests, racers and dialogs that are suppressed meanwhile: an undecided
\* request is not lost from the queue but by the two steps that drop it, and none
\* that is decided blocks the ones behind it, its checkmark apart (pushToQueue,
\* removeFromQueue, onDone, the checkmark's timer, onAbort and handleCancel).
THEOREM NoRequestLost == Spec => []Accounted
PROOF
<1>1. Init => Accounted /\ HeadShown /\ Dialogs /\ Rest
  <2>1. MaxCancels \in Nat /\ MaxSwitches \in Nat /\ Nobody \notin Requests
    BY PromptConstants
  <2>. QED
    BY <2>1 DEF Init, Accounted, HeadShown, Dialogs, Rest, IsInjective, Queued, ToSet, Open
<1>2. IInv /\ Dialogs /\ Rest /\ [Next]_vars => Dialogs' /\ Rest'
  BY DialogsLemma, RestLemma
<1>3. Full /\ [Next]_vars => Accounted' /\ HeadShown'
  <2>. SUFFICES ASSUME Full, [Next]_vars PROVE Accounted' /\ HeadShown'
    OBVIOUS
  <2>1. ASSUME NEW r \in Requests, Ask(r) \/ Checked(r)  PROVE Accounted' /\ HeadShown'
    BY <2>1, CheckAccounts
  <2>2. ASSUME NEW r \in Requests, Answer(r)  PROVE Accounted' /\ HeadShown'
    BY <2>2, AnswerAccounts
  <2>3. ASSUME NEW r \in Requests,
               \/ Resolve(r) \/ Interact(r) \/ Hook(r) \/ Classified(r) \/ CheckmarkEnds(r)
               \/ Rechecked(r) \/ Kill(r) \/ \E side \in Remotes : Reply(r, side)
        PROVE  Accounted' /\ HeadShown'
    BY <2>3, RacerAccounts
  <2>4. CASE Render \/ Switch \/ Cancel \/ Interrupt \/ UNCHANGED vars
    BY <2>4, CancelAccounts
  <2>. QED  BY <2>1, <2>2, <2>3, <2>4 DEF Next
<1>4. IInv /\ Dialogs /\ Rest /\ Accounted /\ HeadShown <=> Full
  BY DEF Full
<1>. QED  BY <1>1, <1>2, <1>3, <1>4, Inductive, PTL DEF Spec
=============================================================================
