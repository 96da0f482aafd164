--------------------------- MODULE TurnQueueProofs ---------------------------
(***************************************************************************)
(* Proofs about TurnQueue, for any number of commands, kinds and forced    *)
(* ends.  First the guard: it belongs to a turn that will release it, and  *)
(* until a forced end there is one turn at a time; what the turns carry    *)
(* plays no part there, so a turn's fields other than pc, gen and wrapped  *)
(* only have to be in some set.  Then what is in the queue and what the    *)
(* turns carry: no command is lost, and none is delivered twice.           *)
(***************************************************************************)
EXTENDS TurnQueue, FilteringTheorems, FiniteSetTheorems, TLAPS

Querying == {"query", "drain"}

\* The records of turns whose commands and snapshots are in X.
TurnOver(X) == [pc : PC, cmds : X, gen : Nat, wrapped : BOOLEAN, aborted : BOOLEAN, snapshot : X]

\* What a turn carries stays the same.
Holds(u) == turn'[u].cmds = turn[u].cmds /\ turn'[u].snapshot = turn[u].snapshot

Types ==
  /\ status \in {"idle", "dispatching", "running"} /\ generation \in Nat
  /\ \E X : turn \in Seq(TurnOver(X))

\* Generations only grow, and no two queries have the same one: a query that was
\* ended by force is not taken for a later one.
Generations ==
  \A t \in Turns : turn[t].pc \in Querying =>
    /\ turn[t].gen <= generation
    /\ \A u \in Turns : turn[u].pc \in Querying /\ turn[u].gen = turn[t].gen => u = t

IInv == Types /\ Generations /\ GuardIsOwned

-----------------------------------------------------------------------------
\* What a step does to the turns: it adds one, or changes one.
LEMMA WiderLemma ==
  ASSUME NEW X, NEW Y, X \subseteq Y
  PROVE  Seq(TurnOver(X)) \subseteq Seq(TurnOver(Y))
PROOF
<1>1. TurnOver(X) \subseteq TurnOver(Y)
  BY DEF TurnOver
<1>. QED  BY <1>1

LEMMA BegunLemma ==
  ASSUME Types, NEW entries, NEW pc \in PC, NEW gen \in Nat, turn' = Begun(entries, pc, gen)
  PROVE  /\ \E X : turn' \in Seq(TurnOver(X))
         /\ Turns \subseteq Turns' /\ Len(turn) + 1 \in Turns' /\ Len(turn) + 1 \notin Turns
         /\ \A u \in Turns' : u = Len(turn) + 1 \/ (u \in Turns /\ turn'[u] = turn[u])
         /\ turn'[Len(turn) + 1].pc = pc /\ turn'[Len(turn) + 1].gen = gen
         /\ turn'[Len(turn) + 1].cmds = entries /\ turn'[Len(turn) + 1].snapshot = <<>>
PROOF
<1>1. PICK X : turn \in Seq(TurnOver(X))
  BY DEF Types
<1>. DEFINE Y == X \cup {entries, <<>>}
            new == [pc |-> pc, cmds |-> entries, gen |-> gen, wrapped |-> pc = "input",
                    aborted |-> FALSE, snapshot |-> <<>>]
<1>2. turn \in Seq(TurnOver(Y))
  BY <1>1, WiderLemma
<1>3. new \in TurnOver(Y)
  BY DEF TurnOver
<1>4. turn' = Append(turn, new)
  BY DEF Begun
<1>. HIDE DEF new, Y
<1>5. turn' \in Seq(TurnOver(Y)) /\ Turns = 1..Len(turn) /\ Turns' = 1..(Len(turn) + 1)
  BY <1>2, <1>3, <1>4 DEF Turns
<1>6. turn'[Len(turn) + 1] = new /\ \A u \in Turns : turn'[u] = turn[u]
  BY <1>2, <1>3, <1>4 DEF Turns
<1>7. new.pc = pc /\ new.gen = gen /\ new.cmds = entries /\ new.snapshot = <<>>
  BY DEF new
<1>8. Len(turn) \in Nat
  BY <1>2
<1>. QED  BY <1>5, <1>6, <1>7, <1>8

LEMMA GenLemma == ASSUME Types, NEW t \in Turns PROVE turn[t].gen \in Nat /\ turn[t].pc \in PC
PROOF
<1>1. PICK X : turn \in Seq(TurnOver(X))
  BY DEF Types
<1>2. turn[t] \in TurnOver(X)
  BY <1>1 DEF Turns
<1>. QED  BY <1>2 DEF TurnOver

LEMMA ReplaceLemma ==
  ASSUME NEW S, NEW s \in Seq(S), NEW t \in DOMAIN s, NEW e \in S
  PROVE  /\ [s EXCEPT ![t] = e] \in Seq(S) /\ DOMAIN [s EXCEPT ![t] = e] = DOMAIN s
         /\ [s EXCEPT ![t] = e][t] = e
         /\ \A u \in DOMAIN s \ {t} : [s EXCEPT ![t] = e][u] = s[u]
PROOF
  OBVIOUS

LEMMA ChangeLemma ==
  ASSUME NEW X, turn \in Seq(TurnOver(X)), NEW Y, X \subseteq Y,
         NEW t \in Turns, NEW new \in TurnOver(Y), turn' = [turn EXCEPT ![t] = new]
  PROVE  /\ turn' \in Seq(TurnOver(Y)) /\ Turns' = Turns
         /\ turn'[t] = new /\ \A u \in Turns \ {t} : turn'[u] = turn[u]
PROOF
<1>. DEFINE next == [turn EXCEPT ![t] = new]
<1>1. turn \in Seq(TurnOver(Y)) /\ t \in DOMAIN turn
  BY WiderLemma DEF Turns
<1>2. /\ next \in Seq(TurnOver(Y)) /\ DOMAIN next = DOMAIN turn /\ next[t] = new
      /\ \A u \in DOMAIN turn \ {t} : next[u] = turn[u]
  BY <1>1, ReplaceLemma, Zenon
<1>. HIDE DEF next
<1>3. turn' = next
  BY DEF next
<1>. QED  BY <1>2, <1>3, Zenon DEF Turns

\* A turn keeps its generation or, when it is done, loses it.
LEMMA DoneLemma ==
  ASSUME Types, NEW t \in Turns, turn' = Done(t)
  PROVE  /\ \E X : turn' \in Seq(TurnOver(X))
         /\ Turns' = Turns /\ \A u \in Turns \ {t} : turn'[u] = turn[u]
         /\ turn'[t].pc = "done" /\ turn'[t].gen = 0
         /\ turn'[t].cmds = <<>> /\ turn'[t].snapshot = turn[t].snapshot
PROOF
<1>1. PICK X : turn \in Seq(TurnOver(X))
  BY DEF Types
<1>. DEFINE Y == X \cup {<<>>}
            new == [turn[t] EXCEPT !.pc = "done", !.cmds = <<>>, !.gen = 0]
<1>2. turn \in Seq(TurnOver(Y)) /\ turn[t] \in TurnOver(Y)
  BY <1>1, WiderLemma DEF Turns
<1>3. new \in TurnOver(Y) /\ new.pc = "done" /\ new.gen = 0
      /\ new.cmds = <<>> /\ new.snapshot = turn[t].snapshot
  BY <1>2 DEF TurnOver, PC
<1>4. turn' = [turn EXCEPT ![t] = new]
  BY DEF Done
<1>. HIDE DEF new, Y
<1>5. turn' \in Seq(TurnOver(Y)) /\ Turns' = Turns
  BY <1>2, <1>3, <1>4 DEF Turns
<1>6. turn'[t] = new /\ \A u \in Turns \ {t} : turn'[u] = turn[u]
  BY <1>2, <1>4 DEF Turns
<1>. QED  BY <1>3, <1>5, <1>6

\* A step that leaves pc, gen and wrapped of every turn alone, and the guard.
LEMMA QuietLemma ==
  ASSUME IInv, UNCHANGED guard, \E X : turn' \in Seq(TurnOver(X)), Turns' = Turns,
         \A u \in Turns : turn'[u].gen = turn[u].gen /\ turn'[u].wrapped = turn[u].wrapped
                          /\ (turn'[u].pc = turn[u].pc
                              \/ {turn[u].pc, turn'[u].pc} = Querying)
  PROVE  IInv'
PROOF
<1>1. \A u \in Turns : /\ (turn'[u].pc \in Querying) <=> (turn[u].pc \in Querying)
                       /\ (turn'[u].pc = "input") <=> (turn[u].pc = "input")
  BY DEF Querying
<1>2. Types' /\ Generations'
  BY <1>1 DEF IInv, Types, Generations, guard
<1>3. GuardIsOwned'
  BY <1>1 DEF IInv, GuardIsOwned, guard, Owns, Querying
<1>. QED  BY <1>2, <1>3 DEF IInv

\* A turn is done, and the guard stays, is taken and given back at once, or is
\* released by its owner; a turn that processed input leaves it in no case reserved
\* without another.
LEMMA SettleLemma ==
  ASSUME IInv, NEW t \in Turns, turn' = Done(t), generation' \in Nat,
         \/ /\ status' = status /\ generation' = generation
            /\ status = "running" => ~(turn[t].pc \in Querying /\ Owns(t))
            /\ status = "dispatching" => turn[t].pc # "input"
         \/ /\ status' = "idle" /\ generation' = generation
            /\ status = "running" => turn[t].pc \in Querying /\ Owns(t)
         \/ status' = "idle" /\ status # "running" /\ generation' = generation + 1
  PROVE  IInv'
PROOF
<1>1. /\ \E X : turn' \in Seq(TurnOver(X))
      /\ Turns' = Turns /\ \A u \in Turns \ {t} : turn'[u] = turn[u]
      /\ turn'[t].pc = "done"
  BY DoneLemma DEF IInv
<1>2. Types'
  BY <1>1 DEF IInv, Types
<1>3. \A u \in Turns' : turn'[u].pc \in Querying => u # t /\ turn[u] = turn'[u]
  BY <1>1 DEF Querying
<1>4. Generations'
  <2>1. generation' \in {generation, generation + 1}
    OBVIOUS
  <2>2. \A u \in Turns : turn[u].pc \in Querying => turn[u].gen <= generation'
    BY <2>1, GenLemma DEF IInv, Types, Generations
  <2>. QED  BY <1>1, <1>3, <2>2 DEF IInv, Generations
<1>5. GuardIsOwned'
  <2>1. ASSUME NEW u \in Turns', turn'[u].pc \in Querying, turn'[u].gen = generation'
        PROVE  status' = "running"
    <3>1. u \in Turns /\ u # t /\ turn[u].pc \in Querying /\ turn[u].gen = generation'
      BY <1>1, <1>3, <2>1
    <3>2. generation' = generation
      BY <3>1 DEF IInv, Generations, Types
    <3>3. status = "running"
      BY <3>1, <3>2 DEF IInv, GuardIsOwned, Querying
    <3>4. ~(turn[t].pc \in Querying /\ Owns(t))
      BY <3>1, <3>2 DEF Owns, IInv, Generations
    <3>. QED  BY <3>2, <3>3, <3>4 DEF IInv, Types
  <2>2. ASSUME status' = "running"
        PROVE  \E u \in Turns' : turn'[u].pc \in Querying /\ Owns(u)'
    <3>1. status = "running" /\ generation' = generation
      BY <2>2
    <3>2. PICK u \in Turns : turn[u].pc \in Querying /\ Owns(u)
      BY <3>1 DEF IInv, GuardIsOwned, Querying
    <3>3. u # t
      BY <2>2, <3>1, <3>2
    <3>. QED  BY <1>1, <2>2, <3>1, <3>2, <3>3 DEF Owns
  <2>3. ASSUME status' = "dispatching"
        PROVE  \E u \in Turns' : turn'[u].pc = "input"
    <3>1. PICK u \in Turns : turn[u].pc = "input"
      BY <2>3 DEF IInv, GuardIsOwned
    <3>. QED  BY <1>1, <2>3, <3>1
  <2>. QED  BY <2>1, <2>2, <2>3 DEF GuardIsOwned, Querying
<1>. QED  BY <1>2, <1>4, <1>5 DEF IInv

\* A turn starts a query: the guard runs for it, in a generation of its own.
LEMMA TakesLemma ==
  ASSUME IInv, NEW t, status # "running", status' = "running", generation' = generation + 1,
         \E X : turn' \in Seq(TurnOver(X)),
         t \in Turns', \A u \in Turns' : u = t \/ (u \in Turns /\ turn'[u] = turn[u]),
         turn'[t].pc = "query", turn'[t].gen = generation + 1
  PROVE  IInv'
PROOF
<1>1. Types'
  BY DEF IInv, Types
<1>2. \A u \in Turns' \ {t} : turn'[u].pc \in Querying =>
        turn'[u].gen \in Nat /\ turn'[u].gen <= generation
  BY GenLemma DEF IInv, Generations
<1>3. generation \in Nat
  BY DEF IInv, Types
<1>4. Generations'
  <2>1. \A u \in Turns' : turn'[u].pc \in Querying => turn'[u].gen <= generation'
    BY <1>2, <1>3
  <2>2. \A u, v \in Turns' :
          turn'[u].pc \in Querying /\ turn'[v].pc \in Querying /\ turn'[u].gen = turn'[v].gen
            => u = v
    BY <1>2, <1>3 DEF IInv, Generations
  <2>. QED  BY <2>1, <2>2 DEF Generations
<1>5. GuardIsOwned'
  BY DEF GuardIsOwned, Owns, Querying
<1>. QED  BY <1>1, <1>4, <1>5 DEF IInv

\* executeUserInput, called while the guard is idle.
LEMMA StartTurnLemma ==
  ASSUME IInv, ~Active, NEW entries, StartTurn(entries) PROVE IInv'
PROOF
<1>1. turn' = Begun(entries, "input", 0) /\ status' = "dispatching" /\ generation' = generation
  BY DEF StartTurn, Active, Reserved
<1>2. /\ \E X : turn' \in Seq(TurnOver(X))
      /\ Len(turn) + 1 \in Turns'
      /\ \A u \in Turns' : u = Len(turn) + 1 \/ (u \in Turns /\ turn'[u] = turn[u])
      /\ turn'[Len(turn) + 1].pc = "input"
  BY <1>1, BegunLemma DEF IInv, PC
<1>3. Types'
  BY <1>1, <1>2 DEF IInv, Types
<1>4. \A u \in Turns' : turn'[u].pc \in Querying => u \in Turns /\ turn'[u] = turn[u]
  BY <1>2 DEF Querying
<1>5. Generations'
  BY <1>1, <1>4 DEF IInv, Generations
<1>6. GuardIsOwned'
  <2>1. \A u \in Turns : turn[u].pc \in Querying => turn[u].gen # generation
    BY DEF Active, IInv, GuardIsOwned, Querying
  <2>. QED  BY <1>1, <1>2, <1>4, <2>1 DEF GuardIsOwned, Querying
<1>. QED  BY <1>3, <1>5, <1>6 DEF IInv

\* The guard is ended by force: a generation goes by in which nobody runs.
LEMMA ForceLemma ==
  ASSUME IInv, ForceEnd, \E X : turn' \in Seq(TurnOver(X)), Turns' = Turns,
         \A u \in Turns : turn'[u].pc = turn[u].pc /\ turn'[u].gen = turn[u].gen
  PROVE  IInv'
PROOF
<1>1. status' = "idle" /\ generation' \in {generation, generation + 1}
      /\ (status # "idle" => generation' = generation + 1) /\ generation \in Nat
  BY DEF ForceEnd, Active, IInv, Types
<1>2. \A u \in Turns : turn[u].pc \in Querying => turn[u].gen \in Nat /\ turn[u].gen <= generation
  BY GenLemma DEF IInv, Generations
<1>3. Types'
  BY <1>1 DEF IInv, Types
<1>4. Generations'
  <2>1. \A u \in Turns : turn[u].pc \in Querying => turn[u].gen <= generation'
    BY <1>1, <1>2
  <2>. QED  BY <2>1 DEF IInv, Generations
<1>5. GuardIsOwned'
  <2>1. \A u \in Turns : turn[u].pc \in Querying => turn[u].gen # generation'
    BY <1>1, <1>2 DEF IInv, GuardIsOwned, Querying
  <2>. QED  BY <1>1, <2>1 DEF GuardIsOwned, Querying
<1>. QED  BY <1>3, <1>4, <1>5 DEF IInv

-----------------------------------------------------------------------------
\* A field of a turn changes that is neither its pc nor its generation.
LEMMA AbortLemma ==
  ASSUME Types, NEW t \in Turns, turn' = [turn EXCEPT ![t].aborted = TRUE]
  PROVE  /\ \E X : turn' \in Seq(TurnOver(X)) /\ Turns' = Turns
         /\ \A u \in Turns : /\ turn'[u].pc = turn[u].pc /\ turn'[u].gen = turn[u].gen
                              /\ turn'[u].wrapped = turn[u].wrapped /\ Holds(u)
PROOF
<1>1. PICK X : turn \in Seq(TurnOver(X))
  BY DEF Types
<1>. DEFINE new == [turn[t] EXCEPT !.aborted = TRUE]
<1>2. turn[t] \in TurnOver(X)
  BY <1>1 DEF Turns
<1>3. new \in TurnOver(X) /\ new.pc = turn[t].pc /\ new.gen = turn[t].gen
      /\ new.wrapped = turn[t].wrapped
      /\ new.cmds = turn[t].cmds /\ new.snapshot = turn[t].snapshot
  BY <1>2 DEF TurnOver
<1>4. turn' = [turn EXCEPT ![t] = [turn[t] EXCEPT !.aborted = TRUE]]
  BY Zenon
<1>5. turn' = [turn EXCEPT ![t] = new]
  BY <1>4
<1>. HIDE DEF new
<1>6. X \subseteq X
  OBVIOUS
<1>7. /\ turn' \in Seq(TurnOver(X)) /\ Turns' = Turns
      /\ turn'[t] = new /\ \A u \in Turns \ {t} : turn'[u] = turn[u]
  BY <1>1, <1>3, <1>5, <1>6, ChangeLemma
<1>. QED  BY <1>3, <1>7 DEF Holds

\* A drain begins: the queries of a generation stay the same.
LEMMA DrainStartLemma ==
  ASSUME Types, NEW t \in Turns, NEW s, turn' = [turn EXCEPT ![t].pc = "drain", ![t].snapshot = s]
  PROVE  /\ \E X : turn' \in Seq(TurnOver(X)) /\ Turns' = Turns
         /\ turn'[t].pc = "drain" /\ turn'[t].gen = turn[t].gen
         /\ turn'[t].wrapped = turn[t].wrapped /\ \A u \in Turns \ {t} : turn'[u] = turn[u]
         /\ turn'[t].cmds = turn[t].cmds /\ turn'[t].snapshot = s
PROOF
<1>1. PICK X : turn \in Seq(TurnOver(X))
  BY DEF Types
<1>. DEFINE new == [turn[t] EXCEPT !.pc = "drain", !.snapshot = s]
            Y == X \cup {s}
<1>2. turn[t] \in TurnOver(X)
  BY <1>1 DEF Turns
<1>3. new \in TurnOver(Y) /\ new.pc = "drain" /\ new.gen = turn[t].gen
      /\ new.wrapped = turn[t].wrapped /\ new.cmds = turn[t].cmds /\ new.snapshot = s
  BY <1>2 DEF TurnOver, PC
<1>4. turn' = [turn EXCEPT ![t] = [turn[t] EXCEPT !.pc = "drain", !.snapshot = s]]
  BY DEF Turns
<1>5. turn' = [turn EXCEPT ![t] = new] /\ X \subseteq Y
  BY <1>4
<1>. HIDE DEF new, Y
<1>6. /\ turn' \in Seq(TurnOver(Y)) /\ Turns' = Turns
      /\ turn'[t] = new /\ \A u \in Turns \ {t} : turn'[u] = turn[u]
  BY <1>1, <1>3, <1>5, ChangeLemma, ZenonT(40)
<1>. QED  BY <1>3, <1>6

LEMMA DrainEndLemma ==
  ASSUME Types, NEW t \in Turns, turn' = [turn EXCEPT ![t].pc = "query", ![t].snapshot = <<>>]
  PROVE  /\ \E X : turn' \in Seq(TurnOver(X)) /\ Turns' = Turns
         /\ turn'[t].pc = "query" /\ turn'[t].gen = turn[t].gen
         /\ turn'[t].wrapped = turn[t].wrapped /\ \A u \in Turns \ {t} : turn'[u] = turn[u]
         /\ turn'[t].cmds = turn[t].cmds /\ turn'[t].snapshot = <<>>
PROOF
<1>1. PICK X : turn \in Seq(TurnOver(X))
  BY DEF Types
<1>. DEFINE new == [turn[t] EXCEPT !.pc = "query", !.snapshot = <<>>]
            Y == X \cup {<<>>}
<1>2. turn[t] \in TurnOver(X)
  BY <1>1 DEF Turns
<1>3. new \in TurnOver(Y) /\ new.pc = "query" /\ new.gen = turn[t].gen
      /\ new.wrapped = turn[t].wrapped /\ new.cmds = turn[t].cmds /\ new.snapshot = <<>>
  BY <1>2 DEF TurnOver, PC
<1>4. turn' = [turn EXCEPT ![t] = [turn[t] EXCEPT !.pc = "query", !.snapshot = <<>>]]
  BY DEF Turns
<1>5. turn' = [turn EXCEPT ![t] = new] /\ X \subseteq Y
  BY <1>4
<1>. HIDE DEF new, Y
<1>6. /\ turn' \in Seq(TurnOver(Y)) /\ Turns' = Turns
      /\ turn'[t] = new /\ \A u \in Turns \ {t} : turn'[u] = turn[u]
  BY <1>1, <1>3, <1>5, ChangeLemma
<1>. QED  BY <1>3, <1>6

LEMMA QueryLemma ==
  ASSUME Types, NEW t \in Turns, NEW g \in Nat,
         turn' = [turn EXCEPT ![t].pc = "query", ![t].gen = g, ![t].cmds = <<>>]
  PROVE  /\ \E X : turn' \in Seq(TurnOver(X)) /\ Turns' = Turns
         /\ turn'[t].pc = "query" /\ turn'[t].gen = g
         /\ turn'[t].cmds = <<>> /\ turn'[t].snapshot = turn[t].snapshot
         /\ \A u \in Turns \ {t} : turn'[u] = turn[u]
PROOF
<1>1. PICK X : turn \in Seq(TurnOver(X))
  BY DEF Types
<1>. DEFINE new == [turn[t] EXCEPT !.pc = "query", !.gen = g, !.cmds = <<>>]
            Y == X \cup {<<>>}
<1>2. turn[t] \in TurnOver(X)
  BY <1>1 DEF Turns
<1>3. new \in TurnOver(Y) /\ new.pc = "query" /\ new.gen = g
      /\ new.cmds = <<>> /\ new.snapshot = turn[t].snapshot
  BY <1>2 DEF TurnOver, PC
<1>4. turn' = [turn EXCEPT ![t] = [turn[t] EXCEPT !.pc = "query", !.gen = g, !.cmds = <<>>]]
  BY DEF Turns
<1>5. turn' = [turn EXCEPT ![t] = new] /\ X \subseteq Y
  BY <1>4
<1>. HIDE DEF new, Y
<1>6. /\ turn' \in Seq(TurnOver(Y)) /\ Turns' = Turns
      /\ turn'[t] = new /\ \A u \in Turns \ {t} : turn'[u] = turn[u]
  BY <1>1, <1>3, <1>5, ChangeLemma
<1>. QED  BY <1>3, <1>6

\* The turn of the controller is aborted, if there is one.
LEMMA AbortCurrentLemma ==
  ASSUME Types, turn' = [turn EXCEPT ![controller].aborted = TRUE]
  PROVE  /\ \E X : turn' \in Seq(TurnOver(X)) /\ Turns' = Turns
         /\ \A u \in Turns : /\ turn'[u].pc = turn[u].pc /\ turn'[u].gen = turn[u].gen
                              /\ turn'[u].wrapped = turn[u].wrapped /\ Holds(u)
PROOF
<1>1. CASE controller \in Turns
  BY <1>1, AbortLemma
<1>2. CASE controller \notin Turns
  <2>1. PICK X : turn \in Seq(TurnOver(X))
    BY DEF Types
  <2>2. turn = [u \in DOMAIN turn |-> turn[u]]
    BY <2>1
  <2>3. turn' = turn
    BY <1>2, <2>2 DEF Turns
  <2>. QED  BY <2>1, <2>3 DEF Turns, Holds
<1>. QED  BY <1>1, <1>2

-----------------------------------------------------------------------------
\* The actions.
LEMMA ArrivesLemma ==
  ASSUME IInv, NEW k, Arrives(k) PROVE IInv'
PROOF
<1>1. CASE Submit(k) /\ Active
  <2>1. UNCHANGED guard /\ (turn' = turn \/ turn' = [turn EXCEPT ![controller].aborted = TRUE])
    BY <1>1 DEF Submit
  <2>2. CASE turn' = turn
    BY <2>1, <2>2, QuietLemma DEF IInv, Types, Turns
  <2>3. CASE turn' = [turn EXCEPT ![controller].aborted = TRUE]
    BY <2>1, <2>3, AbortCurrentLemma, QuietLemma DEF IInv
  <2>. QED  BY <2>1, <2>2, <2>3
<1>2. CASE Submit(k) /\ ~Active
  <2>1. PICK entries : StartTurn(entries)
    BY <1>2 DEF Submit
  <2>. QED  BY <1>2, <2>1, StartTurnLemma
<1>3. CASE Notify(k)
  BY <1>3, QuietLemma DEF Notify, IInv, Types, Turns
<1>4. CASE Incoming
  <2>1. /\ status # "running" /\ status' = "running" /\ generation' = generation + 1
        /\ turn' = Begun(<<>>, "query", generation + 1) /\ generation + 1 \in Nat
    BY <1>4 DEF Incoming, Active, IInv, Types
  <2>2. /\ \E X : turn' \in Seq(TurnOver(X))
        /\ Len(turn) + 1 \in Turns'
        /\ \A u \in Turns' : u = Len(turn) + 1 \/ (u \in Turns /\ turn'[u] = turn[u])
        /\ turn'[Len(turn) + 1].pc = "query" /\ turn'[Len(turn) + 1].gen = generation + 1
    BY <2>1, BegunLemma DEF IInv, PC
  <2>. QED  BY <2>1, <2>2, TakesLemma
<1>. QED  BY <1>1, <1>2, <1>3, <1>4 DEF Arrives

LEMMA EffectLemma == ASSUME IInv, Effect PROVE IInv'
PROOF
<1>1. CASE UNCHANGED <<guard, turn>>
  BY <1>1, QuietLemma DEF IInv, Types, Turns
<1>2. CASE ~Active /\ StartTurn(ToProcess)
  BY <1>2, StartTurnLemma
<1>. QED  BY <1>1, <1>2 DEF Effect

LEMMA InputDoneLemma ==
  ASSUME IInv, NEW t \in Turns, InputDone(t) PROVE IInv'
PROOF
<1>1. turn[t].pc = "input" /\ turn[t].pc \notin Querying /\ generation \in Nat
      /\ status \in {"idle", "dispatching", "running"}
  BY DEF InputDone, Querying, IInv, Types
<1>2. CASE PutBack(t)
  BY <1>1, <1>2, SettleLemma DEF PutBack, guard
<1>3. CASE BeginQuery(t)
  <2>1. /\ status # "running" /\ status' = "running" /\ generation' = generation + 1
        /\ turn' = [turn EXCEPT ![t].pc = "query", ![t].gen = generation + 1, ![t].cmds = <<>>]
        /\ generation + 1 \in Nat
    BY <1>1, <1>3 DEF BeginQuery
  <2>2. /\ \E X : turn' \in Seq(TurnOver(X)) /\ Turns' = Turns
        /\ turn'[t].pc = "query" /\ turn'[t].gen = generation + 1
        /\ \A u \in Turns \ {t} : turn'[u] = turn[u]
    BY <2>1, QueryLemma DEF IInv
  <2>. QED  BY <2>1, <2>2, TakesLemma
<1>4. CASE RunLocally(t)
  BY <1>1, <1>4, SettleLemma DEF RunLocally
<1>5. CASE RunSilently(t) \/ Throw(t)
  <2>1. status' = Unreserved(status) /\ turn' = Done(t) /\ generation' = generation
    BY <1>5 DEF RunSilently, Throw
  <2>. QED  BY <1>1, <2>1, SettleLemma DEF Unreserved
<1>. QED  BY <1>2, <1>3, <1>4, <1>5 DEF InputDone

LEMMA DrainLemma ==
  ASSUME IInv, NEW t \in Turns, DrainStart(t) \/ DrainEnd(t) PROVE IInv'
PROOF
<1>1. CASE DrainStart(t)
  <2>1. PICK s : turn' = [turn EXCEPT ![t].pc = "drain", ![t].snapshot = s]
    BY <1>1 DEF DrainStart
  <2>2. turn[t].pc = "query" /\ UNCHANGED guard
    BY <1>1 DEF DrainStart
  <2>. QED  BY <2>1, <2>2, DrainStartLemma, QuietLemma, ZenonT(40) DEF IInv, Querying
<1>2. CASE DrainEnd(t)
  <2>1. turn' = [turn EXCEPT ![t].pc = "query", ![t].snapshot = <<>>]
        /\ turn[t].pc = "drain" /\ UNCHANGED guard
    BY <1>2 DEF DrainEnd
  <2>2. /\ \E X : turn' \in Seq(TurnOver(X)) /\ Turns' = Turns
        /\ turn'[t].pc = "query" /\ turn'[t].gen = turn[t].gen
        /\ turn'[t].wrapped = turn[t].wrapped /\ \A u \in Turns \ {t} : turn'[u] = turn[u]
    BY <2>1, DrainEndLemma DEF IInv
  <2>. QED  BY <2>1, <2>2, QuietLemma DEF Querying
<1>. QED  BY <1>1, <1>2

\* Only the owner of the guard releases it; who ran for a turn that was overtaken
\* finds it idle, or running for another, or reserved, and then lets the reservation go.
LEMMA QueryEndLemma ==
  ASSUME IInv, NEW t \in Turns, QueryEnd(t) PROVE IInv'
PROOF
<1>1. /\ turn[t].pc = "query" /\ turn' = Done(t) /\ generation' = generation
      /\ turn[t].pc \in Querying /\ turn[t].pc # "input"
  BY DEF QueryEnd, Querying
<1>2. generation' \in Nat /\ status \in {"idle", "dispatching", "running"}
  BY <1>1 DEF IInv, Types
<1>3. CASE Owns(t)
  <2>1. status' = "idle"
    BY <1>3 DEF QueryEnd, Unreserved
  <2>. QED  BY <1>1, <1>2, <1>3, <2>1, SettleLemma
<1>4. CASE ~Owns(t)
  <2>1. status' = status \/ (status' = "idle" /\ status # "running")
    BY <1>2, <1>4 DEF QueryEnd, Unreserved
  <2>. QED  BY <1>1, <1>2, <1>4, <2>1, SettleLemma
<1>. QED  BY <1>3, <1>4

LEMMA ForcedLemma == ASSUME IInv, Cancel \/ Timeout PROVE IInv'
PROOF
<1>1. CASE Cancel
  <2>1. ForceEnd /\ turn' = [turn EXCEPT ![controller].aborted = TRUE]
    BY <1>1 DEF Cancel
  <2>. QED  BY <2>1, AbortCurrentLemma, ForceLemma DEF IInv
<1>2. CASE Timeout
  BY <1>2, ForceLemma DEF Timeout, IInv, Types, Turns
<1>. QED  BY <1>1, <1>2

-----------------------------------------------------------------------------
\* The invariant is inductive.
THEOREM Inductive == Spec => []IInv
PROOF
<1>1. Init => IInv
  <2>. SUFFICES ASSUME Init PROVE IInv
    OBVIOUS
  <2>1. Turns = {} /\ turn \in Seq(TurnOver({}))
    BY DEF Init, Turns
  <2>. QED  BY <2>1 DEF Init, IInv, Types, Generations, GuardIsOwned
<1>2. IInv /\ [Next]_vars => IInv'
  <2>. SUFFICES ASSUME IInv, [Next]_vars PROVE IInv'
    OBVIOUS
  <2>1. CASE UNCHANGED vars \/ Pop \/ OpenDialog \/ CloseDialog
    <3>1. UNCHANGED guard /\ turn' = turn
      BY <2>1 DEF vars, Pop, OpenDialog, CloseDialog
    <3>. QED  BY <3>1, QuietLemma DEF IInv, Types, Turns
  <2>2. ASSUME NEW k \in Kinds, Arrives(k)  PROVE IInv'
    BY <2>2, ArrivesLemma
  <2>3. CASE Effect
    BY <2>3, EffectLemma
  <2>4. ASSUME NEW t \in Turns, InputDone(t) \/ DrainStart(t) \/ DrainEnd(t) \/ QueryEnd(t)
        PROVE  IInv'
    BY <2>4, InputDoneLemma, DrainLemma, QueryEndLemma
  <2>5. CASE Cancel \/ Timeout
    BY <2>5, ForcedLemma
  <2>. QED  BY <2>1, <2>2, <2>3, <2>4, <2>5 DEF Next
<1>. QED  BY <1>1, <1>2, PTL DEF Spec

\* The guard is never stuck: whatever is cancelled, timed out, put back or thrown, it
\* is reserved for an input that is being processed or runs for a query that will
\* release it, and a query keeps it until then (QueryGuard.ts, generations).
THEOREM GuardOwned == Spec => []GuardIsOwned
PROOF
<1>1. IInv => GuardIsOwned
  BY DEF IInv
<1>. QED  BY <1>1, Inductive, PTL

-----------------------------------------------------------------------------
\* One turn at a time, until the guard is first ended by force.

Over(t) == turn[t].pc = "done"

\* A turn that is not over keeps the guard from being idle, and another from starting.
OneTurn ==
  /\ forced \in Nat
  /\ forced = 0 => /\ \A t, u \in Turns : ~Over(t) /\ ~Over(u) => t = u
                   /\ status = "idle" => \A t \in Turns : Over(t)

LEMMA SameTurnsLemma ==
  ASSUME OneTurn, UNCHANGED <<status, forced>>, Turns' = Turns,
         \A u \in Turns : (turn'[u].pc = "done") <=> (turn[u].pc = "done")
  PROVE  OneTurn'
PROOF
  BY DEF OneTurn, Over

\* A turn begins when the guard is idle, that is when all others are over.
LEMMA BeginsLemma ==
  ASSUME IInv, OneTurn, ~Active, status' # "idle", forced' = forced,
         NEW entries, NEW pc \in PC, NEW gen \in Nat, turn' = Begun(entries, pc, gen)
  PROVE  OneTurn'
PROOF
<1>1. \A u \in Turns' : u = Len(turn) + 1 \/ (u \in Turns /\ turn'[u] = turn[u])
  BY BegunLemma DEF IInv
<1>. QED  BY <1>1 DEF OneTurn, Over, Active

\* A turn that is the only one can only leave the guard idle, and all turns over.
LEMMA EndsLemma ==
  ASSUME IInv, OneTurn, NEW t \in Turns, ~Over(t), turn' = Done(t), forced' = forced
  PROVE  OneTurn'
PROOF
<1>1. Turns' = Turns /\ (\A u \in Turns \ {t} : turn'[u] = turn[u]) /\ turn'[t].pc = "done"
  BY DoneLemma DEF IInv
<1>2. forced = 0 => \A u \in Turns : turn'[u].pc = "done"
  BY <1>1 DEF OneTurn, Over
<1>. QED  BY <1>1, <1>2 DEF OneTurn, Over

LEMMA OneTurnLemma == ASSUME IInv, OneTurn, [Next]_vars PROVE OneTurn'
PROOF
<1>1. CASE UNCHANGED vars \/ Pop \/ OpenDialog \/ CloseDialog
  <2>1. UNCHANGED <<status, forced>> /\ turn' = turn
    BY <1>1 DEF vars, guard, Pop, OpenDialog, CloseDialog
  <2>. QED  BY <2>1, SameTurnsLemma DEF Turns
<1>2. ASSUME NEW entries, ~Active, StartTurn(entries), forced' = forced  PROVE OneTurn'
  BY <1>2, BeginsLemma DEF StartTurn, Active, Reserved, PC
<1>3. ASSUME NEW k \in Kinds, Arrives(k)  PROVE OneTurn'
  <2>1. CASE Submit(k) /\ Active
    <3>1. UNCHANGED <<status, forced>>
          /\ (turn' = turn \/ turn' = [turn EXCEPT ![controller].aborted = TRUE])
      BY <2>1 DEF Submit, guard
    <3>2. Turns' = Turns /\ \A u \in Turns : turn'[u].pc = turn[u].pc
      BY <3>1, AbortCurrentLemma DEF IInv, Turns
    <3>. QED  BY <3>1, <3>2, SameTurnsLemma
  <2>2. CASE Submit(k) /\ ~Active
    <3>1. forced' = forced /\ \E entries : StartTurn(entries)
      BY <2>2 DEF Submit
    <3>. QED  BY <2>2, <3>1, <1>2
  <2>3. CASE Notify(k)
    BY <2>3, SameTurnsLemma DEF Notify, guard, Turns
  <2>4. CASE Incoming
    <3>1. ~Active /\ status' # "idle" /\ forced' = forced
          /\ turn' = Begun(<<>>, "query", generation + 1) /\ generation + 1 \in Nat
      BY <2>4 DEF Incoming, IInv, Types
    <3>. QED  BY <3>1, BeginsLemma DEF PC
  <2>. QED  BY <1>3, <2>1, <2>2, <2>3, <2>4 DEF Arrives
<1>4. CASE Effect
  <2>1. CASE UNCHANGED <<guard, turn>>
    BY <1>4, <2>1, SameTurnsLemma DEF Effect, guard, Turns
  <2>2. CASE ~Active /\ StartTurn(ToProcess)
    BY <1>4, <2>2, <1>2 DEF Effect
  <2>. QED  BY <1>4, <2>1, <2>2 DEF Effect
<1>5. ASSUME NEW t \in Turns, InputDone(t)  PROVE OneTurn'
  <2>1. ~Over(t)
    BY <1>5 DEF InputDone, Over
  <2>2. CASE PutBack(t) \/ RunLocally(t) \/ RunSilently(t) \/ Throw(t)
    BY <2>1, <2>2, EndsLemma DEF PutBack, RunLocally, RunSilently, Throw
  <2>3. CASE BeginQuery(t)
    <3>1. /\ turn' = [turn EXCEPT ![t].pc = "query", ![t].gen = generation + 1, ![t].cmds = <<>>]
          /\ status' = "running" /\ forced' = forced /\ generation + 1 \in Nat
      BY <2>3 DEF BeginQuery, IInv, Types
    <3>2. Turns' = Turns /\ turn'[t].pc = "query" /\ \A u \in Turns \ {t} : turn'[u] = turn[u]
      BY <3>1, QueryLemma DEF IInv
    <3>. QED  BY <2>1, <3>1, <3>2, ZenonT(40) DEF OneTurn, Over
  <2>. QED  BY <1>5, <2>2, <2>3 DEF InputDone
<1>6. ASSUME NEW t \in Turns, DrainStart(t)  PROVE OneTurn'
  <2>1. PICK s : turn' = [turn EXCEPT ![t].pc = "drain", ![t].snapshot = s]
    BY <1>6 DEF DrainStart
  <2>2. turn[t].pc = "query" /\ UNCHANGED <<status, forced>>
    BY <1>6 DEF DrainStart, guard
  <2>3. Turns' = Turns /\ turn'[t].pc = "drain" /\ \A u \in Turns \ {t} : turn'[u] = turn[u]
    BY <2>1, DrainStartLemma DEF IInv
  <2>. QED  BY <2>2, <2>3, SameTurnsLemma
<1>7. ASSUME NEW t \in Turns, DrainEnd(t)  PROVE OneTurn'
  <2>1. turn' = [turn EXCEPT ![t].pc = "query", ![t].snapshot = <<>>]
        /\ turn[t].pc = "drain" /\ UNCHANGED <<status, forced>>
    BY <1>7 DEF DrainEnd, guard
  <2>2. Turns' = Turns /\ turn'[t].pc = "query" /\ \A u \in Turns \ {t} : turn'[u] = turn[u]
    BY <2>1, DrainEndLemma DEF IInv
  <2>. QED  BY <2>1, <2>2, SameTurnsLemma
<1>8. ASSUME NEW t \in Turns, QueryEnd(t)  PROVE OneTurn'
  <2>1. ~Over(t) /\ turn' = Done(t) /\ forced' = forced
    BY <1>8 DEF QueryEnd, Over
  <2>. QED  BY <2>1, EndsLemma
<1>9. CASE Cancel \/ Timeout
  BY <1>9 DEF Cancel, Timeout, OneTurn
<1>. QED  BY <1>1, <1>3, <1>4, <1>5, <1>6, <1>7, <1>8, <1>9 DEF Next

\* Until the guard is first ended by force, there is one turn at a time, for any
\* number of commands, whatever is queued, drained or submitted while its input is
\* processed (handlePromptSubmit.ts, reserve before the first await).
THEOREM OneAtATime == Spec => []NoReentry
PROOF
<1>1. Init => OneTurn
  BY DEF Init, OneTurn, Turns
<1>2. IInv /\ OneTurn /\ [Next]_vars => OneTurn'
  BY OneTurnLemma
<1>3. OneTurn => NoReentry
  <2>. SUFFICES ASSUME OneTurn, forced = 0
                PROVE  Cardinality({t \in Turns : turn[t].pc # "done"}) <= 1
    BY DEF NoReentry
  <2>. DEFINE Going == {t \in Turns : turn[t].pc # "done"}
  <2>1. CASE Going = {}
    BY <2>1, FS_EmptySet
  <2>2. ASSUME NEW t \in Going  PROVE Cardinality(Going) <= 1
    <3>1. Going = {t}
      BY <2>2 DEF OneTurn, Over
    <3>2. Cardinality({t}) = 1
      BY FS_Singleton
    <3>. HIDE DEF Going
    <3>. QED  BY <3>1, <3>2
  <2>. QED  BY <2>1, <2>2
<1>. QED  BY <1>1, <1>2, <1>3, Inductive, PTL DEF Spec

-----------------------------------------------------------------------------
\* What is taken from the queue and put into it.
LEMMA InSetLemma ==
  ASSUME NEW S, NEW s \in Seq(S)
  PROVE  ToSet(s) \subseteq S /\ (s = <<>> \/ Head(s) \in ToSet(s)) /\ (ToSet(s) = {} <=> s = <<>>)
PROOF
<1>1. DOMAIN s = 1..Len(s) /\ ToSet(s) \subseteq S
  BY DEF ToSet
<1>2. CASE s = <<>>
  BY <1>1, <1>2 DEF ToSet
<1>3. CASE s # <<>>
  <2>1. 1 \in DOMAIN s /\ Head(s) = s[1]
    BY <1>3
  <2>. QED  BY <1>1, <1>3, <2>1 DEF ToSet
<1>. QED  BY <1>2, <1>3

LEMMA WithoutLemma ==
  ASSUME queue \in Seq(Entry), NEW entries
  PROVE  /\ Without(entries) \in Seq(Entry)
         /\ ToSet(Without(entries)) = ToSet(queue) \ ToSet(entries)
PROOF
<1>1. \A n \in 0..Len(queue) :
        n # 0 => (queue[n] \notin ToSet(entries) <=> queue[n] \in Entry \ ToSet(entries))
  OBVIOUS
<1>2. Without(entries) = Keep(queue, Entry \ ToSet(entries))
  BY <1>1 DEF Without, Filter, Keep
<1>. QED  BY <1>2, KeepSet, InSetLemma

LEMMA PeekLemma ==
  ASSUME queue \in Seq(Entry)
  PROVE  Peek \in Seq(Entry) /\ ToSet(Peek) \subseteq ToSet(queue)
PROOF
<1>. DEFINE main == Filter(queue, MainThread)
            next == Filter(main, LAMBDA e : ~Later(e))
<1>1. main \in Seq(Entry) /\ ToSet(main) \subseteq ToSet(queue)
  <2>1. \A n \in 0..Len(queue) :
          n # 0 => (MainThread(queue[n]) <=> queue[n] \in {e \in Entry : MainThread(e)})
    OBVIOUS
  <2>2. main = Keep(queue, {e \in Entry : MainThread(e)})
    BY <2>1 DEF Filter, Keep
  <2>. QED  BY <2>2, KeepSet
<1>. HIDE DEF main
<1>2. next \in Seq(Entry) /\ ToSet(next) \subseteq ToSet(main)
  <2>1. \A n \in 0..Len(main) :
          n # 0 => (~Later(main[n]) <=> main[n] \in {e \in Entry : ~Later(e)})
    BY <1>1
  <2>2. next = Keep(main, {e \in Entry : ~Later(e)})
    BY <2>1 DEF Filter, Keep
  <2>. HIDE DEF next
  <2>. QED  BY <1>1, <2>2, KeepSet
<1>3. Peek = IF next = <<>> THEN main ELSE next
  BY DEF Peek, Foremost, main
<1>. HIDE DEF next
<1>. QED  BY <1>1, <1>2, <1>3

LEMMA ToProcessLemma ==
  ASSUME queue \in Seq(Entry)
  PROVE  ToProcess \in Seq(Entry) /\ ToSet(ToProcess) \subseteq ToSet(queue)
PROOF
<1>. DEFINE next == Head(Peek)
            P(e) == MainThread(e) /\ ~IsSlashCommand(e) /\ Mode(e) = Mode(next)
            batch == Filter(queue, P)
<1>1. CASE Peek = <<>>
  BY <1>1 DEF ToProcess, ToSet
<1>2. CASE Peek # <<>>
  <2>1. next \in ToSet(queue) /\ next \in Entry
    BY <1>2, PeekLemma, InSetLemma
  <2>2. batch \in Seq(Entry) /\ ToSet(batch) \subseteq ToSet(queue)
    <3>1. \A n \in 0..Len(queue) : n # 0 => (P(queue[n]) <=> queue[n] \in {e \in Entry : P(e)})
      OBVIOUS
    <3>2. batch = Keep(queue, {e \in Entry : P(e)})
      BY <3>1 DEF Filter, Keep
    <3>. HIDE DEF batch, P
    <3>. QED  BY <3>2, KeepSet
  <2>3. ToProcess = IF IsSlashCommand(next) \/ Mode(next) = "bash" THEN <<next>> ELSE batch
    BY <1>2 DEF ToProcess
  <2>4. <<next>> \in Seq(Entry) /\ ToSet(<<next>>) = {next}
    BY <2>1 DEF ToSet
  <2>. HIDE DEF batch, next
  <2>. QED  BY <2>1, <2>2, <2>3, <2>4
<1>. QED  BY <1>1, <1>2

LEMMA QueuedLemma ==
  ASSUME queue \in Seq(Entry), NEW cmds \in Seq(Commands), NEW by \in Nat
  PROVE  /\ Queued(cmds, by) \in Seq(Entry)
         /\ ToSet(Queued(cmds, by)) = ToSet(queue) \cup {[cmd |-> c, by |-> by] : c \in ToSet(cmds)}
PROOF
<1>. DEFINE new == [i \in DOMAIN cmds |-> [cmd |-> cmds[i], by |-> by]]
<1>0. DOMAIN cmds = 1..Len(cmds) /\ DOMAIN queue = 1..Len(queue)
      /\ Len(cmds) \in Nat /\ Len(queue) \in Nat
  OBVIOUS
<1>1. new \in Seq(Entry) /\ Len(new) = Len(cmds) /\ \A i \in 1..Len(cmds) : new[i] = [cmd |-> cmds[i], by |-> by]
  BY <1>0 DEF Entry
<1>2. ToSet(new) = {[cmd |-> c, by |-> by] : c \in ToSet(cmds)}
  BY <1>0 DEF ToSet
<1>. HIDE DEF new
<1>3. queue \o new \in Seq(Entry) /\ ToSet(queue \o new) = ToSet(queue) \cup ToSet(new)
  <2>. DEFINE q == queue \o new
  <2>1. q \in Seq(Entry) /\ DOMAIN q = 1..(Len(queue) + Len(new))
    BY <1>1
  <2>2. /\ \A i \in 1..Len(queue) : q[i] = queue[i]
        /\ \A i \in 1..Len(new) : q[i + Len(queue)] = new[i]
    BY <1>1
  <2>. HIDE DEF q
  <2>3. \A i \in 1..(Len(queue) + Len(new)) :
          i \in 1..Len(queue) \/ (i - Len(queue) \in 1..Len(new) /\ i = (i - Len(queue)) + Len(queue))
    BY <1>0, <1>1
  <2>4. DOMAIN new = 1..Len(new)
    BY <1>1
  <2>5. ToSet(q) \subseteq ToSet(queue) \cup ToSet(new)
    <3>. SUFFICES ASSUME NEW i \in 1..(Len(queue) + Len(new))
                  PROVE  q[i] \in ToSet(queue) \cup ToSet(new)
      BY <2>1 DEF ToSet
    <3>1. CASE i \in 1..Len(queue)
      BY <1>0, <2>2, <3>1 DEF ToSet
    <3>2. CASE i - Len(queue) \in 1..Len(new)
      <4>1. q[i] = new[i - Len(queue)]
        BY <2>2, <2>3, <3>2
      <4>. QED  BY <2>4, <3>2, <4>1 DEF ToSet
    <3>. QED  BY <2>3, <3>1, <3>2
  <2>6. \A i \in 1..Len(new) : i + Len(queue) \in DOMAIN q
    BY <1>0, <1>1, <2>1
  <2>7. ToSet(queue) \cup ToSet(new) \subseteq ToSet(q)
    <3>1. 1..Len(queue) \subseteq DOMAIN q
      BY <1>0, <1>1, <2>1
    <3>. QED  BY <1>0, <2>2, <2>4, <2>6, <3>1 DEF ToSet
  <2>. QED  BY <2>1, <2>5, <2>7 DEF q
<1>4. Queued(cmds, by) = queue \o new
  BY DEF Queued, new
<1>. QED  BY <1>2, <1>3, <1>4

\* Commands are delivered: each of them once more.
LEMMA DeliversLemma ==
  ASSUME NEW cs, Delivers(cs), delivered \in [Commands -> Nat]
  PROVE  /\ delivered' \in [Commands -> Nat]
         /\ \A c \in Commands : delivered'[c] = IF c \in cs THEN delivered[c] + 1 ELSE delivered[c]
PROOF
  BY DEF Delivers

-----------------------------------------------------------------------------
\* No command is lost, and none is delivered twice.

\* What a turn carries are commands that have arrived; only input that is processed
\* carries commands, and only a drain a snapshot.
Cargo(t) ==
  /\ turn[t].cmds \in Seq(Entry) /\ turn[t].snapshot \in Seq(Entry)
  /\ Of(turn[t].cmds) \cup Of(turn[t].snapshot) \subseteq Arrived
  /\ turn[t].pc # "input" => turn[t].cmds = <<>>
  /\ turn[t].pc = "drain" <=> turn[t].snapshot # <<>>
  /\ turn[t].gen <= generation

KindType == kind \in Seq(Kinds) /\ Len(kind) <= MaxCommands

Stock ==
  /\ queue \in Seq(Entry) /\ Of(queue) \subseteq Arrived
  /\ \A t \in Turns : Cargo(t)
  /\ delivered \in [Commands -> Nat] /\ settled \subseteq Arrived

Rest == controller \in {0} \cup Turns /\ dialog \in BOOLEAN /\ due \in BOOLEAN /\ forced \in 0..MaxForced

Accounted(c) ==
  \/ kind[c] = "tick" \/ delivered[c] > 0 \/ c \in settled \cup Of(queue)
  \/ \E t \in Turns : turn[t].pc = "input" /\ c \in Of(turn[t].cmds)

NoneLost == \A c \in Arrived : Accounted(c)

\* Before the first forced end a command has one place: it is new, or in the queue
\* (and perhaps in the snapshot of the drain), or in the turn that processes it, or
\* delivered.  Nothing is put back, so its entry is the one it came with.
Once ==
  /\ \A c \in Commands \ Arrived : delivered[c] = 0
  /\ forced = 0 =>
       /\ \A c \in Commands : delivered[c] <= 1
       /\ \A e \in ToSet(queue) : e.by = 0 /\ delivered[e.cmd] = 0
       /\ \A t \in Turns :
            /\ \A e \in ToSet(turn[t].snapshot) : e.by = 0 /\ delivered[e.cmd] = 0
            /\ \A e \in ToSet(turn[t].cmds) : delivered[e.cmd] = 0 /\ e.cmd \notin Of(queue)

Goods == Stock /\ NoneLost /\ Once
AllInv == IInv /\ OneTurn /\ KindType /\ Rest /\ Goods

\* Commands only arrive.
Grows ==
  /\ KindType' /\ Arrived \subseteq Arrived' /\ Arrived' \subseteq Commands
  /\ \A c \in Arrived : kind'[c] = kind[c]

LEMMA FreshLemma ==
  ASSUME KindType, NEW k \in Kinds, Len(kind) < MaxCommands, kind' = Append(kind, k)
  PROVE  /\ Grows /\ Arrived' = Arrived \cup {Len(kind) + 1}
         /\ Len(kind) + 1 \in Commands \ Arrived
PROOF
<1>1. MaxCommands \in Nat /\ Len(kind) \in Nat /\ Arrived = 1..Len(kind)
  BY TurnConstants DEF KindType, Arrived
<1>2. kind' \in Seq(Kinds) /\ Len(kind') = Len(kind) + 1 /\ Arrived' = 1..(Len(kind) + 1)
      /\ \A c \in 1..Len(kind) : kind'[c] = kind[c]
  BY DEF KindType, Arrived
<1>. QED  BY <1>1, <1>2 DEF KindType, Commands, Grows

LEMMA SameKindLemma == ASSUME KindType, kind' = kind PROVE Grows /\ Arrived' = Arrived
PROOF
<1>1. MaxCommands \in Nat /\ Len(kind) \in Nat /\ Arrived = 1..Len(kind)
  BY TurnConstants DEF KindType, Arrived
<1>. QED  BY <1>1 DEF KindType, Commands, Grows, Arrived

\* Nothing moves.
LEMMA CalmLemma ==
  ASSUME AllInv, Grows, Arrived' = Arrived, UNCHANGED <<queue, history>>, generation' \in Nat,
         generation <= generation', Turns' = Turns,
         \A u \in Turns : Holds(u) /\ turn'[u].pc = turn[u].pc /\ turn'[u].gen = turn[u].gen,
         forced \in Nat, forced' = forced \/ forced' = forced + 1
  PROVE  Goods'
PROOF
<1>1. \A u \in Turns : Cargo(u)'
  <2>. SUFFICES ASSUME NEW u \in Turns PROVE Cargo(u)'
    OBVIOUS
  <2>1. turn[u].gen \in Nat /\ generation \in Nat
    BY GenLemma DEF AllInv, IInv, Types
  <2>. QED  BY <2>1, SMTT(20) DEF AllInv, Goods, Stock, Cargo, Holds
<1>2. Stock'
  BY <1>1 DEF AllInv, Goods, Stock, history, Of
<1>3. NoneLost'
  BY DEF AllInv, Goods, NoneLost, Accounted, Grows, Holds, history, Of
<1>4. Once'
  BY DEF AllInv, Goods, Once, Holds, history, Of
<1>. QED  BY <1>2, <1>3, <1>4 DEF Goods

LEMMA OfLemma ==
  ASSUME NEW s, NEW r, NEW e, ToSet(r) = ToSet(s) \cup {e}
  PROVE  Of(r) = Of(s) \cup {e.cmd}
PROOF
  BY Zenon DEF Of

\* A command arrives and is queued.
LEMMA EnqueueLemma ==
  ASSUME AllInv, NEW k \in Kinds, Len(kind) < MaxCommands, kind' = Append(kind, k),
         queue' = Queued(<<Len(kind) + 1>>, 0), UNCHANGED <<guard, history, forced>>, Turns' = Turns,
         \A u \in Turns : Holds(u) /\ turn'[u].pc = turn[u].pc /\ turn'[u].gen = turn[u].gen
  PROVE  Goods'
PROOF
<1>. DEFINE c == Len(kind) + 1
<1>1. Grows /\ Arrived' = Arrived \cup {c} /\ c \in Commands \ Arrived
  BY FreshLemma DEF AllInv
<1>2. /\ queue' \in Seq(Entry)
      /\ ToSet(queue') = ToSet(queue) \cup {[cmd |-> c, by |-> 0]}
  <2>1. <<c>> \in Seq(Commands) /\ ToSet(<<c>>) = {c} /\ 0 \in Nat
    BY <1>1 DEF ToSet
  <2>. HIDE DEF c
  <2>2. {[cmd |-> d, by |-> 0] : d \in {c}} = {[cmd |-> c, by |-> 0]}
    OBVIOUS
  <2>3. queue \in Seq(Entry) /\ queue' = Queued(<<c>>, 0)
    BY DEF AllInv, Goods, Stock, c
  <2>. QED  BY <2>1, <2>2, <2>3, QueuedLemma
<1>. HIDE DEF c
<1>3. Of(queue') = Of(queue) \cup {c}
  <2>. DEFINE e == [cmd |-> c, by |-> 0]
  <2>1. e.cmd = c /\ ToSet(queue') = ToSet(queue) \cup {e}
    BY <1>2
  <2>. HIDE DEF e
  <2>. QED  BY <2>1, OfLemma
<1>4. \A u \in Turns : Cargo(u)'
  BY <1>1 DEF AllInv, Goods, Stock, Cargo, Holds, Grows, guard
<1>5. Stock'
  BY <1>1, <1>2, <1>3, <1>4 DEF AllInv, Goods, Stock, history, Of
<1>6. NoneLost'
  BY <1>1, <1>3, ZenonT(40) DEF AllInv, Goods, NoneLost, Accounted, Grows, Holds, history, Of
<1>7. Once'
  <2>1. \A u \in Turns : \A e \in ToSet(turn[u].cmds) : e.cmd # c
    BY <1>1 DEF AllInv, Goods, Stock, Cargo, Of
  <2>2. delivered' = delivered /\ forced' = forced /\ delivered[c] = 0
    BY <1>1 DEF history, AllInv, Goods, Once
  <2>. QED  BY <1>1, <1>2, <1>3, <2>1, <2>2, SMTT(20) DEF AllInv, Goods, Once, Holds, Of
<1>. QED  BY <1>5, <1>6, <1>7 DEF Goods

\* A turn begins, with entries that it takes from the queue or that are new.
LEMMA BeginStockLemma ==
  ASSUME AllInv, Grows, NEW entries \in Seq(Entry), Of(entries) \subseteq Arrived',
         NEW pc \in {"input", "query"}, NEW gen \in Nat, turn' = Begun(entries, pc, gen),
         pc = "input" \/ entries = <<>>, generation' \in Nat, gen <= generation',
         generation <= generation',
         queue' \in Seq(Entry), Of(queue') \subseteq Arrived',
         delivered' \in [Commands -> Nat], settled' = settled
  PROVE  Stock'
PROOF
<1>1. /\ \A u \in Turns' : u = Len(turn) + 1 \/ (u \in Turns /\ turn'[u] = turn[u])
      /\ turn'[Len(turn) + 1].pc = pc /\ turn'[Len(turn) + 1].gen = gen
      /\ turn'[Len(turn) + 1].cmds = entries /\ turn'[Len(turn) + 1].snapshot = <<>>
  BY BegunLemma DEF AllInv, IInv, PC
<1>2. \A u \in Turns' : Cargo(u)'
  <2>. SUFFICES ASSUME NEW u \in Turns' PROVE Cargo(u)'
    OBVIOUS
  <2>1. CASE u = Len(turn) + 1
    <3>1. <<>> \in Seq(Entry) /\ Of(<<>>) = {}
      BY DEF Of, ToSet
    <3>. QED  BY <1>1, <2>1, <3>1 DEF Cargo
  <2>2. CASE u # Len(turn) + 1
    <3>1. u \in Turns /\ turn'[u] = turn[u] /\ Cargo(u)
      BY <1>1, <2>2 DEF AllInv, Goods, Stock
    <3>2. turn[u].gen \in Nat /\ generation \in Nat
      BY <3>1, GenLemma DEF AllInv, IInv, Types
    <3>. QED  BY <3>1, <3>2 DEF Cargo, Grows
  <2>. QED  BY <2>1, <2>2
<1>. QED  BY <1>2 DEF AllInv, Goods, Stock, Grows

\* A command arrives and has a turn of its own.
LEMMA SubmitLemma ==
  ASSUME AllInv, NEW k \in Kinds, Len(kind) < MaxCommands, ~Active, Submit(k)
  PROVE  Goods'
PROOF
<1>. DEFINE c == Len(kind) + 1
            e == [cmd |-> c, by |-> 0]
<1>1. /\ kind' = Append(kind, k) /\ turn' = Begun(<<e>>, "input", 0)
      /\ generation' = generation /\ UNCHANGED <<queue, history, forced>>
  BY DEF Submit, StartTurn
<1>2. Grows /\ Arrived' = Arrived \cup {c} /\ c \in Commands \ Arrived
  BY <1>1, FreshLemma DEF AllInv
<1>3. <<e>> \in Seq(Entry) /\ ToSet(<<e>>) = {e} /\ Of(<<e>>) = {c}
  <2>1. e \in Entry /\ e.cmd = c
    BY <1>2 DEF Entry
  <2>. HIDE DEF e
  <2>2. <<e>> \in Seq(Entry) /\ ToSet(<<e>>) = {e}
    BY <2>1 DEF ToSet
  <2>. QED  BY <2>1, <2>2 DEF Of
<1>4. e.by = 0 /\ e.cmd = c
  OBVIOUS
<1>. HIDE DEF c, e
<1>5. Stock'
  <2>1. generation' \in Nat /\ 0 <= generation' /\ generation <= generation' /\ 0 \in Nat
    BY <1>1 DEF AllInv, IInv, Types
  <2>2. /\ queue' \in Seq(Entry) /\ Of(queue') \subseteq Arrived'
        /\ delivered' \in [Commands -> Nat] /\ settled' = settled /\ Of(<<e>>) \subseteq Arrived'
    BY <1>1, <1>2, <1>3 DEF AllInv, Goods, Stock, history
  <2>. QED  BY <1>1, <1>2, <1>3, <2>1, <2>2, BeginStockLemma
<1>6. /\ Len(turn) + 1 \in Turns' /\ Turns \subseteq Turns' /\ Len(turn) + 1 \notin Turns
      /\ \A u \in Turns' : u = Len(turn) + 1 \/ (u \in Turns /\ turn'[u] = turn[u])
      /\ turn'[Len(turn) + 1].pc = "input"
      /\ turn'[Len(turn) + 1].cmds = <<e>> /\ turn'[Len(turn) + 1].snapshot = <<>>
  BY <1>1, BegunLemma DEF AllInv, IInv, PC
<1>7. \A u \in Turns : turn'[u] = turn[u]
  BY <1>6
<1>8. NoneLost'
  BY <1>1, <1>2, <1>3, <1>6, <1>7 DEF AllInv, Goods, NoneLost, Accounted, Grows, history
<1>9. Once'
  <2>1. delivered' = delivered /\ forced' = forced /\ delivered[c] = 0 /\ c \notin Of(queue)
        /\ queue' = queue
    BY <1>1, <1>2 DEF history, AllInv, Goods, Once, Stock
  <2>2. ToSet(<<>>) = {}
    BY DEF ToSet
  <2>. QED  BY <1>2, <1>3, <1>4, <1>6, <2>1, <2>2 DEF AllInv, Goods, Once
<1>. QED  BY <1>5, <1>8, <1>9 DEF Goods

\* The effect takes what it processes out of the queue.
LEMMA ServeLemma ==
  ASSUME AllInv, ~Active, StartTurn(ToProcess), queue' = Without(ToProcess),
         UNCHANGED <<kind, history, forced>>
  PROVE  Goods'
PROOF
<1>. DEFINE p == ToProcess
<1>1. turn' = Begun(p, "input", 0) /\ generation' = generation /\ UNCHANGED <<delivered, settled>>
  BY DEF StartTurn, history
<1>2. Grows /\ Arrived' = Arrived
  BY SameKindLemma DEF AllInv
<1>3. /\ p \in Seq(Entry) /\ ToSet(p) \subseteq ToSet(queue)
      /\ queue' \in Seq(Entry) /\ ToSet(queue') = ToSet(queue) \ ToSet(p)
  BY ToProcessLemma, WithoutLemma DEF AllInv, Goods, Stock
<1>. HIDE DEF p
<1>4. Of(p) \subseteq Of(queue) /\ Of(queue') \subseteq Of(queue)
      /\ Of(queue) \subseteq Of(p) \cup Of(queue')
  BY <1>3 DEF Of
<1>5. Stock'
  <2>1. generation' \in Nat /\ 0 <= generation' /\ generation <= generation' /\ 0 \in Nat
    BY <1>1 DEF AllInv, IInv, Types
  <2>2. /\ Of(queue') \subseteq Arrived' /\ Of(p) \subseteq Arrived'
        /\ delivered' \in [Commands -> Nat] /\ settled' = settled
    BY <1>1, <1>2, <1>4 DEF AllInv, Goods, Stock
  <2>. QED  BY <1>1, <1>2, <1>3, <2>1, <2>2, BeginStockLemma
<1>6. /\ Len(turn) + 1 \in Turns' /\ Turns \subseteq Turns' /\ Len(turn) + 1 \notin Turns
      /\ \A u \in Turns' : u = Len(turn) + 1 \/ (u \in Turns /\ turn'[u] = turn[u])
      /\ turn'[Len(turn) + 1].pc = "input"
      /\ turn'[Len(turn) + 1].cmds = p /\ turn'[Len(turn) + 1].snapshot = <<>>
  BY <1>1, BegunLemma DEF AllInv, IInv, PC
<1>7. \A u \in Turns : turn'[u] = turn[u]
  BY <1>6
<1>8. NoneLost'
  BY <1>1, <1>2, <1>4, <1>6, <1>7 DEF AllInv, Goods, NoneLost, Accounted, Grows
<1>9. Once'
  <2>1. ASSUME forced = 0, NEW e \in ToSet(p) PROVE e.cmd \notin Of(queue')
    <3>1. ASSUME NEW f \in ToSet(queue'), f.cmd = e.cmd PROVE FALSE
      <4>1. e \in Entry /\ f \in Entry /\ e.by = 0 /\ f.by = 0
        BY <1>3, <2>1, InSetLemma DEF AllInv, Goods, Once, Stock
      <4>2. e = f
        BY <3>1, <4>1 DEF Entry
      <4>. QED  BY <1>3, <4>2
    <3>. QED  BY <3>1 DEF Of
  <2>2. ToSet(<<>>) = {}
    BY DEF ToSet
  <2>. QED  BY <1>1, <1>2, <1>3, <1>4, <1>6, <2>1, <2>2 DEF AllInv, Goods, Once
<1>. QED  BY <1>5, <1>8, <1>9 DEF Goods

\* A teammate's message is delivered at once.
LEMMA IncomingLemma ==
  ASSUME AllInv, NEW k \in Kinds, Len(kind) < MaxCommands, k = "mail", Incoming
  PROVE  Goods'
PROOF
<1>. DEFINE c == Len(kind) + 1
<1>1. /\ kind' = Append(kind, k) /\ turn' = Begun(<<>>, "query", generation + 1)
      /\ generation' = generation + 1 /\ UNCHANGED <<queue, settled, forced>> /\ Delivers({c})
  BY DEF Incoming
<1>2. Grows /\ Arrived' = Arrived \cup {c} /\ c \in Commands \ Arrived
  BY <1>1, FreshLemma DEF AllInv
<1>. HIDE DEF c
<1>3. /\ delivered' \in [Commands -> Nat]
      /\ \A d \in Commands : delivered'[d] = IF d \in {c} THEN delivered[d] + 1 ELSE delivered[d]
  BY <1>1, DeliversLemma DEF AllInv, Goods, Stock
<1>4. <<>> \in Seq(Entry) /\ ToSet(<<>>) = {} /\ Of(<<>>) = {}
  BY DEF Of, ToSet
<1>0. generation + 1 \in Nat /\ generation <= generation + 1
  BY DEF AllInv, IInv, Types
<1>5. Stock'
  <2>1. /\ queue' \in Seq(Entry) /\ Of(queue') \subseteq Arrived' /\ settled' = settled
    BY <1>1, <1>2 DEF AllInv, Goods, Stock
  <2>2. generation' \in Nat /\ generation + 1 <= generation' /\ generation <= generation'
        /\ Of(<<>>) \subseteq Arrived'
    BY <1>0, <1>1, <1>4
  <2>. QED  BY <1>0, <1>1, <1>2, <1>3, <1>4, <2>1, <2>2, BeginStockLemma
<1>6. /\ Turns \subseteq Turns' /\ Len(turn) + 1 \notin Turns
      /\ \A u \in Turns' : u = Len(turn) + 1 \/ (u \in Turns /\ turn'[u] = turn[u])
      /\ turn'[Len(turn) + 1].cmds = <<>> /\ turn'[Len(turn) + 1].snapshot = <<>>
  BY <1>0, <1>1, BegunLemma DEF AllInv, IInv, PC
<1>7. /\ \A u \in Turns : turn'[u] = turn[u]
      /\ delivered[c] = 0 /\ delivered'[c] = 1 /\ \A d \in Commands \ {c} : delivered'[d] = delivered[d]
      /\ \A d \in Arrived : delivered'[d] = delivered[d]
  BY <1>2, <1>3, <1>6 DEF AllInv, Goods, Once, Grows
<1>8. NoneLost'
  <2>1. (delivered'[c] > 0)
    BY <1>7
  <2>2. \A d \in Arrived : Accounted(d)'
    BY <1>1, <1>2, <1>6, <1>7, ZenonT(40) DEF AllInv, Goods, NoneLost, Accounted, Grows
  <2>. QED  BY <1>2, <2>1, <2>2 DEF NoneLost, Accounted
<1>9. Once'
  <2>1. \A e \in ToSet(queue) : e.cmd \in Arrived
    BY DEF AllInv, Goods, Stock, Of
  <2>2. \A u \in Turns : /\ \A e \in ToSet(turn[u].cmds) : e.cmd \in Arrived
                         /\ \A e \in ToSet(turn[u].snapshot) : e.cmd \in Arrived
    BY DEF AllInv, Goods, Stock, Of, Cargo
  <2>. QED  BY <1>1, <1>2, <1>4, <1>6, <1>7, <2>1, <2>2 DEF AllInv, Goods, Once
<1>. QED  BY <1>5, <1>8, <1>9 DEF Goods

\* A turn changes.
LEMMA TurnStockLemma ==
  ASSUME AllInv, kind' = kind, NEW t \in Turns, Turns' = Turns,
         \A u \in Turns \ {t} : turn'[u] = turn[u],
         \/ turn'[t].cmds = <<>>
         \/ turn'[t].cmds = turn[t].cmds /\ turn[t].pc # "input",
         turn'[t].snapshot \in Seq(Entry), Of(turn'[t].snapshot) \subseteq Arrived,
         turn'[t].pc = "drain" <=> turn'[t].snapshot # <<>>, turn'[t].gen <= generation',
         generation' \in Nat, generation <= generation',
         queue' \in Seq(Entry), Of(queue') \subseteq Arrived,
         delivered' \in [Commands -> Nat], settled' \subseteq Arrived
  PROVE  Stock'
PROOF
<1>1. Grows /\ Arrived' = Arrived
  BY SameKindLemma DEF AllInv
<1>2. \A u \in Turns' : Cargo(u)'
  <2>. SUFFICES ASSUME NEW u \in Turns PROVE Cargo(u)'
    OBVIOUS
  <2>1. CASE u = t
    <3>1. <<>> \in Seq(Entry) /\ Of(<<>>) = {}
      BY DEF Of, ToSet
    <3>. QED  BY <1>1, <2>1, <3>1 DEF AllInv, Goods, Stock, Cargo
  <2>2. CASE u # t
    <3>1. turn[u].gen \in Nat /\ generation \in Nat
      BY GenLemma DEF AllInv, IInv, Types
    <3>. QED  BY <1>1, <2>2, <3>1, SMTT(20) DEF AllInv, Goods, Stock, Cargo
  <2>. QED  BY <2>1, <2>2
<1>. QED  BY <1>1, <1>2 DEF Stock, Of

\* A turn is done: its snapshot, if it were not empty, it would be draining.
LEMMA DoneStockLemma ==
  ASSUME AllInv, kind' = kind, NEW t \in Turns, turn[t].pc \in {"input", "query"}, turn' = Done(t),
         generation' \in Nat, generation <= generation',
         queue' \in Seq(Entry), Of(queue') \subseteq Arrived,
         delivered' \in [Commands -> Nat], settled' \subseteq Arrived
  PROVE  /\ Stock' /\ Turns' = Turns /\ (\A u \in Turns \ {t} : turn'[u] = turn[u])
         /\ turn'[t].pc = "done" /\ turn'[t].cmds = <<>>
         /\ turn[t].snapshot = <<>> /\ turn'[t].snapshot = <<>>
PROOF
<1>1. /\ Turns' = Turns /\ \A u \in Turns \ {t} : turn'[u] = turn[u]
      /\ turn'[t].pc = "done" /\ turn'[t].gen = 0
      /\ turn'[t].cmds = <<>> /\ turn'[t].snapshot = turn[t].snapshot
  BY DoneLemma DEF AllInv, IInv
<1>2. turn[t].snapshot = <<>> /\ <<>> \in Seq(Entry) /\ Of(<<>>) = {}
  BY DEF AllInv, Goods, Stock, Cargo, Of, ToSet
<1>3. 0 <= generation'
  OBVIOUS
<1>4. Stock'
  BY <1>1, <1>2, <1>3, TurnStockLemma
<1>. QED  BY <1>1, <1>2, <1>4

\* Until the first forced end no other turn goes on, so no other carries anything.
LEMMA AloneLemma ==
  ASSUME AllInv, NEW t \in Turns, turn[t].pc # "done", forced = 0, NEW u \in Turns, u # t
  PROVE  turn[u].pc = "done" /\ turn[u].cmds = <<>> /\ turn[u].snapshot = <<>>
PROOF
<1>1. turn[u].pc = "done"
  BY DEF AllInv, OneTurn, Over
<1>. QED  BY <1>1 DEF AllInv, Goods, Stock, Cargo

\* The commands of a turn are put back; that takes a query of another turn, which
\* there is not before the first forced end.
LEMMA PutBackLemma ==
  ASSUME AllInv, NEW t \in Turns, turn[t].pc = "input", PutBack(t)
  PROVE  Goods'
PROOF
<1>. DEFINE P(e) == KindOf(e) # "tick"
            again == Filter(turn[t].cmds, P)
            back == [i \in DOMAIN again |-> again[i].cmd]
            s == turn[t].cmds
<1>1. /\ status = "running" /\ queue' = Queued(back, t) /\ turn' = Done(t)
      /\ UNCHANGED <<kind, guard, history, forced>>
  BY DEF PutBack
<1>2. Grows /\ Arrived' = Arrived /\ UNCHANGED <<delivered, settled>>
  BY <1>1, SameKindLemma DEF AllInv, history
<1>3. s \in Seq(Entry) /\ Of(s) \subseteq Arrived /\ t \in Nat
  <2>1. t \in Nat
    <3>1. PICK X : turn \in Seq(TurnOver(X))
      BY DEF AllInv, IInv, Types
    <3>. QED  BY <3>1 DEF Turns
  <2>. QED  BY <2>1 DEF AllInv, Goods, Stock, Cargo
<1>4. again \in Seq(Entry) /\ ToSet(again) = {e \in ToSet(s) : P(e)}
  <2>. HIDE DEF s, P
  <2>1. \A n \in 0..Len(s) : n # 0 => (P(s[n]) <=> s[n] \in {e \in Entry : P(e)})
    BY <1>3
  <2>2. Filter(s, P) = Keep(s, {e \in Entry : P(e)})
    BY <2>1 DEF Filter, Keep
  <2>3. Filter(s, P) \in Seq(Entry) /\ ToSet(Filter(s, P)) = ToSet(s) \cap {e \in Entry : P(e)}
    BY <1>3, <2>2, KeepSet
  <2>4. ToSet(s) \subseteq Entry
    BY <1>3, InSetLemma
  <2>. QED  BY <2>3, <2>4 DEF s
<1>. HIDE DEF again, s, P
<1>5. back \in Seq(Commands) /\ ToSet(back) = Of(again)
  <2>1. \A i \in DOMAIN again : again[i].cmd \in Commands
    <3>. SUFFICES ASSUME NEW i \in DOMAIN again PROVE again[i].cmd \in Commands
      OBVIOUS
    <3>1. again[i] \in Entry
      BY <1>4
    <3>. QED  BY <3>1 DEF Entry
  <2>2. back \in Seq(Commands) /\ DOMAIN back = DOMAIN again
    BY <1>4, <2>1
  <2>. QED  BY <2>2 DEF Of, ToSet
<1>. HIDE DEF back
<1>6. /\ queue' \in Seq(Entry)
      /\ ToSet(queue') = ToSet(queue) \cup {[cmd |-> c, by |-> t] : c \in Of(again)}
  BY <1>1, <1>3, <1>5, QueuedLemma DEF AllInv, Goods, Stock
<1>7. Of(queue') = Of(queue) \cup Of(again)
  <2>1. \A c : [cmd |-> c, by |-> t].cmd = c
    OBVIOUS
  <2>2. Of(queue') \subseteq Of(queue) \cup Of(again)
    BY <1>6, <2>1 DEF Of
  <2>3. Of(queue) \subseteq Of(queue')
    BY <1>6 DEF Of
  <2>4. \A c \in Of(again) : \E e \in ToSet(queue') : e.cmd = c
    BY <1>6, <2>1
  <2>5. Of(again) \subseteq Of(queue')
    BY <2>4 DEF Of
  <2>. QED  BY <2>2, <2>3, <2>5
<1>8. Of(again) \subseteq Of(s)
  BY <1>4 DEF Of
<1>9. /\ Stock' /\ Turns' = Turns /\ (\A u \in Turns \ {t} : turn'[u] = turn[u])
      /\ turn'[t].pc = "done" /\ turn'[t].cmds = <<>>
      /\ turn[t].snapshot = <<>> /\ turn'[t].snapshot = <<>>
  <2>1. generation' \in Nat /\ generation <= generation'
    BY <1>1 DEF AllInv, IInv, Types, guard
  <2>2. /\ queue' \in Seq(Entry) /\ Of(queue') \subseteq Arrived
        /\ delivered' \in [Commands -> Nat] /\ settled' \subseteq Arrived
    BY <1>2, <1>3, <1>6, <1>7, <1>8 DEF AllInv, Goods, Stock
  <2>. QED  BY <1>1, <2>1, <2>2, DoneStockLemma
<1>10. NoneLost'
  <2>1. \A c \in Of(s) : kind[c] = "tick" \/ c \in Of(again)
    <3>. SUFFICES ASSUME NEW e \in ToSet(s), kind[e.cmd] # "tick" PROVE e.cmd \in Of(again)
      BY DEF Of
    <3>1. P(e)
      BY DEF P, KindOf
    <3>. QED  BY <1>4, <3>1 DEF Of
  <2>2. \A c \in Arrived : Accounted(c)'
    <3>. SUFFICES ASSUME NEW c \in Arrived PROVE Accounted(c)'
      OBVIOUS
    <3>1. kind'[c] = kind[c] /\ delivered' = delivered /\ settled' = settled /\ Accounted(c)
      BY <1>2 DEF Grows, AllInv, Goods, NoneLost
    <3>2. CASE c \in Of(s)
      BY <1>7, <2>1, <3>1, <3>2 DEF Accounted
    <3>3. CASE c \notin Of(s)
      BY <1>7, <1>9, <3>1, <3>3 DEF Accounted, s
    <3>. QED  BY <3>2, <3>3
  <2>. QED  BY <1>2, <2>2 DEF NoneLost
<1>11. Once'
  <2>1. forced # 0
    <3>1. PICK u \in Turns : turn[u].pc \in {"query", "drain"}
      BY <1>1 DEF AllInv, IInv, GuardIsOwned
    <3>. QED  BY <3>1, AloneLemma
  <2>. QED  BY <1>1, <1>2, <2>1 DEF AllInv, Goods, Once
<1>. QED  BY <1>9, <1>10, <1>11 DEF Goods

\* Commands of the turn are delivered: they are nowhere else.
LEMMA DeliverLemma ==
  ASSUME AllInv, NEW t \in Turns, turn[t].pc \in {"input", "query"}, turn'[t].cmds = <<>>,
         kind' = kind, UNCHANGED <<queue, settled, forced>>, Delivers(Of(turn[t].cmds)),
         Turns' = Turns, \A u \in Turns \ {t} : turn'[u] = turn[u],
         turn'[t].snapshot = <<>>
  PROVE  NoneLost' /\ Once'
PROOF
<1>1. Grows /\ Arrived' = Arrived
  BY SameKindLemma DEF AllInv
<1>. DEFINE cs == Of(turn[t].cmds)
<1>2. \A c \in Commands : delivered'[c] = IF c \in cs THEN delivered[c] + 1 ELSE delivered[c]
  BY DeliversLemma DEF AllInv, Goods, Stock
<1>3. Arrived \subseteq Commands /\ cs \subseteq Arrived /\ \A c \in Commands : delivered[c] \in Nat
  BY <1>1 DEF Grows, AllInv, Goods, Stock, Cargo
<1>4. NoneLost'
  <2>. SUFFICES ASSUME NEW c \in Arrived PROVE Accounted(c)'
    BY <1>1 DEF NoneLost
  <2>1. CASE c \in cs
    BY <1>2, <1>3, <2>1 DEF Accounted
  <2>2. CASE c \notin cs
    BY <1>1, <1>2, <1>3, <2>2 DEF AllInv, Goods, NoneLost, Accounted, Grows
  <2>. QED  BY <2>1, <2>2
<1>5. Once'
  <2>1. \A c \in Commands \ Arrived : delivered'[c] = 0
    BY <1>2, <1>3 DEF AllInv, Goods, Once
  <2>. SUFFICES ASSUME forced = 0
       PROVE /\ \A c \in Commands : delivered'[c] <= 1
             /\ \A e \in ToSet(queue) : e.by = 0 /\ delivered'[e.cmd] = 0
             /\ \A u \in Turns :
                  /\ \A e \in ToSet(turn'[u].snapshot) : e.by = 0 /\ delivered'[e.cmd] = 0
                  /\ \A e \in ToSet(turn'[u].cmds) : delivered'[e.cmd] = 0 /\ e.cmd \notin Of(queue)
    BY <1>1, <2>1 DEF Once
  <2>2. \A c \in cs : delivered[c] = 0 /\ c \notin Of(queue)
    BY DEF AllInv, Goods, Once, Of
  <2>3. \A c \in Commands : delivered'[c] <= 1
    <3>1. \A c \in Commands : delivered[c] <= 1
      BY DEF AllInv, Goods, Once
    <3>. QED  BY <1>2, <1>3, <2>2, <3>1
  <2>4. \A e \in ToSet(queue) : e.by = 0 /\ delivered'[e.cmd] = 0
    <3>. SUFFICES ASSUME NEW e \in ToSet(queue) PROVE e.by = 0 /\ delivered'[e.cmd] = 0
      OBVIOUS
    <3>1. e.cmd \in Of(queue) /\ e.cmd \in Commands /\ e.by = 0 /\ delivered[e.cmd] = 0
      BY <1>3 DEF AllInv, Goods, Stock, Once, Of
    <3>. QED  BY <1>2, <2>2, <3>1
  <2>5. \A u \in Turns : turn'[u].cmds = <<>> /\ turn'[u].snapshot = <<>>
    BY AloneLemma
  <2>6. ToSet(<<>>) = {}
    BY DEF ToSet
  <2>. QED  BY <2>3, <2>4, <2>5, <2>6
<1>. QED  BY <1>4, <1>5

LEMMA InputGoodsLemma ==
  ASSUME AllInv, NEW t \in Turns, InputDone(t)
  PROVE  Goods'
PROOF
<1>1. turn[t].pc = "input" /\ generation \in Nat /\ turn[t].snapshot = <<>>
      /\ Of(turn[t].cmds) \subseteq Arrived /\ queue \in Seq(Entry) /\ Of(queue) \subseteq Arrived
      /\ delivered \in [Commands -> Nat] /\ settled \subseteq Arrived
  BY DEF InputDone, AllInv, IInv, Types, Goods, Stock, Cargo
<1>2. CASE PutBack(t)
  BY <1>1, <1>2, PutBackLemma
<1>3. CASE BeginQuery(t)
  <2>1. /\ turn' = [turn EXCEPT ![t].pc = "query", ![t].gen = generation + 1, ![t].cmds = <<>>]
        /\ generation' = generation + 1 /\ Delivers(Of(turn[t].cmds))
        /\ kind' = kind /\ UNCHANGED <<queue, settled, forced>>
    BY <1>3 DEF BeginQuery
  <2>2. generation + 1 \in Nat /\ generation <= generation + 1
    BY <1>1
  <2>3. /\ Turns' = Turns /\ turn'[t].pc = "query" /\ turn'[t].gen = generation + 1
        /\ turn'[t].cmds = <<>> /\ turn'[t].snapshot = turn[t].snapshot
        /\ \A u \in Turns \ {t} : turn'[u] = turn[u]
    BY <2>1, <2>2, QueryLemma DEF AllInv, IInv
  <2>4. delivered' \in [Commands -> Nat]
    BY <1>1, <2>1, DeliversLemma
  <2>5. Stock'
    <3>1. <<>> \in Seq(Entry) /\ Of(<<>>) = {}
      BY DEF Of, ToSet
    <3>2. generation' \in Nat /\ generation <= generation' /\ turn'[t].gen <= generation'
      BY <2>1, <2>2, <2>3
    <3>. QED  BY <1>1, <2>1, <2>3, <2>4, <3>1, <3>2, TurnStockLemma
  <2>. QED  BY <1>1, <2>1, <2>3, <2>5, DeliverLemma DEF Goods
<1>4. CASE RunLocally(t) \/ RunSilently(t)
  <2>1. /\ turn' = Done(t) /\ Delivers(Of(turn[t].cmds))
        /\ generation' \in {generation, generation + 1}
        /\ kind' = kind /\ UNCHANGED <<queue, settled, forced>>
    BY <1>4 DEF RunLocally, RunSilently
  <2>2. generation' \in Nat /\ generation <= generation'
    BY <1>1, <2>1
  <2>3. delivered' \in [Commands -> Nat]
    BY <1>1, <2>1, DeliversLemma
  <2>4. /\ Stock' /\ Turns' = Turns /\ (\A u \in Turns \ {t} : turn'[u] = turn[u])
        /\ turn'[t].cmds = <<>> /\ turn'[t].snapshot = <<>>
    BY <1>1, <2>1, <2>2, <2>3, DoneStockLemma
  <2>. QED  BY <1>1, <2>1, <2>4, DeliverLemma DEF Goods
<1>5. CASE Throw(t)
  <2>1. /\ turn' = Done(t) /\ settled' = settled \cup Of(turn[t].cmds)
        /\ kind' = kind /\ UNCHANGED <<queue, generation, delivered, forced>>
    BY <1>5 DEF Throw
  <2>2. generation' \in Nat /\ generation <= generation' /\ settled' \subseteq Arrived
    BY <1>1, <2>1
  <2>3. /\ Stock' /\ Turns' = Turns /\ (\A u \in Turns \ {t} : turn'[u] = turn[u])
        /\ turn'[t].cmds = <<>> /\ turn'[t].snapshot = <<>>
    BY <1>1, <2>1, <2>2, DoneStockLemma
  <2>4. Arrived' = Arrived /\ Grows
    BY <2>1, SameKindLemma DEF AllInv
  <2>5. NoneLost'
    <3>. SUFFICES ASSUME NEW c \in Arrived PROVE Accounted(c)'
      BY <2>4 DEF NoneLost
    <3>1. Accounted(c)
      BY DEF AllInv, Goods, NoneLost
    <3>. QED  BY <2>1, <2>3, <3>1 DEF Accounted
  <2>6. Once'
    <3>1. ToSet(<<>>) = {}
      BY DEF ToSet
    <3>. QED  BY <2>1, <2>3, <2>4, <3>1 DEF AllInv, Goods, Once
  <2>. QED  BY <2>3, <2>5, <2>6 DEF Goods
<1>. QED  BY <1>2, <1>3, <1>4, <1>5 DEF InputDone

\* A drain remembers what it will remove: part of the queue.
LEMMA SnapshotLemma ==
  ASSUME AllInv, NEW t \in Turns, DrainStart(t)
  PROVE  \E s \in Seq(Entry) :
           /\ s # <<>> /\ ToSet(s) \subseteq ToSet(queue)
           /\ turn' = [turn EXCEPT ![t].pc = "drain", ![t].snapshot = s]
PROOF
<1>1. PICK sleepRan \in BOOLEAN :
        LET s == Filter(queue, LAMBDA e : /\ MainThread(e) /\ ~IsSlashCommand(e)
                                          /\ Mode(e) # "bash"
                                          /\ sleepRan \/ ~Later(e))
        IN s # <<>> /\ turn' = [turn EXCEPT ![t].pc = "drain", ![t].snapshot = s]
  BY DEF DrainStart
<1>. DEFINE P(e) == /\ MainThread(e) /\ ~IsSlashCommand(e) /\ Mode(e) # "bash"
                    /\ sleepRan \/ ~Later(e)
            s == Filter(queue, P)
<1>2. queue \in Seq(Entry)
  BY DEF AllInv, Goods, Stock
<1>3. s \in Seq(Entry) /\ ToSet(s) \subseteq ToSet(queue)
  <2>1. \A n \in 0..Len(queue) : n # 0 => (P(queue[n]) <=> queue[n] \in {e \in Entry : P(e)})
    BY <1>2
  <2>2. s = Keep(queue, {e \in Entry : P(e)})
    BY <2>1 DEF Filter, Keep
  <2>. HIDE DEF s, P
  <2>. QED  BY <1>2, <2>2, KeepSet
<1>4. s # <<>> /\ turn' = [turn EXCEPT ![t].pc = "drain", ![t].snapshot = s]
  BY <1>1
<1>. HIDE DEF s
<1>. QED  BY <1>3, <1>4

LEMMA DrainGoodsLemma ==
  ASSUME AllInv, NEW t \in Turns, DrainStart(t) \/ DrainEnd(t)
  PROVE  Goods'
PROOF
<1>1. /\ turn[t].cmds = <<>> /\ turn[t].pc \notin {"input", "done"} /\ turn[t].gen <= generation
      /\ turn[t].snapshot \in Seq(Entry) /\ Of(turn[t].snapshot) \subseteq Arrived
      /\ kind' = kind /\ UNCHANGED <<guard, settled, forced>>
  BY DEF DrainStart, DrainEnd, AllInv, Goods, Stock, Cargo, history
<1>2. Grows /\ Arrived' = Arrived
  BY <1>1, SameKindLemma DEF AllInv
<1>3. /\ queue \in Seq(Entry) /\ Of(queue) \subseteq Arrived /\ delivered \in [Commands -> Nat]
      /\ settled' \subseteq Arrived /\ generation' \in Nat /\ generation <= generation'
      /\ generation' = generation
  BY <1>1 DEF AllInv, Goods, Stock, IInv, Types, guard
<1>4. <<>> \in Seq(Entry) /\ Of(<<>>) = {} /\ ToSet(<<>>) = {}
  BY DEF Of, ToSet
<1>5. CASE DrainStart(t)
  <2>1. PICK s \in Seq(Entry) :
          /\ s # <<>> /\ ToSet(s) \subseteq ToSet(queue)
          /\ turn' = [turn EXCEPT ![t].pc = "drain", ![t].snapshot = s]
    BY <1>5, SnapshotLemma
  <2>2. UNCHANGED <<queue, delivered>> /\ turn[t].pc = "query"
    BY <1>5 DEF DrainStart, history
  <2>3. /\ Turns' = Turns /\ turn'[t].pc = "drain" /\ turn'[t].gen = turn[t].gen
        /\ turn'[t].cmds = turn[t].cmds /\ turn'[t].snapshot = s
        /\ \A u \in Turns \ {t} : turn'[u] = turn[u]
    BY <2>1, DrainStartLemma DEF AllInv, IInv
  <2>4. Of(s) \subseteq Of(queue)
    BY <2>1 DEF Of
  <2>5. Stock'
    <3>1. Of(turn'[t].snapshot) \subseteq Arrived /\ turn'[t].gen <= generation'
      BY <1>1, <1>3, <2>3, <2>4
    <3>2. queue' \in Seq(Entry) /\ Of(queue') \subseteq Arrived /\ delivered' \in [Commands -> Nat]
      BY <1>3, <2>2
    <3>. QED  BY <1>1, <1>3, <2>1, <2>3, <3>1, <3>2, TurnStockLemma
  <2>6. NoneLost'
    <3>. SUFFICES ASSUME NEW c \in Arrived PROVE Accounted(c)'
      BY <1>2 DEF NoneLost
    <3>1. Accounted(c)
      BY DEF AllInv, Goods, NoneLost
    <3>. QED  BY <1>1, <2>2, <2>3, <3>1 DEF Accounted
  <2>7. Once'
    BY <1>1, <1>2, <1>4, <2>1, <2>2, <2>3, ZenonT(40) DEF AllInv, Goods, Once
  <2>. QED  BY <2>5, <2>6, <2>7 DEF Goods
<1>6. CASE DrainEnd(t)
  <2>. DEFINE s == turn[t].snapshot
  <2>1. /\ turn' = [turn EXCEPT ![t].pc = "query", ![t].snapshot = <<>>]
        /\ queue' = Without(s) /\ Delivers(Of(s)) /\ turn[t].pc = "drain"
    BY <1>6 DEF DrainEnd
  <2>2. /\ Turns' = Turns /\ turn'[t].pc = "query" /\ turn'[t].gen = turn[t].gen
        /\ turn'[t].cmds = turn[t].cmds /\ turn'[t].snapshot = <<>>
        /\ \A u \in Turns \ {t} : turn'[u] = turn[u]
    BY <2>1, DrainEndLemma DEF AllInv, IInv
  <2>3. queue' \in Seq(Entry) /\ ToSet(queue') = ToSet(queue) \ ToSet(s)
    BY <1>3, <2>1, WithoutLemma
  <2>4. /\ delivered' \in [Commands -> Nat]
        /\ \A c \in Commands : delivered'[c] = IF c \in Of(s) THEN delivered[c] + 1 ELSE delivered[c]
    BY <1>3, <2>1, DeliversLemma
  <2>5. s \in Seq(Entry) /\ Of(s) \subseteq Arrived
    BY <1>1
  <2>. HIDE DEF s
  <2>6. /\ Of(queue') \subseteq Of(queue) /\ Of(queue) \subseteq Of(s) \cup Of(queue')
    BY <2>3 DEF Of
  <2>7. Stock'
    <3>1. Of(queue') \subseteq Arrived /\ turn'[t].gen <= generation'
      BY <1>1, <1>3, <2>2, <2>6
    <3>. QED  BY <1>1, <1>3, <1>4, <2>2, <2>3, <2>4, <3>1, TurnStockLemma
  <2>8. Arrived \subseteq Commands /\ \A c \in Commands : delivered[c] \in Nat
    BY <1>2, <1>3 DEF Grows
  <2>9. NoneLost'
    <3>. SUFFICES ASSUME NEW c \in Arrived PROVE Accounted(c)'
      BY <1>2 DEF NoneLost
    <3>1. Accounted(c)
      BY DEF AllInv, Goods, NoneLost
    <3>2. CASE c \in Of(s)
      BY <2>4, <2>8, <3>2 DEF Accounted
    <3>3. CASE c \notin Of(s)
      BY <1>1, <2>2, <2>4, <2>6, <2>8, <3>1, <3>3 DEF Accounted
    <3>. QED  BY <3>2, <3>3
  <2>10. Once'
    <3>1. \A c \in Commands \ Arrived : delivered'[c] = 0
      BY <2>4, <2>5 DEF AllInv, Goods, Once
    <3>. SUFFICES ASSUME forced = 0
         PROVE /\ \A c \in Commands : delivered'[c] <= 1
               /\ \A e \in ToSet(queue') : e.by = 0 /\ delivered'[e.cmd] = 0
               /\ \A u \in Turns :
                    /\ \A e \in ToSet(turn'[u].snapshot) : e.by = 0 /\ delivered'[e.cmd] = 0
                    /\ \A e \in ToSet(turn'[u].cmds) : delivered'[e.cmd] = 0 /\ e.cmd \notin Of(queue')
      BY <1>1, <1>2, <2>2, <3>1 DEF Once
    <3>2. \A f \in ToSet(s) : f.by = 0 /\ delivered[f.cmd] = 0
      BY DEF AllInv, Goods, Once, s
    <3>3. \A c \in Commands : delivered'[c] <= 1
      <4>1. \A c \in Of(s) : delivered[c] = 0
        BY <3>2 DEF Of
      <4>2. \A c \in Commands : delivered[c] <= 1
        BY DEF AllInv, Goods, Once
      <4>. QED  BY <2>4, <2>8, <4>1, <4>2
    <3>4. \A e \in ToSet(queue') : e.by = 0 /\ delivered'[e.cmd] = 0
      <4>. SUFFICES ASSUME NEW e \in ToSet(queue') PROVE e.by = 0 /\ delivered'[e.cmd] = 0
        OBVIOUS
      <4>1. e \in Entry /\ e.cmd \in Commands /\ e.by = 0 /\ delivered[e.cmd] = 0 /\ e \notin ToSet(s)
        <5>1. e \in ToSet(queue) /\ e \in Entry /\ e \notin ToSet(s)
          BY <2>3, InSetLemma
        <5>. QED  BY <5>1 DEF Entry, AllInv, Goods, Once
      <4>2. ASSUME NEW f \in ToSet(s), f.cmd = e.cmd PROVE FALSE
        <5>1. f \in Entry /\ f.by = e.by
          BY <2>5, <3>2, <4>1, InSetLemma
        <5>2. f = e
          BY <4>1, <4>2, <5>1 DEF Entry
        <5>. QED  BY <4>1, <5>2
      <4>3. e.cmd \notin Of(s)
        BY <4>2 DEF Of
      <4>. QED  BY <2>4, <4>1, <4>3
    <3>5. \A u \in Turns : turn'[u].cmds = <<>> /\ turn'[u].snapshot = <<>>
      BY <1>1, <2>2, AloneLemma
    <3>. QED  BY <1>4, <3>3, <3>4, <3>5
  <2>. QED  BY <2>7, <2>9, <2>10 DEF Goods
<1>. QED  BY <1>5, <1>6

LEMMA EndGoodsLemma ==
  ASSUME AllInv, NEW t \in Turns, QueryEnd(t)
  PROVE  Goods'
PROOF
<1>1. /\ turn[t].pc = "query" /\ turn' = Done(t) /\ kind' = kind
      /\ UNCHANGED <<queue, generation, delivered, settled, forced>>
  BY DEF QueryEnd, history
<1>2. Grows /\ Arrived' = Arrived
  BY <1>1, SameKindLemma DEF AllInv
<1>3. /\ Stock' /\ Turns' = Turns /\ (\A u \in Turns \ {t} : turn'[u] = turn[u])
      /\ turn'[t].pc = "done" /\ turn'[t].cmds = <<>> /\ turn'[t].snapshot = <<>>
  <2>1. generation' \in Nat /\ generation <= generation'
    BY <1>1 DEF AllInv, IInv, Types
  <2>2. /\ queue' \in Seq(Entry) /\ Of(queue') \subseteq Arrived
        /\ delivered' \in [Commands -> Nat] /\ settled' \subseteq Arrived
    BY <1>1 DEF AllInv, Goods, Stock
  <2>. QED  BY <1>1, <2>1, <2>2, DoneStockLemma
<1>4. NoneLost'
  <2>. SUFFICES ASSUME NEW c \in Arrived PROVE Accounted(c)'
    BY <1>2 DEF NoneLost
  <2>1. Accounted(c)
    BY DEF AllInv, Goods, NoneLost
  <2>. QED  BY <1>1, <1>3, <2>1 DEF Accounted
<1>5. Once'
  <2>1. ToSet(<<>>) = {}
    BY DEF ToSet
  <2>. QED  BY <1>1, <1>2, <1>3, <2>1 DEF AllInv, Goods, Once
<1>. QED  BY <1>3, <1>4, <1>5 DEF Goods

\* The user takes commands back.
LEMMA PopGoodsLemma == ASSUME AllInv, Pop PROVE Goods'
PROOF
<1>. DEFINE editable == Filter(queue, Editable)
<1>1. /\ queue' = Without(editable) /\ settled' = settled \cup Of(editable)
      /\ UNCHANGED <<kind, guard, turn, delivered, forced>>
  BY DEF Pop
<1>2. Grows /\ Arrived' = Arrived
  BY <1>1, SameKindLemma DEF AllInv
<1>3. queue \in Seq(Entry) /\ Of(queue) \subseteq Arrived
  BY DEF AllInv, Goods, Stock
<1>4. ToSet(editable) \subseteq ToSet(queue)
  <2>1. \A n \in 0..Len(queue) :
          n # 0 => (Editable(queue[n]) <=> queue[n] \in {e \in Entry : Editable(e)})
    BY <1>3
  <2>2. editable = Keep(queue, {e \in Entry : Editable(e)})
    BY <2>1 DEF Filter, Keep
  <2>. HIDE DEF editable
  <2>. QED  BY <1>3, <2>2, KeepSet
<1>. HIDE DEF editable
<1>5. queue' \in Seq(Entry) /\ ToSet(queue') = ToSet(queue) \ ToSet(editable)
  BY <1>1, <1>3, WithoutLemma
<1>6. /\ Of(queue') \subseteq Of(queue) /\ Of(queue) \subseteq Of(editable) \cup Of(queue')
      /\ Of(editable) \subseteq Of(queue)
  BY <1>4, <1>5 DEF Of
<1>7. Stock'
  <2>1. \A u \in Turns : Cargo(u)'
    BY <1>1, <1>2 DEF AllInv, Goods, Stock, Cargo, guard
  <2>. QED  BY <1>1, <1>2, <1>3, <1>5, <1>6, <2>1 DEF AllInv, Goods, Stock, Turns
<1>8. NoneLost'
  <2>. SUFFICES ASSUME NEW c \in Arrived PROVE Accounted(c)'
    BY <1>2 DEF NoneLost
  <2>1. Accounted(c)
    BY DEF AllInv, Goods, NoneLost
  <2>. QED  BY <1>1, <1>6, <2>1 DEF Accounted, Turns
<1>9. Once'
  BY <1>1, <1>2, <1>5, <1>6 DEF AllInv, Goods, Once, Turns
<1>. QED  BY <1>7, <1>8, <1>9 DEF Goods

LEMMA KindStepLemma == ASSUME KindType, [Next]_vars PROVE KindType'
PROOF
<1>1. ASSUME NEW k \in Kinds, Arrives(k) PROVE KindType'
  <2>1. Len(kind) < MaxCommands /\ kind' = Append(kind, k)
    BY <1>1 DEF Arrives, Submit, Notify, Incoming
  <2>. QED  BY <2>1, FreshLemma DEF Grows
<1>2. CASE kind' = kind
  BY <1>2 DEF KindType
<1>. QED  BY <1>1, <1>2 DEF Next, vars, history, Effect, InputDone, PutBack, BeginQuery, RunLocally,
       RunSilently, Throw, DrainStart, DrainEnd, QueryEnd, Cancel, Timeout, Pop, OpenDialog, CloseDialog

\* The controller is nobody's or that of a turn that has begun.
LEMMA RestStepLemma == ASSUME AllInv, [Next]_vars PROVE Rest'
PROOF
<1>1. /\ controller \in {0} \cup Turns /\ dialog \in BOOLEAN /\ due \in BOOLEAN
      /\ forced \in 0..MaxForced /\ MaxForced \in Nat
  BY TurnConstants DEF AllInv, Rest
<1>2. ASSUME NEW entries, NEW pc \in PC, NEW gen \in Nat, turn' = Begun(entries, pc, gen)
      PROVE  Turns \subseteq Turns' /\ Len(turn) + 1 \in Turns'
  BY <1>2, BegunLemma DEF AllInv, IInv
<1>3. \A entries : StartTurn(entries) => Turns \subseteq Turns' /\ controller' \in Turns'
  BY <1>2 DEF StartTurn, PC
<1>4. ASSUME NEW t \in Turns, turn' = Done(t) PROVE Turns' = Turns
  BY <1>4, DoneLemma DEF AllInv, IInv
<1>5. Noticed => due' \in BOOLEAN
  BY DEF Noticed
<1>6. turn' = [turn EXCEPT ![controller].aborted = TRUE] => Turns' = Turns
  BY AbortCurrentLemma DEF AllInv, IInv
<1>7. CASE UNCHANGED vars
  BY <1>1, <1>7 DEF vars, Rest, Turns
<1>8. ASSUME NEW k \in Kinds, Arrives(k) PROVE Rest'
  <2>1. CASE Submit(k)
    BY <1>1, <1>3, <1>5, <1>6, <2>1 DEF Submit, Rest, Turns
  <2>2. CASE Notify(k)
    BY <1>1, <1>5, <2>2 DEF Notify, Rest, Turns
  <2>3. CASE Incoming
    <3>1. turn' = Begun(<<>>, "query", generation + 1) /\ generation + 1 \in Nat
          /\ controller' = Len(turn) + 1 /\ UNCHANGED <<dialog, forced>> /\ Noticed
      BY <2>3 DEF Incoming, AllInv, IInv, Types
    <3>. QED  BY <1>1, <1>2, <1>5, <3>1 DEF Rest, PC
  <2>. QED  BY <1>8, <2>1, <2>2, <2>3 DEF Arrives
<1>9. CASE Effect
  <2>1. CASE UNCHANGED <<turn, controller>> /\ due' = FALSE
    BY <1>1, <1>9, <2>1 DEF Effect, Rest, Turns
  <2>2. CASE StartTurn(ToProcess) /\ UNCHANGED due
    BY <1>1, <1>3, <1>9, <2>2 DEF Effect, Rest
  <2>. QED  BY <1>9, <2>1, <2>2 DEF Effect
<1>10. ASSUME NEW t \in Turns, InputDone(t) PROVE Rest'
  <2>1. controller' \in {0, controller} /\ UNCHANGED <<dialog, forced>> /\ Noticed
    BY <1>10 DEF InputDone, PutBack, BeginQuery, RunLocally, RunSilently, Throw
  <2>2. Turns' = Turns
    <3>1. CASE BeginQuery(t)
      <4>1. turn' = [turn EXCEPT ![t].pc = "query", ![t].gen = generation + 1, ![t].cmds = <<>>]
            /\ generation + 1 \in Nat
        BY <3>1 DEF BeginQuery, AllInv, IInv, Types
      <4>. QED  BY <4>1, QueryLemma DEF AllInv, IInv
    <3>2. CASE ~BeginQuery(t)
      <4>1. turn' = Done(t)
        BY <1>10, <3>2 DEF InputDone, PutBack, RunLocally, RunSilently, Throw
      <4>. QED  BY <1>4, <4>1
    <3>. QED  BY <3>1, <3>2
  <2>. QED  BY <1>1, <1>5, <2>1, <2>2 DEF Rest
<1>11. ASSUME NEW t \in Turns, DrainStart(t) PROVE Rest'
  <2>1. /\ \E s : turn' = [turn EXCEPT ![t].pc = "drain", ![t].snapshot = s]
        /\ UNCHANGED <<controller, dialog, due, forced>>
    BY <1>11 DEF DrainStart
  <2>2. Turns' = Turns
    BY <2>1, DrainStartLemma DEF AllInv, IInv
  <2>. QED  BY <1>1, <2>1, <2>2 DEF Rest
<1>12. ASSUME NEW t \in Turns, DrainEnd(t) PROVE Rest'
  <2>1. turn' = [turn EXCEPT ![t].pc = "query", ![t].snapshot = <<>>]
        /\ UNCHANGED <<controller, dialog, forced>> /\ Noticed
    BY <1>12 DEF DrainEnd
  <2>2. Turns' = Turns
    BY <2>1, DrainEndLemma DEF AllInv, IInv
  <2>. QED  BY <1>1, <1>5, <2>1, <2>2 DEF Rest
<1>13. ASSUME NEW t \in Turns, QueryEnd(t) PROVE Rest'
  <2>1. turn' = Done(t) /\ controller' \in {0, controller} /\ UNCHANGED <<dialog, forced>> /\ Noticed
    BY <1>13 DEF QueryEnd, history
  <2>. QED  BY <1>1, <1>4, <1>5, <2>1 DEF Rest
<1>14. CASE Cancel \/ Timeout
  <2>1. Turns' = Turns /\ controller' \in {0, controller} /\ dialog' = dialog /\ Noticed
        /\ forced < MaxForced /\ forced' = forced + 1
    BY <1>6, <1>14 DEF Cancel, Timeout, Turns
  <2>. QED  BY <1>1, <1>5, <2>1 DEF Rest
<1>15. CASE Pop \/ OpenDialog \/ CloseDialog
  BY <1>1, <1>5, <1>15 DEF Pop, OpenDialog, CloseDialog, Rest, Turns
<1>. QED  BY <1>7, <1>8, <1>9, <1>10, <1>11, <1>12, <1>13, <1>14, <1>15 DEF Next

LEMMA GoodsStepLemma == ASSUME AllInv, [Next]_vars PROVE Goods'
PROOF
<1>1. generation \in Nat /\ forced \in Nat /\ queue \in Seq(Entry)
  BY DEF AllInv, IInv, Types, OneTurn, Goods, Stock
<1>2. ASSUME kind' = kind, UNCHANGED <<queue, history>>, Turns' = Turns,
             \A u \in Turns : Holds(u) /\ turn'[u].pc = turn[u].pc /\ turn'[u].gen = turn[u].gen,
             generation' \in {generation, generation + 1}, forced' \in {forced, forced + 1}
      PROVE  Goods'
  <2>1. Grows /\ Arrived' = Arrived
    BY <1>2, SameKindLemma DEF AllInv
  <2>2. generation' \in Nat /\ generation <= generation'
    BY <1>1, <1>2
  <2>. QED  BY <1>1, <1>2, <2>1, <2>2, CalmLemma
<1>3. CASE UNCHANGED vars \/ OpenDialog \/ CloseDialog
  BY <1>2, <1>3 DEF vars, guard, OpenDialog, CloseDialog, Turns, Holds
<1>4. ASSUME NEW k \in Kinds, Arrives(k) PROVE Goods'
  <2>1. CASE Submit(k) /\ Active
    <3>1. /\ Len(kind) < MaxCommands /\ kind' = Append(kind, k)
          /\ queue' = Queued(<<Len(kind) + 1>>, 0) /\ UNCHANGED <<guard, history, forced>>
          /\ turn' = turn \/ turn' = [turn EXCEPT ![controller].aborted = TRUE]
      BY <1>4, <2>1 DEF Submit, Arrives
    <3>2. Turns' = Turns /\ \A u \in Turns : Holds(u) /\ turn'[u].pc = turn[u].pc
                                             /\ turn'[u].gen = turn[u].gen
      BY <3>1, AbortCurrentLemma DEF AllInv, IInv, Turns, Holds
    <3>. QED  BY <3>1, <3>2, EnqueueLemma
  <2>2. CASE Submit(k) /\ ~Active
    BY <1>4, <2>2, SubmitLemma DEF Arrives
  <2>3. CASE Notify(k)
    <3>1. /\ Len(kind) < MaxCommands /\ kind' = Append(kind, k)
          /\ queue' = Queued(<<Len(kind) + 1>>, 0) /\ UNCHANGED <<guard, history, forced>>
          /\ turn' = turn
      BY <1>4, <2>3 DEF Notify, Arrives
    <3>. QED  BY <3>1, EnqueueLemma DEF Turns, Holds
  <2>4. CASE k = "mail" /\ Incoming
    BY <1>4, <2>4, IncomingLemma DEF Arrives
  <2>. QED  BY <1>4, <2>1, <2>2, <2>3, <2>4 DEF Arrives
<1>5. CASE Effect
  <2>1. CASE UNCHANGED <<queue, guard, turn, controller>>
    BY <1>2, <1>5, <2>1 DEF Effect, guard, Turns, Holds
  <2>2. CASE ~Active /\ StartTurn(ToProcess) /\ queue' = Without(ToProcess)
    BY <1>5, <2>2, ServeLemma DEF Effect
  <2>. QED  BY <1>5, <2>1, <2>2 DEF Effect
<1>6. ASSUME NEW t \in Turns, InputDone(t) \/ DrainStart(t) \/ DrainEnd(t) \/ QueryEnd(t)
      PROVE  Goods'
  BY <1>6, InputGoodsLemma, DrainGoodsLemma, EndGoodsLemma
<1>7. CASE Cancel \/ Timeout
  <2>1. /\ kind' = kind /\ UNCHANGED <<queue, history>> /\ ForceEnd /\ forced' = forced + 1
        /\ turn' = turn \/ turn' = [turn EXCEPT ![controller].aborted = TRUE]
    BY <1>7 DEF Cancel, Timeout
  <2>2. Turns' = Turns /\ \A u \in Turns : Holds(u) /\ turn'[u].pc = turn[u].pc
                                           /\ turn'[u].gen = turn[u].gen
    BY <2>1, AbortCurrentLemma DEF AllInv, IInv, Turns, Holds
  <2>3. generation' \in {generation, generation + 1}
    BY <1>1, <2>1 DEF ForceEnd
  <2>. QED  BY <1>2, <2>1, <2>2, <2>3
<1>8. CASE Pop
  BY <1>8, PopGoodsLemma
<1>. QED  BY <1>3, <1>4, <1>5, <1>6, <1>7, <1>8 DEF Next

\* All the invariants together.
THEOREM AllInductive == Spec => []AllInv
PROOF
<1>1. Init => KindType /\ Rest /\ Goods /\ OneTurn
  <2>. SUFFICES ASSUME Init PROVE KindType /\ Rest /\ Goods /\ OneTurn
    OBVIOUS
  <2>1. MaxForced \in Nat /\ MaxCommands \in Nat /\ ToSet(<<>>) = {} /\ Of(<<>>) = {}
        /\ Turns = {} /\ Arrived = {}
    BY TurnConstants DEF Of, ToSet, Init, Turns, Arrived
  <2>2. KindType /\ Rest
    <3>1. 0 \in 0..MaxForced /\ kind \in Seq(Kinds) /\ Len(kind) = 0 /\ 0 <= MaxCommands
      BY <2>1 DEF Init
    <3>. QED  BY <2>1, <3>1 DEF Init, KindType, Rest
  <2>3. Stock /\ NoneLost /\ OneTurn
    BY <2>1 DEF Init, Stock, NoneLost, OneTurn
  <2>4. Once
    BY <2>1 DEF Init, Once
  <2>. QED  BY <2>2, <2>3, <2>4 DEF Goods
<1>2. AllInv /\ IInv' /\ [Next]_vars => AllInv'
  BY OneTurnLemma, KindStepLemma, RestStepLemma, GoodsStepLemma DEF AllInv
<1>3. IInv /\ KindType /\ Rest /\ Goods /\ OneTurn => AllInv
  BY DEF AllInv
<1>. QED  BY <1>1, <1>2, <1>3, Inductive, PTL DEF Spec

\* The queue and the turns hold commands that have arrived, a turn has a snapshot
\* while it drains and only then, and no turn is ahead of the guard's generation.
THEOREM TypesAreKept == Spec => []TypeOK
PROOF
<1>1. AllInv => TypeOK
  <2>. SUFFICES ASSUME AllInv PROVE TypeOK
    OBVIOUS
  <2>1. PICK X : turn \in Seq(TurnOver(X))
    BY DEF AllInv, IInv, Types
  <2>2. ASSUME NEW t \in Turns
        PROVE  /\ turn[t].pc \in PC /\ turn[t].gen \in Nat
               /\ turn[t].wrapped \in BOOLEAN /\ turn[t].aborted \in BOOLEAN
    <3>1. turn[t] \in TurnOver(X)
      BY <2>1 DEF Turns
    <3>. QED  BY <3>1 DEF TurnOver
  <2>3. ASSUME NEW t \in Turns
        PROVE  /\ turn[t].gen \in 0..generation
               /\ Of(turn[t].cmds) \subseteq Arrived
               /\ turn[t].pc = "drain" <=> turn[t].snapshot # <<>>
    BY <2>2 DEF AllInv, Goods, Stock, Cargo, IInv, Types
  <2>. QED  BY <2>2, <2>3 DEF AllInv, IInv, Types, KindType, Rest, Goods, Stock, TypeOK
<1>. QED  BY <1>1, AllInductive, PTL

\* Nothing that arrives is lost: it is queued, in a turn, delivered, or the user or an
\* error took it, whatever drains, collides or is cancelled; and until the guard is
\* first ended by force it is delivered once.
THEOREM NoCommandLost == Spec => []NothingLost
PROOF
<1>1. AllInv => NothingLost
  <2>. SUFFICES ASSUME AllInv PROVE NothingLost
    OBVIOUS
  <2>1. Arrived \subseteq Commands
    <3>1. Arrived = 1..Len(kind) /\ Len(kind) \in Nat /\ MaxCommands \in Nat
      BY TurnConstants DEF AllInv, KindType, Arrived
    <3>. QED  BY <3>1 DEF AllInv, KindType, Commands
  <2>. QED  BY <2>1 DEF AllInv, Goods, NoneLost, Accounted, Once, NothingLost
<1>. QED  BY <1>1, AllInductive, PTL

-----------------------------------------------------------------------------
\* While a command for the main thread is queued, the effect is due, or the guard is
\* held (GuardIsOwned says who releases it) or a dialog is open: to change either
\* makes the effect due.
Watched == due \/ Active \/ dialog \/ \A e \in ToSet(queue) : ~MainThread(e)

\* Peek skips the commands of subagents and no other.
LEMMA PeekFindsLemma ==
  ASSUME queue \in Seq(Entry)
  PROVE  /\ Peek = <<>> => \A e \in ToSet(queue) : ~MainThread(e)
         /\ \A e \in ToSet(Peek) : MainThread(e)
PROOF
<1>. DEFINE main == Filter(queue, MainThread)
            next == Filter(main, LAMBDA e : ~Later(e))
<1>1. main \in Seq(Entry) /\ ToSet(main) = ToSet(queue) \cap {e \in Entry : MainThread(e)}
  <2>1. \A n \in 0..Len(queue) :
          n # 0 => (MainThread(queue[n]) <=> queue[n] \in {e \in Entry : MainThread(e)})
    OBVIOUS
  <2>2. main = Keep(queue, {e \in Entry : MainThread(e)})
    BY <2>1 DEF Filter, Keep
  <2>. QED  BY <2>2, KeepSet
<1>. HIDE DEF main
<1>2. next \in Seq(Entry) /\ ToSet(next) \subseteq ToSet(main)
  <2>1. \A n \in 0..Len(main) :
          n # 0 => (~Later(main[n]) <=> main[n] \in {e \in Entry : ~Later(e)})
    BY <1>1
  <2>2. next = Keep(main, {e \in Entry : ~Later(e)})
    BY <2>1 DEF Filter, Keep
  <2>. HIDE DEF next
  <2>. QED  BY <1>1, <2>2, KeepSet
<1>3. Peek = IF next = <<>> THEN main ELSE next
  BY DEF Peek, Foremost, main
<1>. HIDE DEF next
<1>4. ToSet(queue) \subseteq Entry
  BY InSetLemma
<1>5. Peek = <<>> => ToSet(main) = {}
  BY <1>1, <1>3, InSetLemma
<1>. QED  BY <1>1, <1>2, <1>3, <1>4, <1>5

\* What the effect takes includes what it peeked at: it never finds a command for the
\* main thread and takes nothing.
LEMMA TakesSomethingLemma ==
  ASSUME queue \in Seq(Entry), ToProcess = <<>>
  PROVE  \A e \in ToSet(queue) : ~MainThread(e)
PROOF
<1>. DEFINE next == Head(Peek)
            P(e) == MainThread(e) /\ ~IsSlashCommand(e) /\ Mode(e) = Mode(next)
            batch == Filter(queue, P)
<1>1. SUFFICES ASSUME Peek # <<>> PROVE FALSE
  BY PeekFindsLemma
<1>2. next \in ToSet(queue) /\ next \in Entry /\ MainThread(next)
  BY <1>1, PeekLemma, PeekFindsLemma, InSetLemma
<1>3. ToProcess = IF IsSlashCommand(next) \/ Mode(next) = "bash" THEN <<next>> ELSE batch
  BY <1>1 DEF ToProcess
<1>4. <<next>> # <<>>
  OBVIOUS
<1>5. CASE ~IsSlashCommand(next)
  <2>1. \A n \in 0..Len(queue) : n # 0 => (P(queue[n]) <=> queue[n] \in {e \in Entry : P(e)})
    OBVIOUS
  <2>2. batch = Keep(queue, {e \in Entry : P(e)})
    BY <2>1 DEF Filter, Keep
  <2>3. next \in {e \in Entry : P(e)}
    BY <1>2, <1>5
  <2>. HIDE DEF batch, P, next
  <2>4. batch \in Seq(Entry) /\ next \in ToSet(batch)
    BY <1>2, <2>2, <2>3, KeepSet
  <2>5. batch # <<>>
    BY <2>4, InSetLemma
  <2>. QED  BY <1>3, <1>4, <2>5
<1>. QED  BY <1>3, <1>4, <1>5

\* A step that React notices, or that changes nothing the effect depends on.
LEMMA NoticedLemma ==
  ASSUME AllInv, Watched, Grows,
         Noticed \/ UNCHANGED <<due, queue, status, dialog>>
  PROVE  Watched'
PROOF
<1>1. SUFFICES ASSUME ~due', ~Active', ~dialog' PROVE \A e \in ToSet(queue') : ~MainThread(e)'
  BY DEF Watched
<1>2. ~due /\ queue' = queue /\ ~Active /\ ~dialog
  BY <1>1 DEF Noticed, Active, AllInv, Rest
<1>3. \A e \in ToSet(queue) : ~MainThread(e) /\ e.cmd \in Arrived
  BY <1>2 DEF Watched, AllInv, Goods, Stock, Of
<1>4. \A e \in ToSet(queue) : kind'[e.cmd] = kind[e.cmd]
  BY <1>3 DEF Grows
<1>. QED  BY <1>2, <1>3, <1>4 DEF MainThread, KindOf

\* A command for the main thread is never left in the queue with nobody to serve it.
\* This is what QueueServed rests on: no step of a turn, a drain, a cancel, a timeout
\* or the user forgets to make the effect due, and the effect, when it runs and the
\* REPL is free, takes something.
THEOREM NobodyLeftWaiting == Spec => []Watched
PROOF
<1>1. Init => Watched
  BY DEF Init, Watched, ToSet
<1>2. AllInv /\ Watched /\ [Next]_vars => Watched'
  <2>. SUFFICES ASSUME AllInv, Watched, [Next]_vars PROVE Watched'
    OBVIOUS
  <2>1. CASE Effect
    <3>1. CASE due'
      BY <3>1 DEF Watched
    <3>2. CASE ~due'
      <4>1. Active \/ dialog \/ ToProcess = <<>>
        BY <2>1, <3>2 DEF Effect
      <4>2. UNCHANGED <<kind, queue, status, dialog>>
        BY <2>1, <3>2, <4>1 DEF Effect, guard
      <4>3. queue \in Seq(Entry)
        BY DEF AllInv, Goods, Stock
      <4>. QED  BY <4>1, <4>2, <4>3, TakesSomethingLemma DEF Watched, Active, MainThread, KindOf
    <3>. QED  BY <3>1, <3>2
  <2>2. CASE ~Effect
    <3>1. Noticed \/ UNCHANGED <<due, queue, status, dialog>>
      BY <2>2 DEF Next, vars, guard, Arrives, Submit, Notify, Incoming, InputDone, PutBack, BeginQuery,
        RunLocally, RunSilently, Throw, DrainStart, DrainEnd, QueryEnd, Cancel, Timeout, Pop,
        OpenDialog, CloseDialog
    <3>2. Grows
      <4>1. ASSUME NEW k \in Kinds, Arrives(k) PROVE Grows
        <5>1. Len(kind) < MaxCommands /\ kind' = Append(kind, k)
          BY <4>1 DEF Arrives, Submit, Notify, Incoming
        <5>. QED  BY <5>1, FreshLemma DEF AllInv
      <4>2. CASE kind' = kind
        BY <4>2, SameKindLemma DEF AllInv
      <4>. QED  BY <2>2, <4>1, <4>2 DEF Next, vars, InputDone, PutBack, BeginQuery, RunLocally,
           RunSilently, Throw, DrainStart, DrainEnd, QueryEnd, Cancel, Timeout, Pop, OpenDialog, CloseDialog
    <3>. QED  BY <3>1, <3>2, NoticedLemma
  <2>. QED  BY <2>1, <2>2
<1>. QED  BY <1>1, <1>2, AllInductive, PTL DEF Spec
=============================================================================
