----------------------------- MODULE MCTurnQueue -----------------------------
(* Instances of TurnQueue for TLC.                                         *)
EXTENDS TurnQueue

\* A tick stands for the notifications of the main thread too.
MixedKinds == Kind \ {"note"}
UserKinds == {"prompt", "bash"}
=============================================================================
