--------------------------- MODULE MCToolExecutor ---------------------------
(* Instances of ToolExecutor for TLC: the values are in the cfg files.     *)
EXTENDS ToolExecutor
=============================================================================
