--------------------------- MODULE MCEventUploader ---------------------------
(* Instances of EventUploader for TLC.                                     *)
EXTENDS EventUploader

\* The second event cannot be serialized, the fifth is large.
Mixed == <<1, 0, 1, 1, 3, 1>>
=============================================================================
