-------------------------- MODULE MCPermissionPrompt --------------------------
(* Instances of PermissionPrompt for TLC.                                  *)
EXTENDS PermissionPrompt

CONSTANTS m1, m2, t1

One == {m1}
Two == {m1, m2}
Teammate == {t1}
NoTeammate == {}
Bridge == {"bridge"}
Both == {"bridge", "channel"}

\* "It sets up callbacks that eventually call `resolve()`"
\* (interactiveHandler.ts:53-55): a request that is open can still be answered by
\* somebody: at its dialog, by a hook, the classifier, a recheck or a remote side.
\* ESC breaks it.
Answerable ==
  \A r \in Requests :
    Open(r) => \/ r \in Queued \cup hooks \cup classifier \cup rechecks
               \/ listening[r] # {}
=============================================================================
