---------------------------- MODULE MCRemoteBridge ----------------------------
(* What the comments of bridge/remoteBridgeCore.ts say, for TLC.           *)
EXTENDS RemoteBridge

\* remoteBridgeCore.ts:280: "so the server receives [history..., live...] in
\* order".  It does not when the transport is rebuilt after a 401 that came
\* before the first connect: rebuildTransport drains the gate before the new
\* transport flushes the history.
HistoryBeforeLive == ~TornDown /\ received # <<>> => received[1] = History

\* remoteBridgeCore.ts:456: "onClose fires only for TERMINAL failures".  The 409
\* of a transport that was replaced reports that the bridge has failed while the
\* new transport works.
FailedIsDead ==
  [][state # "failed" /\ state' = "failed" =>
       (~Open \/ transports[Current].init # "ok" \/ inFlight \/ transports[Current].epoch < epoch)']_vars
=============================================================================
