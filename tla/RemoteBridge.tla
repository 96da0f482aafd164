----------------------------- MODULE RemoteBridge -----------------------------
(***************************************************************************)
(* The bridge of a REPL to claude.ai without environments:                 *)
(* initEnvLessBridgeCore of bridge/remoteBridgeCore.ts with the gate of    *)
(* bridge/flushGate.ts, over the transports of bridge/replBridgeTransport. *)
(* ts and the epochs the server gives out.  An action is what runs between *)
(* two awaits that really wait: createV2ReplTransport with an epoch does   *)
(* not, nor does writeBatch, which only waits for the uploader's enqueue.  *)
(***************************************************************************)
EXTENDS Integers, Sequences, SequencesExt, Filtering

CONSTANTS
  MaxWrites,  \* bound: messages written while the bridge runs
  MaxEpochs,  \* bound: epochs the server gives out
  MaxCloses,  \* bound: how often the read stream is closed by the server
  MaxEvents   \* bound: messages, closes and epochs after the first one, together

ASSUME BridgeConstants ==
  MaxWrites \in Nat /\ MaxEpochs \in Nat \ {0} /\ MaxCloses \in Nat /\ MaxEvents \in Nat

\* The conversation before the bridge was started, and the messages after.
History == 0
Messages == 1..MaxWrites
Items == {History} \cup Messages

\* recoverFromAuthFailure and onRefresh.
Kinds == {"auth", "proactive"}
None == 0

VARIABLES
  epoch,     \* server: the latest epoch of the session
  received,  \* server: the events it has, each once (by uuid)
  transports,\* the transports made, the last one is `transport`
  gate,      \* flushGate
  flushed,   \* initialFlushDone
  torn,      \* no; archiving: tornDown, archiveSession under way; done
  inFlight,  \* authRecoveryInFlight
  recovery,  \* how far each of the two recoveries is
  creds,     \* the epoch in the credentials each has fetched
  state,     \* the last onStateChange
  written, closes,
  orphaned,  \* has the server given out an epoch that nobody uses?
  gaveUp     \* has a proactive refresh ended without credentials?

bridge == <<transports, gate, flushed, state>>
recoveries == <<inFlight, recovery, creds>>
bounds == <<written, closes>>
ghosts == <<orphaned, gaveUp>>
vars == <<epoch, received, bridge, torn, recoveries, bounds, ghosts>>

\* open: the uploaders take events; init: the PUT of ccr.initialize();
\* buffer, flight: the event uploader's.
Transport(e) == [epoch |-> e, open |-> TRUE, init |-> "sent", buffer |-> <<>>, flight |-> <<>>]
Current == Len(transports)
Open == transports[Current].open
TornDown == torn # "no"
\* Bound: may another message, close or epoch come?
Room == written + closes + epoch <= MaxEvents

TypeOK ==
  /\ epoch \in 1..MaxEpochs /\ received \in Seq(Items) /\ IsInjective(received)
  /\ Len(transports) \in 1..MaxEpochs
  /\ \A i \in DOMAIN transports :
       /\ transports[i].epoch \in 1..epoch /\ transports[i].open \in BOOLEAN
       /\ transports[i].init \in {"sent", "accepted", "ok", "failed"}
       /\ transports[i].buffer \in Seq(Items) /\ transports[i].flight \in Seq(Items)
       /\ ~transports[i].open => transports[i].buffer = <<>>
  /\ gate.active \in BOOLEAN /\ gate.pending \in Seq(Messages)
  /\ gate.pending # <<>> => gate.active
  /\ flushed \in BOOLEAN /\ torn \in {"no", "archiving", "done"} /\ inFlight \in BOOLEAN
  /\ recovery \in [Kinds -> {"idle", "oauth", "fetch", "fetched"}]
  /\ creds \in [Kinds -> 0..MaxEpochs]
  /\ state \in {"ready", "connected", "reconnecting", "failed"}
  /\ written \in 0..MaxWrites /\ closes \in 0..MaxCloses
  /\ orphaned \in BOOLEAN /\ gaveUp \in BOOLEAN

\* Fault (ServerOrder): the gate is not started before the transport connects.
InitialGateOpen == [active |-> FALSE, pending |-> <<>>]
InitialGate == [active |-> TRUE, pending |-> <<>>]

Init ==
  /\ epoch = 1 /\ received = <<>> /\ transports = <<Transport(1)>> /\ gate = InitialGate
  /\ flushed = FALSE /\ torn = "no" /\ inFlight = FALSE
  /\ recovery = [k \in Kinds |-> "idle"] /\ creds = [k \in Kinds |-> None]
  /\ state = "ready" /\ written = 0 /\ closes = 0 /\ orphaned = FALSE /\ gaveUp = FALSE

-----------------------------------------------------------------------------
(* Transports                                                              *)

Closed(t) == [t EXCEPT !.open = FALSE, !.buffer = <<>>]
\* writeBatch: a closed uploader ignores what it is given.
Given(t, items) == IF t.open THEN [t EXCEPT !.buffer = @ \o items] ELSE t

\* onClose with a code other than a 401 to recover from: a dead end.
Failed == IF TornDown THEN state ELSE "failed"

\* Fault (Arrives): the gate is ended and what it held is not written.
DrainedLost(t) == t
\* drainFlushGate.
Drained(t) == Given(t, gate.pending)
GateOpen == [active |-> FALSE, pending |-> <<>>]

\* The uploader posts a batch: the batches here are below its limits.
Post(i) ==
  /\ transports[i].flight = <<>> /\ transports[i].buffer # <<>>
  /\ transports' = [transports EXCEPT ![i].flight = transports[i].buffer, ![i].buffer = <<>>]
  /\ UNCHANGED <<epoch, received, gate, flushed, state, torn, recoveries, bounds, ghosts>>

\* The server takes a batch of the latest epoch and skips what it has already.
Posted(i) ==
  LET t == transports[i]
  IN /\ t.flight # <<>> /\ t.epoch = epoch
     /\ received' = received \o Filter(t.flight, LAMBDA m : m \notin ToSet(received))
     /\ transports' = [transports EXCEPT ![i].flight = <<>>]
     /\ UNCHANGED <<epoch, gate, flushed, state, torn, recoveries, bounds, ghosts>>

\* The request fails, before or after the server took the batch: it is put back.
PostFails(i) ==
  LET t == transports[i]
  IN /\ t.flight # <<>>
     /\ \/ UNCHANGED received
        \/ /\ t.epoch = epoch
           /\ received' = received \o Filter(t.flight, LAMBDA m : m \notin ToSet(received))
     /\ transports' = [transports EXCEPT
          ![i].flight = <<>>,
          ![i].buffer = IF t.open THEN t.flight \o @ ELSE @]
     /\ UNCHANGED <<epoch, gate, flushed, state, torn, recoveries, bounds, ghosts>>

\* A batch or a heartbeat of an older epoch gets a 409: onEpochMismatch closes
\* this transport, which may have been replaced, and calls onClose(4090).  The
\* heartbeat is on once the initial PUT has returned; one of a closed transport that
\* was under way, or that initialize() started after close(), is answered too (here
\* perhaps more than once).
Superseded(i) ==
  LET t == transports[i]
  IN /\ t.epoch < epoch
     /\ \/ /\ t.flight # <<>>
           /\ transports' = [transports EXCEPT ![i] = [Closed(t) EXCEPT !.flight = <<>>]]
        \/ t.init \in {"accepted", "ok"} /\ transports' = [transports EXCEPT ![i] = Closed(t)]
     /\ state' = Failed
     /\ UNCHANGED <<epoch, received, gate, flushed, torn, recoveries, bounds, ghosts>>

\* The initial PUT fails, or gets a 409: onClose(4091).
InitFails(i) ==
  /\ transports[i].init = "sent"
  /\ transports' = [transports EXCEPT ![i] = [Closed(@) EXCEPT !.init = "failed"]]
  /\ state' = Failed
  /\ UNCHANGED <<epoch, received, gate, flushed, torn, recoveries, bounds, ghosts>>

\* The initial PUT succeeds: initialize() starts the heartbeat, also of a transport
\* that was closed meanwhile, and goes on to read the worker's state.
InitAccepted(i) ==
  /\ transports[i].init = "sent" /\ transports[i].epoch = epoch
  /\ transports' = [transports EXCEPT ![i].init = "accepted"]
  /\ UNCHANGED <<epoch, received, gate, flushed, state, torn, recoveries, bounds, ghosts>>

\* The current transport, given the history and then what the gate held.
Flushed == Given(transports[Current], <<History>>)
FlushedAndDrained == Drained(Flushed)

\* Fault (GateOpens): the flush does not end the gate.
OnConnectKeepingGate(i) ==
  /\ transports[i].init = "accepted"
  /\ flushed' = TRUE /\ state' = "connected"
  /\ transports' = [[transports EXCEPT ![Current] = Flushed] EXCEPT ![i].init = "ok"]
  /\ UNCHANGED <<epoch, received, gate, torn, recoveries, bounds, ghosts>>

\* initialize() resolves, also that of a transport closed or replaced meanwhile:
\* onConnect, with flushHistory and its finally.
OnConnect(i) ==
  /\ transports[i].init = "accepted"
  /\ flushed' = TRUE
  /\ IF flushed
     THEN /\ state' = IF gate.active THEN state ELSE "connected"
          /\ transports' = [transports EXCEPT ![i].init = "ok"] /\ UNCHANGED gate
     ELSE IF TornDown \/ inFlight
     THEN /\ transports' = [[transports EXCEPT ![Current] = Flushed] EXCEPT ![i].init = "ok"]
          /\ UNCHANGED <<gate, state>>
     ELSE /\ transports' = [[transports EXCEPT ![Current] = FlushedAndDrained]
                              EXCEPT ![i].init = "ok"]
          /\ gate' = GateOpen /\ state' = "connected"
  /\ UNCHANGED <<epoch, received, torn, recoveries, bounds, ghosts>>

\* writeMessages.
Write ==
  /\ written < MaxWrites /\ Room /\ written' = written + 1
  /\ IF gate.active
     THEN gate' = [gate EXCEPT !.pending = Append(@, written + 1)] /\ UNCHANGED transports
     ELSE /\ transports' = [transports EXCEPT ![Current] = Given(@, <<written + 1>>)]
          /\ UNCHANGED gate
  /\ UNCHANGED <<epoch, received, flushed, state, torn, recoveries, closes, ghosts>>

-----------------------------------------------------------------------------
(* Recoveries                                                              *)

Claims == inFlight' = TRUE

\* Fault (LatestEpoch): a 401 is recovered from although a refresh is under way.
SseClosesAnyway(recoverable) ==
  /\ closes < MaxCloses /\ Room /\ closes' = closes + 1
  /\ Open
  /\ transports' = [transports EXCEPT ![Current] = Closed(@)]
  /\ IF TornDown THEN UNCHANGED <<recoveries, state>>
     ELSE IF recoverable
     THEN /\ recovery["auth"] = "idle"
          /\ recovery' = [recovery EXCEPT !["auth"] = "oauth"] /\ Claims
          /\ state' = "reconnecting" /\ UNCHANGED creds
     ELSE state' = "failed" /\ UNCHANGED recoveries
  /\ UNCHANGED <<epoch, received, gate, flushed, torn, written, ghosts>>

\* The server closes the read stream: with 401, or for good.
SseCloses(recoverable) ==
  /\ closes < MaxCloses /\ Room /\ closes' = closes + 1
  /\ Open
  /\ transports' = [transports EXCEPT ![Current] = Closed(@)]
  /\ IF TornDown THEN UNCHANGED <<recoveries, state>>
     ELSE IF recoverable /\ ~inFlight
     THEN /\ recovery["auth"] = "idle"
          /\ recovery' = [recovery EXCEPT !["auth"] = "oauth"] /\ Claims
          /\ state' = "reconnecting" /\ UNCHANGED creds
     ELSE state' = "failed" /\ UNCHANGED recoveries
  /\ UNCHANGED <<epoch, received, gate, flushed, torn, written, ghosts>>

\* The refresh timer fires: onRefresh.
RefreshDue ==
  /\ ~inFlight /\ ~TornDown /\ recovery["proactive"] = "idle"
  /\ recovery' = [recovery EXCEPT !["proactive"] = "fetch"] /\ Claims
  /\ UNCHANGED <<epoch, received, bridge, torn, creds, bounds, ghosts>>

Ends(k) ==
  /\ recovery' = [recovery EXCEPT ![k] = "idle"] /\ inFlight' = FALSE
  /\ creds' = [creds EXCEPT ![k] = None]

\* The OAuth token of a 401 recovery is refreshed, or there is none.
OAuth ==
  /\ recovery["auth"] = "oauth"
  /\ \/ /\ ~TornDown
        /\ recovery' = [recovery EXCEPT !["auth"] = "fetch"] /\ UNCHANGED <<inFlight, creds, state>>
     \/ Ends("auth") /\ state' = Failed
  /\ UNCHANGED <<epoch, received, transports, gate, flushed, torn, bounds, ghosts>>

\* The server answers POST /bridge, which gives out an epoch; or the request
\* fails, before or after that.
Fetch(k) ==
  /\ recovery[k] = "fetch" /\ recovery' = [recovery EXCEPT ![k] = "fetched"]
  /\ \/ /\ epoch < MaxEpochs /\ Room /\ epoch' = epoch + 1
        /\ \/ creds' = [creds EXCEPT ![k] = epoch + 1] /\ UNCHANGED orphaned
           \/ orphaned' = TRUE /\ UNCHANGED creds
     \/ UNCHANGED <<epoch, creds, orphaned>>
  /\ UNCHANGED <<received, bridge, torn, inFlight, bounds, gaveUp>>

\* Fault (TornDownCloses): a recovery goes on after teardown.
UsableAnyway(k) == creds[k] # None
Usable(k) == creds[k] # None /\ ~TornDown

\* Fault (TypeOK): the gate is deactivated, to be drained later.
RebuiltUndrained == gate' = [gate EXCEPT !.active = FALSE]
Rebuilt == gate' = GateOpen

NewEpoch(k) == creds[k]

\* rebuildTransport: a new transport, connected and given what the gate held
\* before its initial PUT returns.
Rebuild(k) ==
  /\ recovery[k] = "fetched" /\ Usable(k)
  /\ Rebuilt
  /\ transports' = Append([transports EXCEPT ![Current] = Closed(@)],
                          Given(Transport(NewEpoch(k)), IF gate' = GateOpen THEN gate.pending ELSE <<>>))
  /\ flushed' = (flushed /\ k = "proactive")
  /\ Ends(k)
  /\ UNCHANGED <<epoch, received, state, torn, bounds, ghosts>>

\* Its finally block after a throw: what the gate held is dropped.
RebuildFails(k) ==
  /\ recovery[k] = "fetched" /\ Usable(k)
  /\ transports' = [transports EXCEPT ![Current] = Closed(@)] /\ gate' = GateOpen
  /\ flushed' = (flushed /\ k = "proactive")
  /\ state' = "failed" /\ orphaned' = TRUE
  /\ Ends(k)
  /\ UNCHANGED <<epoch, received, torn, bounds, gaveUp>>

\* There are no credentials, or the bridge was torn down.  The proactive
\* refresh says nothing.
GiveUp(k) ==
  /\ recovery[k] = "fetched" /\ ~Usable(k)
  /\ state' = IF k = "auth" THEN Failed ELSE state
  /\ gaveUp' = (gaveUp \/ k = "proactive") /\ orphaned' = (orphaned \/ creds[k] # None)
  /\ Ends(k)
  /\ UNCHANGED <<epoch, received, transports, gate, flushed, torn, bounds>>

-----------------------------------------------------------------------------
(* Teardown                                                                *)

Teardown ==
  /\ torn = "no" /\ torn' = "archiving" /\ gate' = GateOpen
  /\ UNCHANGED <<epoch, received, transports, flushed, state, recoveries, bounds, ghosts>>

Archived ==
  /\ torn = "archiving" /\ torn' = "done"
  /\ transports' = [transports EXCEPT ![Current] = Closed(@)]
  /\ UNCHANGED <<epoch, received, gate, flushed, state, recoveries, bounds, ghosts>>

Next ==
  \/ \E i \in DOMAIN transports :
       Post(i) \/ Posted(i) \/ PostFails(i) \/ Superseded(i) \/ InitFails(i)
         \/ InitAccepted(i) \/ OnConnect(i)
  \/ Write \/ RefreshDue \/ OAuth \/ Teardown \/ Archived
  \/ \E b \in BOOLEAN : SseCloses(b)
  \/ \E k \in Kinds : Fetch(k) \/ Rebuild(k) \/ RebuildFails(k) \/ GiveUp(k)

Spec == Init /\ [][Next]_vars

\* Requests come to an end, and a batch that is posted for ever gets through.
\* Nobody has to write, to refresh, to close or to tear down; and no heartbeat has
\* to be under way when its transport is closed.
FairSpec ==
  /\ Spec /\ WF_vars(OAuth) /\ WF_vars(Archived)
  /\ \A i \in 1..MaxEpochs :
       /\ WF_vars(i \in DOMAIN transports /\ (InitAccepted(i) \/ OnConnect(i) \/ InitFails(i)))
       /\ WF_vars(i \in DOMAIN transports /\ Post(i))
       /\ WF_vars(i \in DOMAIN transports /\ Superseded(i)
                    /\ (transports[i].open \/ transports[i].flight # <<>>))
       /\ SF_vars(i \in DOMAIN transports /\ Posted(i))
  /\ \A k \in Kinds : WF_vars(Fetch(k) \/ Rebuild(k) \/ RebuildFails(k) \/ GiveUp(k))

-----------------------------------------------------------------------------
(* Properties                                                              *)

\* The server gets the messages in the order in which they were written, across
\* the gate, retries and transports that overlap (epochs fence the old ones off);
\* and the history before them, unless the transport was rebuilt or torn down.
ServerOrder ==
  \A i, j \in DOMAIN received :
    i < j => \/ received[i] < received[j]
             \/ received[j] = History /\ (Current > 1 \/ TornDown)

\* Once the recoveries are over the transport has the latest epoch, whichever of
\* them came last.  The exception is an epoch whose credentials were lost.
LatestEpoch ==
  Open /\ (\A k \in Kinds : recovery[k] = "idle") /\ ~orphaned
    => transports[Current].epoch = epoch

\* After teardown no transport takes or posts new events, also when a recovery was
\* under way.  A heartbeat may go on: initialize() starts one when its PUT returns.
TornDownCloses ==
  torn = "done" => \A i \in DOMAIN transports : ~transports[i].open

\* Messages do not stay behind the gate: it opens, or the bridge says that it
\* failed.  The exception is a proactive refresh that gives up.
GateOpens == gate.active ~> (~gate.active \/ state = "failed" \/ gaveUp)

\* As long as no transport is closed, a message that is written arrives.
Arrives ==
  \A m \in Messages :
    (written >= m) ~> (m \in ToSet(received) \/ gaveUp \/ \E i \in DOMAIN transports : ~transports[i].open)
=============================================================================
