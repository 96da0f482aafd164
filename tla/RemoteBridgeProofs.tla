-------------------------- MODULE RemoteBridgeProofs --------------------------
(***************************************************************************)
(* Proofs about RemoteBridge, for any number of messages, epochs and closed*)
(* streams.  The argument: authRecoveryInFlight lets one recovery in at a  *)
(* time, so no epoch is given out between the credentials it fetches and   *)
(* the transport it builds from them; only the transport made last is open,*)
(* and a recovery that is overtaken by teardown builds none.  So only the  *)
(* current transport's requests reach the server; what it has still to     *)
(* send is in order and comes after what the server has, retries apart.    *)
(***************************************************************************)
EXTENDS RemoteBridge, FilteringTheorems, TLAPS, SequenceTheorems

TransportRecord ==
  [epoch : Nat, open : BOOLEAN, init : {"sent", "accepted", "ok", "failed"},
   buffer : Seq(Items), flight : Seq(Items)]

Types ==
  /\ epoch \in Nat /\ transports \in Seq(TransportRecord) /\ transports # <<>>
  /\ gate \in [active : BOOLEAN, pending : Seq(Items)]
  /\ torn \in {"no", "archiving", "done"} /\ inFlight \in BOOLEAN
  /\ recovery \in [Kinds -> {"idle", "oauth", "fetch", "fetched"}]
  /\ creds \in [Kinds -> Nat] /\ written \in Nat

\* A recovery that has begun holds the flag, and no other has begun.
OneRecovery ==
  /\ \A k \in Kinds : recovery[k] # "idle" => inFlight
  /\ \A k, l \in Kinds : recovery[k] # "idle" /\ recovery[l] # "idle" => k = l

\* Credentials that were fetched have the server's latest epoch.
FreshCredentials ==
  \A k \in Kinds : creds[k] # None => recovery[k] = "fetched" /\ creds[k] = epoch

\* Without such credentials, and unless some were lost, the transport has it.
FreshTransport ==
  Open /\ ~orphaned /\ (\A k \in Kinds : creds[k] = None) => transports[Current].epoch = epoch

\* The transports that were replaced are closed; after teardown the last one too.
Replaced == \A i \in DOMAIN transports : transports[i].open => i = Current
Closes == torn = "done" => ~Open

IInv ==
  Types /\ OneRecovery /\ FreshCredentials /\ FreshTransport /\ Replaced /\ Closes

\* From the transports ts to us none is opened, made or given another epoch.
Keeps(ts, us) ==
  /\ us \in Seq(TransportRecord) /\ Len(us) = Len(ts)
  /\ \A i \in DOMAIN ts : (us[i].open => ts[i].open) /\ us[i].epoch = ts[i].epoch

-----------------------------------------------------------------------------
\* What closing a transport and giving it messages leave as it is.
LEMMA ClosedLemma ==
  ASSUME NEW t \in TransportRecord
  PROVE  Closed(t) \in TransportRecord /\ ~Closed(t).open /\ Closed(t).epoch = t.epoch
PROOF
<1>1. <<>> \in Seq(Items)
  OBVIOUS
<1>. QED  BY <1>1 DEF TransportRecord, Closed

LEMMA GivenLemma ==
  ASSUME NEW t \in TransportRecord, NEW items \in Seq(Items)
  PROVE  /\ Given(t, items) \in TransportRecord
         /\ Given(t, items).open = t.open /\ Given(t, items).epoch = t.epoch
PROOF
<1>1. t.buffer \o items \in Seq(Items)
  BY DEF TransportRecord
<1>. QED  BY <1>1 DEF TransportRecord, Given

LEMMA GateLemma == GateOpen \in [active : BOOLEAN, pending : Seq(Items)]
PROOF
<1>1. <<>> \in Seq(Items)
  OBVIOUS
<1>. QED  BY <1>1 DEF GateOpen

LEMMA InitLemma == Init => IInv
PROOF
<1>. SUFFICES ASSUME Init PROVE IInv
  OBVIOUS
<1>1. <<>> \in Seq(Items) /\ Transport(1) \in TransportRecord
  BY DEF TransportRecord, Transport
<1>2. transports = <<Transport(1)>> /\ transports \in Seq(TransportRecord)
      /\ DOMAIN transports = {1} /\ Current = 1 /\ transports[1] = Transport(1)
  BY <1>1 DEF Init, Current
<1>3. Types
  <2>1. gate \in [active : BOOLEAN, pending : Seq(Items)]
    BY <1>1 DEF Init, InitialGate
  <2>2. transports # <<>>
    BY <1>2
  <2>3. recovery \in [Kinds -> {"idle", "oauth", "fetch", "fetched"}] /\ creds \in [Kinds -> Nat]
    BY DEF Init, None
  <2>. QED  BY <1>2, <2>1, <2>2, <2>3 DEF Init, Types
<1>4. Transport(1).epoch = 1 /\ epoch = 1
  BY DEF Transport, Init
<1>. QED
  BY <1>2, <1>3, <1>4
     DEF Init, IInv, OneRecovery, FreshCredentials, FreshTransport, Replaced, Closes, Open

\* A step that does not touch the epochs, here or at the server.
LEMMA KeepsLemma ==
  ASSUME IInv, Keeps(transports, transports'), UNCHANGED <<epoch, creds, orphaned>>,
         gate' \in [active : BOOLEAN, pending : Seq(Items)],
         torn' \in {"no", "archiving", "done"}, torn' = "done" => torn = "done" \/ ~Open',
         inFlight' \in BOOLEAN, written' \in Nat,
         recovery' \in [Kinds -> {"idle", "oauth", "fetch", "fetched"}], OneRecovery',
         \A k \in Kinds : recovery[k] = "fetched" => recovery'[k] = "fetched"
  PROVE  IInv'
PROOF
<1>1. /\ DOMAIN transports = 1..Len(transports) /\ DOMAIN transports' = DOMAIN transports
      /\ Len(transports) \in Nat /\ Len(transports) # 0
      /\ Current' = Current /\ Current \in DOMAIN transports
  BY DEF IInv, Types, Current, Keeps
<1>2. Open' => Open
  BY <1>1 DEF Open, Keeps
<1>3. Types'
  BY <1>1 DEF IInv, Types, Keeps
<1>4. FreshCredentials'
  BY DEF IInv, FreshCredentials
<1>5. FreshTransport'
  BY <1>1, <1>2 DEF IInv, FreshTransport, Keeps
<1>6. Replaced'
  BY <1>1 DEF IInv, Replaced, Keeps
<1>7. Closes'
  BY <1>2 DEF IInv, Closes
<1>. QED  BY <1>3, <1>4, <1>5, <1>6, <1>7 DEF IInv

\* And neither the recoveries nor teardown.
LEMMA QuietLemma ==
  ASSUME IInv, Keeps(transports, transports'), UNCHANGED <<epoch, recoveries, orphaned, torn>>,
         gate' \in [active : BOOLEAN, pending : Seq(Items)], written' \in Nat
  PROVE  IInv'
PROOF
<1>1. UNCHANGED <<inFlight, recovery, creds>> /\ OneRecovery'
  BY DEF recoveries, IInv, OneRecovery
<1>2. /\ torn' \in {"no", "archiving", "done"} /\ inFlight' \in BOOLEAN
      /\ recovery' \in [Kinds -> {"idle", "oauth", "fetch", "fetched"}]
  BY <1>1 DEF IInv, Types
<1>. QED  BY <1>1, <1>2, KeepsLemma

\* Of one transport.
LEMMA OneTransportLemma ==
  ASSUME NEW ts \in Seq(TransportRecord), NEW i \in DOMAIN ts, NEW t \in TransportRecord,
         t.open => ts[i].open, t.epoch = ts[i].epoch
  PROVE  Keeps(ts, [ts EXCEPT ![i] = t])
PROOF
<1>1. i \in 1..Len(ts)
  OBVIOUS
<1>2. /\ [ts EXCEPT ![i] = t] \in Seq(TransportRecord)
      /\ Len([ts EXCEPT ![i] = t]) = Len(ts)
  BY <1>1, ExceptSeq
<1>. QED  BY <1>1, <1>2 DEF Keeps

\* The transports are transports, and the current one is among them.
LEMMA TransportTypes ==
  ASSUME IInv
  PROVE  /\ \A i \in DOMAIN transports : transports[i] \in TransportRecord
         /\ Current \in DOMAIN transports /\ Current \in Nat \ {0}
         /\ DOMAIN transports = 1..Current
         /\ <<>> \in Seq(Items) /\ <<History>> \in Seq(Items)
PROOF
  BY DEF IInv, Types, Current, Items, History

\* What a transport has not got rid of: the batch that is posted, and the rest.
Unsent(t) == t.flight \o t.buffer
Accepted(r, batch) == r \o Filter(batch, LAMBDA m : m \notin ToSet(r))

\* The requests of the uploader of the transport t make it u.
Uploads(t, u) ==
  \/ UNCHANGED received /\ Unsent(u) \in {Unsent(t), t.flight, t.buffer, <<>>}
  \/ /\ t.epoch = epoch /\ t.flight # <<>> /\ u.open = t.open
     /\ received' = Accepted(received, t.flight) /\ Unsent(u) \in {Unsent(t), t.buffer}

\* The requests of the uploaders and the initial PUT.
LEMMA UploaderMoves ==
  ASSUME IInv, NEW i \in DOMAIN transports,
         Post(i) \/ Posted(i) \/ PostFails(i) \/ Superseded(i) \/ InitFails(i) \/ InitAccepted(i)
  PROVE  \E u \in TransportRecord :
           /\ transports' = [transports EXCEPT ![i] = u]
           /\ (u.open => transports[i].open) /\ u.epoch = transports[i].epoch
           /\ u.open \/ u.buffer = <<>> \/ (u.buffer = transports[i].buffer /\ ~transports[i].open)
           /\ Uploads(transports[i], u)
PROOF
<1>. DEFINE t == transports[i]
<1>0. t \in TransportRecord /\ <<>> \in Seq(Items)
  BY TransportTypes
<1>1. /\ t \in TransportRecord /\ <<>> \in Seq(Items) /\ t.flight \o t.buffer \in Seq(Items)
      /\ Closed(t) \in TransportRecord /\ ~Closed(t).open /\ Closed(t).epoch = t.epoch
  <2>1. t.flight \o t.buffer \in Seq(Items)
    BY <1>0 DEF TransportRecord
  <2>. QED  BY <1>0, <2>1, ClosedLemma
<1>2. \A b \in Seq(Items) : <<>> \o b = b /\ b \o <<>> = b
  OBVIOUS
<1>3. t.flight \in Seq(Items) /\ t.buffer \in Seq(Items)
  BY <1>0 DEF TransportRecord
<1>. DEFINE Moves(u) ==
       /\ transports' = [transports EXCEPT ![i] = u]
       /\ (u.open => t.open) /\ u.epoch = t.epoch
       /\ u.open \/ u.buffer = <<>> \/ (u.buffer = t.buffer /\ ~t.open)
       /\ Uploads(t, u)
<1>. SUFFICES \E u \in TransportRecord : Moves(u)
  OBVIOUS
<1>4. CASE Post(i)
  <2>. DEFINE u == [[t EXCEPT !.flight = t.buffer] EXCEPT !.buffer = <<>>]
  <2>1. transports' = [transports EXCEPT ![i] = u] /\ UNCHANGED received /\ t.flight = <<>>
    BY <1>4, <1>1 DEF Post, IInv, Types
  <2>2. /\ u \in TransportRecord /\ (u.open => t.open) /\ u.epoch = t.epoch
        /\ u.flight = t.buffer /\ u.buffer = <<>>
    BY <1>1 DEF TransportRecord
  <2>3. Unsent(u) = Unsent(t)
    BY <1>2, <1>3, <2>1, <2>2 DEF Unsent
  <2>. QED  BY <2>1, <2>2, <2>3 DEF Uploads
<1>5. CASE Posted(i)
  <2>. DEFINE u == [t EXCEPT !.flight = <<>>]
  <2>1. /\ transports' = [transports EXCEPT ![i] = u] /\ t.epoch = epoch /\ t.flight # <<>>
        /\ received' = Accepted(received, t.flight)
    BY <1>5, <1>1 DEF Posted, IInv, Types, Accepted
  <2>2. /\ u \in TransportRecord /\ u.open = t.open /\ u.epoch = t.epoch
        /\ u.flight = <<>> /\ u.buffer = t.buffer
    BY <1>1 DEF TransportRecord
  <2>3. Unsent(u) = t.buffer
    BY <1>2, <1>3, <2>2 DEF Unsent
  <2>. QED  BY <2>1, <2>2, <2>3 DEF Uploads
<1>6. CASE PostFails(i)
  <2>. DEFINE b == IF t.open THEN t.flight \o t.buffer ELSE t.buffer
              u == [[t EXCEPT !.flight = <<>>] EXCEPT !.buffer = b]
  <2>0. b \in Seq(Items) /\ b \in {Unsent(t), t.buffer} /\ (t.open \/ b = t.buffer)
    BY <1>1, <1>3 DEF Unsent
  <2>1. /\ transports' = [transports EXCEPT ![i] = u] /\ t.flight # <<>>
        /\ \/ UNCHANGED received
           \/ t.epoch = epoch /\ received' = Accepted(received, t.flight)
    BY <1>6, <1>1 DEF PostFails, IInv, Types, Accepted
  <2>. HIDE DEF b
  <2>2. /\ u \in TransportRecord /\ u.open = t.open /\ u.epoch = t.epoch
        /\ u.flight = <<>> /\ u.buffer = b
    BY <1>1, <2>0 DEF TransportRecord
  <2>3. Unsent(u) = b
    BY <1>2, <2>0, <2>2 DEF Unsent
  <2>. QED  BY <2>0, <2>1, <2>2, <2>3 DEF Uploads
<1>7. CASE Superseded(i) /\ transports' = [transports EXCEPT ![i] = [Closed(t) EXCEPT !.flight = <<>>]]
  <2>. DEFINE u == [Closed(t) EXCEPT !.flight = <<>>]
  <2>1. transports' = [transports EXCEPT ![i] = u] /\ UNCHANGED received
    BY <1>7 DEF Superseded
  <2>2. /\ u \in TransportRecord /\ (u.open => t.open) /\ u.epoch = t.epoch
        /\ u.flight = <<>> /\ u.buffer = <<>>
    BY <1>1 DEF TransportRecord, Closed
  <2>3. Unsent(u) = <<>>
    BY <1>1, <1>2, <2>2 DEF Unsent
  <2>. QED  BY <2>1, <2>2, <2>3 DEF Uploads
<1>10. CASE Superseded(i) /\ transports' = [transports EXCEPT ![i] = Closed(t)]
  <2>. DEFINE u == Closed(t)
  <2>1. transports' = [transports EXCEPT ![i] = u] /\ UNCHANGED received
    BY <1>10 DEF Superseded
  <2>2. /\ u \in TransportRecord /\ (u.open => t.open) /\ u.epoch = t.epoch
        /\ u.flight = t.flight /\ u.buffer = <<>>
    BY <1>1 DEF TransportRecord, Closed
  <2>3. Unsent(u) = t.flight
    BY <1>2, <1>3, <2>2 DEF Unsent
  <2>. QED  BY <2>1, <2>2, <2>3 DEF Uploads
<1>11. ASSUME Superseded(i)
       PROVE  \/ transports' = [transports EXCEPT ![i] = [Closed(t) EXCEPT !.flight = <<>>]]
              \/ transports' = [transports EXCEPT ![i] = Closed(t)]
  BY <1>11 DEF Superseded
<1>8. CASE InitFails(i)
  <2>. DEFINE u == [Closed(t) EXCEPT !.init = "failed"]
  <2>1. transports' = [transports EXCEPT ![i] = u] /\ UNCHANGED received
    BY <1>8, <1>1 DEF InitFails, IInv, Types
  <2>2. /\ u \in TransportRecord /\ (u.open => t.open) /\ u.epoch = t.epoch
        /\ u.flight = t.flight /\ u.buffer = <<>>
    BY <1>1 DEF TransportRecord, Closed
  <2>3. Unsent(u) = t.flight
    BY <1>2, <1>3, <2>2 DEF Unsent
  <2>. QED  BY <2>1, <2>2, <2>3 DEF Uploads
<1>9. CASE InitAccepted(i)
  <2>. DEFINE u == [t EXCEPT !.init = "accepted"]
  <2>1. transports' = [transports EXCEPT ![i] = u] /\ UNCHANGED received
    BY <1>9, <1>1 DEF InitAccepted, IInv, Types
  <2>2. /\ u \in TransportRecord /\ u.open = t.open /\ u.epoch = t.epoch
        /\ u.flight = t.flight /\ u.buffer = t.buffer
    BY <1>1 DEF TransportRecord
  <2>3. Unsent(u) = Unsent(t)
    BY <2>2 DEF Unsent
  <2>. QED  BY <2>1, <2>2, <2>3 DEF Uploads
<1>. QED  BY <1>4, <1>5, <1>6, <1>7, <1>8, <1>9, <1>10, <1>11

LEMMA UploaderLemma ==
  ASSUME IInv, NEW i \in DOMAIN transports,
         Post(i) \/ Posted(i) \/ PostFails(i) \/ Superseded(i) \/ InitFails(i) \/ InitAccepted(i)
  PROVE  IInv' /\ Keeps(transports, transports')
PROOF
<1>1. PICK u \in TransportRecord :
        /\ transports' = [transports EXCEPT ![i] = u]
        /\ (u.open => transports[i].open) /\ u.epoch = transports[i].epoch
  BY UploaderMoves
<1>2. UNCHANGED <<epoch, recoveries, orphaned, gate, torn, written>>
  BY DEF Post, Posted, PostFails, Superseded, InitFails, InitAccepted, ghosts, bounds
<1>3. Keeps(transports, transports')
  BY <1>1, OneTransportLemma DEF IInv, Types
<1>4. gate' \in [active : BOOLEAN, pending : Seq(Items)] /\ written' \in Nat
  BY <1>2 DEF IInv, Types
<1>. QED  BY <1>2, <1>3, <1>4, QuietLemma

\* The connection, and what is written.
LEMMA WriteKeeps == ASSUME IInv, Write PROVE Keeps(transports, transports')
PROOF
<1>1. /\ transports \in Seq(TransportRecord) /\ Current \in DOMAIN transports
      /\ transports[Current] \in TransportRecord
  BY TransportTypes DEF IInv, Types
<1>2. CASE gate.active
  BY <1>1, <1>2 DEF Write, Keeps
<1>3. CASE ~gate.active
  <2>1. transports' = [transports EXCEPT ![Current] = Given(transports[Current], <<written + 1>>)]
    BY <1>1, <1>3 DEF Write
  <2>2. <<written + 1>> \in Seq(Items)
    BY BridgeConstants DEF Write, IInv, Types, Items, Messages
  <2>. DEFINE u == Given(transports[Current], <<written + 1>>)
  <2>3. u \in TransportRecord /\ u.open = transports[Current].open
        /\ u.epoch = transports[Current].epoch
    BY <1>1, <2>2, GivenLemma
  <2>. HIDE DEF u
  <2>4. transports' = [transports EXCEPT ![Current] = u]
    BY <2>1 DEF u
  <2>5. Keeps(transports, [transports EXCEPT ![Current] = u])
    BY <1>1, <2>3, OneTransportLemma
  <2>. QED  BY <2>4, <2>5
<1>. QED  BY <1>2, <1>3

LEMMA WriteLemma ==
  ASSUME IInv, Write \/ \E i \in DOMAIN transports : OnConnect(i)
  PROVE  IInv'
PROOF
<1>1. /\ transports \in Seq(TransportRecord) /\ gate.pending \in Seq(Items)
      /\ gate \in [active : BOOLEAN, pending : Seq(Items)]
      /\ Current \in DOMAIN transports /\ transports[Current] \in TransportRecord
      /\ \A i \in DOMAIN transports : transports[i] \in TransportRecord
      /\ <<>> \in Seq(Items) /\ <<History>> \in Seq(Items)
  BY TransportTypes DEF IInv, Types
<1>2. ASSUME NEW t \in TransportRecord, t.open = transports[Current].open,
             t.epoch = transports[Current].epoch
      PROVE  Keeps(transports, [transports EXCEPT ![Current] = t])
  BY <1>1, <1>2, OneTransportLemma
<1>3. CASE Write
  <2>1. UNCHANGED <<epoch, recoveries, orphaned, torn>>
    BY <1>3 DEF Write, ghosts
  <2>2. written' \in Nat /\ written + 1 \in Items
    BY <1>3, BridgeConstants DEF Write, IInv, Types, Items, Messages
  <2>3. CASE gate.active
    <3>1. gate' = [gate EXCEPT !.pending = Append(gate.pending, written + 1)]
          /\ UNCHANGED transports
      BY <1>3, <2>3 DEF Write
    <3>2. Append(gate.pending, written + 1) \in Seq(Items)
      BY <1>1, <2>2
    <3>3. gate' \in [active : BOOLEAN, pending : Seq(Items)]
      BY <1>1, <3>1, <3>2
    <3>4. Keeps(transports, transports')
      BY <1>1, <3>1 DEF Keeps
    <3>. QED  BY <2>1, <2>2, <3>3, <3>4, QuietLemma
  <2>4. CASE ~gate.active
    <3>1. transports' = [transports EXCEPT ![Current] = Given(transports[Current], <<written + 1>>)]
          /\ UNCHANGED gate
      BY <1>1, <1>3, <2>4 DEF Write
    <3>2. <<written + 1>> \in Seq(Items)
      BY <2>2
    <3>3. Keeps(transports, transports')
      BY <1>1, <1>2, <3>1, <3>2, GivenLemma
    <3>. QED  BY <1>1, <2>1, <2>2, <3>1, <3>3, QuietLemma
  <2>. QED  BY <2>3, <2>4
<1>4. ASSUME NEW i \in DOMAIN transports, OnConnect(i)  PROVE IInv'
  <2>1. UNCHANGED <<epoch, recoveries, orphaned, torn, written>>
    BY <1>4 DEF OnConnect, ghosts, bounds
  <2>10. gate' \in [active : BOOLEAN, pending : Seq(Items)] /\ written' \in Nat
    <3>1. gate' = gate \/ gate' = GateOpen
      BY <1>4 DEF OnConnect
    <3>2. written' \in Nat
      BY <2>1 DEF IInv, Types
    <3>. QED  BY <1>1, <3>1, <3>2, GateLemma
  <2>2. Flushed \in TransportRecord /\ Flushed.open = transports[Current].open
        /\ Flushed.epoch = transports[Current].epoch
    BY <1>1, GivenLemma DEF Flushed
  <2>3. FlushedAndDrained \in TransportRecord
        /\ FlushedAndDrained.open = transports[Current].open
        /\ FlushedAndDrained.epoch = transports[Current].epoch
    BY <1>1, <2>2, GivenLemma DEF FlushedAndDrained, Drained
  <2>4. PICK ts : /\ Keeps(transports, ts)
                  /\ transports' = [ts EXCEPT ![i].init = "ok"]
    <3>1. Keeps(transports, transports)
      BY <1>1 DEF Keeps
    <3>2. Keeps(transports, [transports EXCEPT ![Current] = Flushed])
      BY <1>2, <2>2
    <3>3. Keeps(transports, [transports EXCEPT ![Current] = FlushedAndDrained])
      BY <1>2, <2>3
    <3>. QED  BY <1>4, <3>1, <3>2, <3>3 DEF OnConnect
  <2>5. i \in DOMAIN ts /\ ts \in Seq(TransportRecord) /\ ts[i] \in TransportRecord
    BY <1>1, <2>4 DEF Keeps
  <2>6. [ts[i] EXCEPT !.init = "ok"] \in TransportRecord
        /\ [ts[i] EXCEPT !.init = "ok"].open = ts[i].open
        /\ [ts[i] EXCEPT !.init = "ok"].epoch = ts[i].epoch
    BY <2>5 DEF TransportRecord
  <2>7. transports' = [ts EXCEPT ![i] = [ts[i] EXCEPT !.init = "ok"]]
    BY <2>4, <2>5
  <2>8. Keeps(ts, transports')
    BY <2>5, <2>6, <2>7, OneTransportLemma
  <2>9. Keeps(transports, transports')
    BY <1>1, <2>4, <2>5, <2>8 DEF Keeps
  <2>. QED  BY <2>1, <2>9, <2>10, QuietLemma
<1>. QED  BY <1>3, <1>4
\* The current transport is closed.
LEMMA ClosesLemma ==
  ASSUME IInv
  PROVE  /\ Keeps(transports, [transports EXCEPT ![Current] = Closed(@)])
         /\ Keeps(transports, transports)
         /\ ~[transports EXCEPT ![Current] = Closed(@)][Current].open
PROOF
<1>1. /\ transports \in Seq(TransportRecord) /\ Current \in DOMAIN transports
      /\ transports[Current] \in TransportRecord
  BY TransportTypes DEF IInv, Types
<1>2. Closed(transports[Current]) \in TransportRecord
      /\ ~Closed(transports[Current]).open
      /\ Closed(transports[Current]).epoch = transports[Current].epoch
  BY <1>1, ClosedLemma
<1>3. Keeps(transports, [transports EXCEPT ![Current] = Closed(transports[Current])])
  BY <1>1, <1>2, OneTransportLemma
<1>4. Keeps(transports, transports)
  BY <1>1 DEF Keeps
<1>. QED  BY <1>1, <1>2, <1>3, <1>4

\* The read stream is closed, the refresh timer fires, the bridge is torn down.
LEMMA BeginLemma ==
  ASSUME IInv, (\E b \in BOOLEAN : SseCloses(b)) \/ RefreshDue \/ Teardown \/ Archived
  PROVE  IInv'
PROOF
<1>1. /\ inFlight \in BOOLEAN /\ written \in Nat
      /\ gate \in [active : BOOLEAN, pending : Seq(Items)]
      /\ torn \in {"no", "archiving", "done"}
      /\ recovery \in [Kinds -> {"idle", "oauth", "fetch", "fetched"}]
  BY DEF IInv, Types
<1>2. ~inFlight => \A k \in Kinds : recovery[k] = "idle"
  BY DEF IInv, OneRecovery
<1>3. ASSUME NEW k \in Kinds, NEW s \in {"oauth", "fetch"}, ~inFlight,
             recovery' = [recovery EXCEPT ![k] = s], Claims
      PROVE  /\ inFlight' \in BOOLEAN /\ OneRecovery'
             /\ recovery' \in [Kinds -> {"idle", "oauth", "fetch", "fetched"}]
             /\ \A l \in Kinds : recovery[l] = "fetched" => recovery'[l] = "fetched"
  <2>1. /\ recovery'[k] = s /\ recovery[k] = "idle"
        /\ \A l \in Kinds \ {k} : recovery'[l] = "idle"
    BY <1>1, <1>2, <1>3
  <2>2. OneRecovery'
    BY <1>3, <2>1 DEF OneRecovery, Claims
  <2>3. recovery' \in [Kinds -> {"idle", "oauth", "fetch", "fetched"}]
    BY <1>1, <1>3
  <2>. QED  BY <1>2, <1>3, <2>2, <2>3 DEF Claims
<1>4. ASSUME NEW b \in BOOLEAN, SseCloses(b)  PROVE IInv'
  <2>1. /\ transports' = [transports EXCEPT ![Current] = Closed(@)]
        /\ UNCHANGED <<epoch, gate, torn, written, orphaned>>
    BY <1>4 DEF SseCloses, ghosts
  <2>2. Keeps(transports, transports')
    BY <2>1, ClosesLemma
  <2>3. CASE UNCHANGED recoveries
    BY <1>1, <2>1, <2>2, <2>3, QuietLemma
  <2>4. CASE ~inFlight /\ recovery' = [recovery EXCEPT !["auth"] = "oauth"] /\ Claims
             /\ UNCHANGED creds
    <3>1. "auth" \in Kinds
      BY DEF Kinds
    <3>. QED  BY <1>1, <1>3, <2>1, <2>2, <2>4, <3>1, KeepsLemma
  <2>. QED  BY <1>4, <2>3, <2>4 DEF SseCloses, recoveries
<1>5. CASE RefreshDue
  <2>1. /\ UNCHANGED <<epoch, transports, gate, torn, creds, written, orphaned>> /\ ~inFlight
        /\ recovery' = [recovery EXCEPT !["proactive"] = "fetch"] /\ Claims
    BY <1>5 DEF RefreshDue, ghosts, bounds, bridge
  <2>2. "proactive" \in Kinds /\ Keeps(transports, transports')
    BY <2>1, ClosesLemma DEF Kinds
  <2>. QED  BY <1>1, <1>3, <2>1, <2>2, KeepsLemma
<1>6. ASSUME UNCHANGED <<epoch, recoveries, orphaned, written>>,
             gate' = gate \/ gate' = GateOpen,
             \/ torn' = "archiving" /\ torn = "no" /\ UNCHANGED transports
             \/ torn' = "done" /\ transports' = [transports EXCEPT ![Current] = Closed(@)]
      PROVE  IInv'
  <2>1. Keeps(transports, transports')
    BY <1>6, ClosesLemma
  <2>2. /\ UNCHANGED <<inFlight, recovery, creds>> /\ OneRecovery'
        /\ gate' \in [active : BOOLEAN, pending : Seq(Items)]
    BY <1>1, <1>6, GateLemma DEF recoveries, IInv, OneRecovery
  <2>3. torn' = "done" => ~Open'
    <3>1. torn' = "done" => ~transports'[Current].open
      BY <1>6, ClosesLemma
    <3>2. Current' = Current
      BY <2>1 DEF Keeps, Current
    <3>. QED  BY <3>1, <3>2 DEF Open
  <2>. QED  BY <1>1, <1>6, <2>1, <2>2, <2>3, KeepsLemma
<1>7. CASE Teardown \/ Archived
  BY <1>6, <1>7 DEF Teardown, Archived, bounds, ghosts
<1>. QED  BY <1>4, <1>5, <1>7
\* When a recovery ends, none is left and nobody holds credentials.
LEMMA EndsLemma ==
  ASSUME IInv, NEW k \in Kinds, recovery[k] # "idle", Ends(k)
  PROVE  /\ inFlight' = FALSE /\ OneRecovery'
         /\ recovery' \in [Kinds -> {"idle", "oauth", "fetch", "fetched"}]
         /\ creds' \in [Kinds -> Nat] /\ \A l \in Kinds : creds'[l] = None
PROOF
<1>1. /\ recovery \in [Kinds -> {"idle", "oauth", "fetch", "fetched"}]
      /\ creds \in [Kinds -> Nat] /\ None \in Nat
  BY DEF IInv, Types, None
<1>2. \A l \in Kinds \ {k} : recovery[l] = "idle" /\ creds[l] = None
  BY DEF IInv, OneRecovery, FreshCredentials
<1>3. /\ recovery' \in [Kinds -> {"idle", "oauth", "fetch", "fetched"}]
      /\ creds' \in [Kinds -> Nat]
  BY <1>1 DEF Ends
<1>4. \A l \in Kinds : recovery'[l] = "idle" /\ creds'[l] = None
  BY <1>1, <1>2 DEF Ends
<1>. QED  BY <1>3, <1>4 DEF Ends, OneRecovery

\* The token and the credentials.
LEMMA FetchLemma ==
  ASSUME IInv, OAuth \/ \E k \in Kinds : Fetch(k)
  PROVE  IInv'
PROOF
<1>1. /\ inFlight \in BOOLEAN /\ written \in Nat /\ epoch \in Nat
      /\ gate \in [active : BOOLEAN, pending : Seq(Items)]
      /\ torn \in {"no", "archiving", "done"} /\ creds \in [Kinds -> Nat]
      /\ recovery \in [Kinds -> {"idle", "oauth", "fetch", "fetched"}]
  BY DEF IInv, Types
<1>2. CASE OAuth
  <2>1. /\ UNCHANGED <<epoch, transports, gate, torn, written, orphaned>>
        /\ "auth" \in Kinds /\ recovery["auth"] = "oauth"
    BY <1>2 DEF OAuth, bounds, ghosts, Kinds
  <2>2. Keeps(transports, transports')
    BY <2>1, ClosesLemma
  <2>3. CASE recovery' = [recovery EXCEPT !["auth"] = "fetch"] /\ UNCHANGED <<inFlight, creds>>
    <3>1. /\ recovery' \in [Kinds -> {"idle", "oauth", "fetch", "fetched"}]
          /\ recovery'["auth"] = "fetch"
          /\ \A l \in Kinds \ {"auth"} : recovery'[l] = recovery[l]
      BY <1>1, <2>1, <2>3
    <3>2. OneRecovery'
      BY <2>1, <2>3, <3>1 DEF IInv, OneRecovery
    <3>. QED  BY <1>1, <2>1, <2>2, <2>3, <3>1, <3>2, KeepsLemma
  <2>4. CASE Ends("auth")
    <3>1. /\ inFlight' = FALSE /\ OneRecovery'
          /\ recovery' \in [Kinds -> {"idle", "oauth", "fetch", "fetched"}]
          /\ creds' \in [Kinds -> Nat] /\ \A l \in Kinds : creds'[l] = None
      BY <2>1, <2>4, EndsLemma
    <3>2. \A l \in Kinds : recovery[l] # "fetched" /\ creds[l] = None
      BY <2>1 DEF IInv, OneRecovery, FreshCredentials
    <3>3. UNCHANGED creds
      BY <1>1, <3>1, <3>2
    <3>. QED  BY <1>1, <2>1, <2>2, <3>1, <3>2, <3>3, KeepsLemma
  <2>. QED  BY <1>2, <2>3, <2>4 DEF OAuth
<1>3. ASSUME NEW k \in Kinds, Fetch(k)  PROVE IInv'
  <2>1. /\ UNCHANGED <<transports, gate, torn, written, inFlight>>
        /\ recovery[k] = "fetch" /\ recovery' = [recovery EXCEPT ![k] = "fetched"]
    BY <1>3 DEF Fetch, bridge, bounds
  <2>2. /\ recovery' \in [Kinds -> {"idle", "oauth", "fetch", "fetched"}]
        /\ recovery'[k] = "fetched" /\ \A l \in Kinds \ {k} : recovery'[l] = recovery[l]
    BY <1>1, <2>1
  <2>3. OneRecovery'
    BY <2>1, <2>2 DEF IInv, OneRecovery
  <2>4. \A l \in Kinds : creds[l] = None
    BY <2>1 DEF IInv, OneRecovery, FreshCredentials
  <2>5. CASE epoch' = epoch + 1 /\ creds' = [creds EXCEPT ![k] = epoch + 1] /\ UNCHANGED orphaned
    <3>1. /\ creds' \in [Kinds -> Nat] /\ creds'[k] = epoch + 1 /\ epoch' \in Nat
          /\ \A l \in Kinds \ {k} : creds'[l] = None
      BY <1>1, <2>4, <2>5
    <3>2. FreshCredentials'
      BY <2>2, <2>5, <3>1 DEF FreshCredentials
    <3>3. FreshTransport'
      BY <1>1, <3>1 DEF FreshTransport, None
    <3>. QED
      BY <1>1, <2>1, <2>2, <2>3, <3>1, <3>2, <3>3
         DEF IInv, Types, Replaced, Closes, Open, Current
  <2>6. CASE epoch' = epoch + 1 /\ orphaned' = TRUE /\ UNCHANGED creds
    BY <1>1, <2>1, <2>2, <2>3, <2>4, <2>6
       DEF IInv, Types, FreshCredentials, FreshTransport, Replaced, Closes, Open, Current
  <2>7. CASE UNCHANGED <<epoch, creds, orphaned>>
    BY <1>1, <2>1, <2>2, <2>3, <2>4, <2>7
       DEF IInv, Types, FreshCredentials, FreshTransport, Replaced, Closes, Open, Current
  <2>. QED  BY <1>3, <2>5, <2>6, <2>7 DEF Fetch
<1>. QED  BY <1>2, <1>3

\* A recovery ends without a new transport.
LEMMA GiveUpLemma ==
  ASSUME IInv, NEW k \in Kinds, RebuildFails(k) \/ GiveUp(k)
  PROVE  IInv'
PROOF
<1>1. /\ recovery[k] = "fetched" /\ Ends(k) /\ UNCHANGED <<epoch, torn, written>>
      /\ gate' \in {gate, GateOpen}
      /\ transports' \in {transports, [transports EXCEPT ![Current] = Closed(@)]}
  <2>1. CASE RebuildFails(k)
    BY <2>1 DEF RebuildFails, bounds
  <2>2. CASE GiveUp(k)
    BY <2>2 DEF GiveUp, bounds
  <2>. QED  BY <2>1, <2>2
<1>2. /\ inFlight' = FALSE /\ OneRecovery'
      /\ recovery' \in [Kinds -> {"idle", "oauth", "fetch", "fetched"}]
      /\ creds' \in [Kinds -> Nat] /\ \A l \in Kinds : creds'[l] = None
  BY <1>1, EndsLemma
<1>3. Keeps(transports, transports')
  BY <1>1, ClosesLemma
<1>4. /\ DOMAIN transports' = DOMAIN transports /\ transports' \in Seq(TransportRecord)
      /\ transports' # <<>> /\ Current' = Current /\ Current \in DOMAIN transports
  BY <1>3, TransportTypes DEF IInv, Types, Current, Keeps
<1>5. Types'
  BY <1>1, <1>2, <1>4, GateLemma DEF IInv, Types
<1>6. FreshCredentials'
  BY <1>2 DEF FreshCredentials
<1>7. FreshTransport'
  <2>1. CASE RebuildFails(k)
    BY <2>1 DEF RebuildFails, FreshTransport
  <2>2. CASE GiveUp(k)
    <3>1. ~orphaned' => ~orphaned /\ creds[k] = None
      BY <2>2 DEF GiveUp
    <3>2. \A l \in Kinds \ {k} : creds[l] = None
      BY <1>1 DEF IInv, OneRecovery, FreshCredentials
    <3>3. UNCHANGED transports
      BY <2>2 DEF GiveUp
    <3>. QED  BY <1>1, <1>4, <3>1, <3>2, <3>3 DEF IInv, FreshTransport, Open
  <2>. QED  BY <2>1, <2>2
<1>8. Replaced' /\ Closes'
  BY <1>1, <1>3, <1>4 DEF IInv, Replaced, Closes, Open, Keeps
<1>. QED  BY <1>2, <1>5, <1>6, <1>7, <1>8 DEF IInv

\* The transport that is built has the credentials' epoch, which is the latest.
LEMMA RebuildLemma ==
  ASSUME IInv, NEW k \in Kinds, Rebuild(k)
  PROVE  IInv'
PROOF
<1>. DEFINE ts == [transports EXCEPT ![Current] = Closed(@)]
            new == Given(Transport(creds[k]), gate.pending)
<1>1. /\ recovery[k] = "fetched" /\ creds[k] # None /\ torn = "no" /\ Ends(k)
      /\ gate' = GateOpen /\ UNCHANGED <<epoch, torn, written, orphaned>>
      /\ transports' = Append(ts, new)
  BY DEF Rebuild, Usable, TornDown, Rebuilt, NewEpoch, IInv, Types, bounds, ghosts
<1>2. /\ inFlight' = FALSE /\ OneRecovery'
      /\ recovery' \in [Kinds -> {"idle", "oauth", "fetch", "fetched"}]
      /\ creds' \in [Kinds -> Nat] /\ \A l \in Kinds : creds'[l] = None
  BY <1>1, EndsLemma
<1>3. creds[k] = epoch /\ epoch \in Nat
  BY <1>1 DEF IInv, FreshCredentials, Types
<1>4. new \in TransportRecord /\ new.epoch = epoch
  <2>1. Transport(creds[k]) \in TransportRecord /\ Transport(creds[k]).epoch = epoch
    <3>1. <<>> \in Seq(Items)
      OBVIOUS
    <3>. QED  BY <1>3, <3>1 DEF Transport, TransportRecord
  <2>2. gate.pending \in Seq(Items)
    BY DEF IInv, Types
  <2>. QED  BY <2>1, <2>2, GivenLemma
<1>5. Keeps(transports, ts) /\ ~ts[Current].open /\ ts \in Seq(TransportRecord)
  BY ClosesLemma DEF Keeps
<1>. HIDE DEF ts, new
<1>6. /\ transports' \in Seq(TransportRecord) /\ transports' # <<>>
      /\ Len(transports') = Len(ts) + 1 /\ transports'[Len(ts) + 1] = new
      /\ \A i \in 1..Len(ts) : transports'[i] = ts[i]
  BY <1>1, <1>4, <1>5, AppendProperties
<1>7. Current' = Len(ts) + 1 /\ Len(ts) = Current /\ Current \in Nat
      /\ DOMAIN transports' = 1..(Current + 1) /\ DOMAIN transports = 1..Current
  BY <1>5, <1>6, TransportTypes DEF Current, Keeps
<1>8. Types'
  BY <1>1, <1>2, <1>3, <1>6, GateLemma DEF IInv, Types
<1>9. FreshCredentials' /\ FreshTransport'
  BY <1>1, <1>2, <1>4, <1>6, <1>7 DEF FreshCredentials, FreshTransport
<1>10. Replaced'
  BY <1>5, <1>6, <1>7 DEF IInv, Replaced, Keeps
<1>11. Closes'
  BY <1>1 DEF Closes
<1>. QED  BY <1>2, <1>8, <1>9, <1>10, <1>11 DEF IInv

-----------------------------------------------------------------------------
\* The invariant is inductive.
THEOREM Inductive == Spec => []IInv
PROOF
<1>1. Init => IInv
  BY InitLemma
<1>2. IInv /\ [Next]_vars => IInv'
  <2>. SUFFICES ASSUME IInv, [Next]_vars PROVE IInv'
    OBVIOUS
  <2>1. CASE UNCHANGED vars
    <3>1. /\ UNCHANGED <<epoch, recoveries, orphaned, torn, gate, written>>
          /\ UNCHANGED transports
      BY <2>1 DEF vars, bridge, ghosts, bounds
    <3>2. Keeps(transports, transports') /\ written' \in Nat
          /\ gate' \in [active : BOOLEAN, pending : Seq(Items)]
      BY <3>1, ClosesLemma DEF IInv, Types
    <3>. QED  BY <3>1, <3>2, QuietLemma
  <2>2. ASSUME NEW i \in DOMAIN transports,
               Post(i) \/ Posted(i) \/ PostFails(i) \/ Superseded(i) \/ InitFails(i)
                 \/ InitAccepted(i)
        PROVE  IInv'
    BY <2>2, UploaderLemma
  <2>3. CASE Write \/ \E i \in DOMAIN transports : OnConnect(i)
    BY <2>3, WriteLemma
  <2>4. CASE (\E b \in BOOLEAN : SseCloses(b)) \/ RefreshDue \/ Teardown \/ Archived
    BY <2>4, BeginLemma
  <2>5. CASE OAuth \/ \E k \in Kinds : Fetch(k)
    BY <2>5, FetchLemma
  <2>6. ASSUME NEW k \in Kinds, Rebuild(k)  PROVE IInv'
    BY <2>6, RebuildLemma
  <2>7. ASSUME NEW k \in Kinds, RebuildFails(k) \/ GiveUp(k)  PROVE IInv'
    BY <2>7, GiveUpLemma
  <2>. QED
    BY <2>1, <2>2, <2>3, <2>4, <2>5, <2>6, <2>7 DEF Next
<1>. QED  BY <1>1, <1>2, PTL DEF Spec

\* Whichever of a 401 and the refresh timer starts a recovery, and however many
\* epochs they cost, the open transport ends up with the latest one.
THEOREM EpochIsLatest == Spec => []LatestEpoch
PROOF
<1>1. IInv => LatestEpoch
  BY DEF IInv, FreshCredentials, FreshTransport, LatestEpoch
<1>. QED  BY <1>1, Inductive, PTL

\* After teardown no transport is open, however many were built before and
\* whatever recovery was under way.
THEOREM NothingOpenAfterTeardown == Spec => []TornDownCloses
PROOF
<1>1. IInv => TornDownCloses
  BY DEF IInv, Replaced, Closes, TornDownCloses, Open
<1>. QED  BY <1>1, Inductive, PTL

-----------------------------------------------------------------------------
\* Sequences of messages in the order in which they were written; late says that
\* the history, once, may come behind messages.
Rising(s, late) ==
  \A i, j \in DOMAIN s :
    i < j => s[i] < s[j] \/ (late /\ s[j] = History /\ s[i] # History)

\* After the messages that the server has, and those it will skip.
Behind(s, r, late) ==
  \A m \in ToSet(s) : \/ m \in ToSet(r) \/ (late /\ m = History)
                      \/ \A n \in ToSet(r) : n < m

InLine(s, r, late) == s \in Seq(Items) /\ Rising(s, late) /\ Behind(s, r, late)

\* m may come before n.
Before(m, n, late) == m < n \/ (late /\ n = History /\ m # History)

LEMMA ConcatSet ==
  ASSUME NEW s \in Seq(Items), NEW t \in Seq(Items)
  PROVE  s \o t \in Seq(Items) /\ ToSet(s \o t) = ToSet(s) \cup ToSet(t)
PROOF
<1>1. /\ s \o t \in Seq(Items) /\ Len(s \o t) = Len(s) + Len(t)
      /\ \A i \in 1..(Len(s) + Len(t)) : (s \o t)[i] = IF i <= Len(s) THEN s[i] ELSE t[i - Len(s)]
  BY ConcatProperties
<1>2. /\ DOMAIN (s \o t) = 1..(Len(s) + Len(t)) /\ DOMAIN s = 1..Len(s) /\ DOMAIN t = 1..Len(t)
      /\ Len(s) \in Nat /\ Len(t) \in Nat
  BY <1>1
<1>. DEFINE st == s \o t
<1>. HIDE DEF st
<1>3. \A i \in 1..Len(s) : i \in DOMAIN st /\ st[i] = s[i]
  BY <1>1, <1>2 DEF st
<1>4. \A j \in 1..Len(t) : Len(s) + j \in DOMAIN st /\ st[Len(s) + j] = t[j]
  BY <1>1, <1>2 DEF st
<1>5. \A k \in DOMAIN st : \/ k \in 1..Len(s) /\ st[k] = s[k]
                           \/ k - Len(s) \in 1..Len(t) /\ st[k] = t[k - Len(s)]
  BY <1>1, <1>2 DEF st
<1>6. ToSet(st) = ToSet(s) \cup ToSet(t)
  BY <1>2, <1>3, <1>4, <1>5 DEF ToSet
<1>. QED  BY <1>1, <1>6 DEF st

\* One after the other.
LEMMA RisingConcat ==
  ASSUME NEW s \in Seq(Items), NEW t \in Seq(Items), NEW late
  PROVE  Rising(s \o t, late)
           <=> /\ Rising(s, late) /\ Rising(t, late)
               /\ \A m \in ToSet(s), n \in ToSet(t) : Before(m, n, late)
PROOF
<1>1. /\ s \o t \in Seq(Items) /\ Len(s \o t) = Len(s) + Len(t)
      /\ \A i \in 1..(Len(s) + Len(t)) : (s \o t)[i] = IF i <= Len(s) THEN s[i] ELSE t[i - Len(s)]
  BY ConcatProperties
<1>2. /\ DOMAIN (s \o t) = 1..(Len(s) + Len(t)) /\ DOMAIN s = 1..Len(s) /\ DOMAIN t = 1..Len(t)
      /\ Len(s) \in Nat /\ Len(t) \in Nat
  BY <1>1
<1>. DEFINE st == s \o t
<1>. HIDE DEF st
<1>3. \A i \in 1..Len(s) : i \in DOMAIN st /\ st[i] = s[i]
  BY <1>1, <1>2 DEF st
<1>4. \A j \in 1..Len(t) : Len(s) + j \in DOMAIN st /\ st[Len(s) + j] = t[j]
  BY <1>1, <1>2 DEF st
<1>5. \A k \in DOMAIN st : \/ k \in 1..Len(s) /\ st[k] = s[k]
                           \/ k - Len(s) \in 1..Len(t) /\ st[k] = t[k - Len(s)]
  BY <1>1, <1>2 DEF st
<1>6. /\ \A i \in 1..Len(s) : s[i] \in ToSet(s) /\ \A j \in 1..Len(t) : t[j] \in ToSet(t)
      /\ \A m \in ToSet(s) : \E i \in 1..Len(s) : m = s[i]
      /\ \A m \in ToSet(t) : \E j \in 1..Len(t) : m = t[j]
  BY <1>2 DEF ToSet
<1>7. ASSUME Rising(s, late), Rising(t, late),
             \A m \in ToSet(s), n \in ToSet(t) : Before(m, n, late)
      PROVE  Rising(st, late)
  <2>. SUFFICES ASSUME NEW i \in DOMAIN st, NEW j \in DOMAIN st, i < j
                PROVE  Before(st[i], st[j], late)
    BY DEF Rising, Before
  <2>0. i \in 1..(Len(s) + Len(t)) /\ j \in 1..(Len(s) + Len(t))
    BY <1>2 DEF st
  <2>1. CASE j \in 1..Len(s) /\ st[j] = s[j]
    <3>1. i \in 1..Len(s) /\ st[i] = s[i]
      BY <1>3, <2>0, <2>1
    <3>. QED  BY <1>2, <1>7, <2>1, <3>1 DEF Rising, Before
  <2>2. CASE i \in 1..Len(s) /\ st[i] = s[i] /\ j - Len(s) \in 1..Len(t) /\ st[j] = t[j - Len(s)]
    <3>1. st[i] \in ToSet(s) /\ st[j] \in ToSet(t)
      BY <1>2, <2>2 DEF ToSet
    <3>. QED  BY <1>7, <3>1
  <2>3. CASE /\ i - Len(s) \in 1..Len(t) /\ st[i] = t[i - Len(s)]
             /\ j - Len(s) \in 1..Len(t) /\ st[j] = t[j - Len(s)]
    <3>1. i - Len(s) < j - Len(s)
      BY <1>2, <2>0
    <3>. QED  BY <1>2, <1>7, <2>3, <3>1 DEF Rising, Before
  <2>. QED  BY <1>2, <1>5, <2>0, <2>1, <2>2, <2>3
<1>8. ASSUME Rising(st, late)
      PROVE  /\ Rising(s, late) /\ Rising(t, late)
             /\ \A m \in ToSet(s), n \in ToSet(t) : Before(m, n, late)
  <2>1. Rising(s, late)
    BY <1>2, <1>3, <1>8 DEF Rising
  <2>2. Rising(t, late)
    <3>. SUFFICES ASSUME NEW i \in 1..Len(t), NEW j \in 1..Len(t), i < j
                  PROVE  Before(t[i], t[j], late)
      BY <1>2 DEF Rising, Before
    <3>1. Len(s) + i < Len(s) + j
      BY <1>2
    <3>. QED  BY <1>4, <1>8, <3>1 DEF Rising, Before
  <2>3. ASSUME NEW m \in ToSet(s), NEW n \in ToSet(t)  PROVE Before(m, n, late)
    <3>1. PICK i \in 1..Len(s) : m = s[i]
      BY <1>6
    <3>2. PICK j \in 1..Len(t) : n = t[j]
      BY <1>6
    <3>3. i < Len(s) + j
      BY <1>2
    <3>. QED  BY <1>3, <1>4, <1>8, <3>1, <3>2, <3>3 DEF Rising, Before
  <2>. QED  BY <2>1, <2>2, <2>3
<1>. QED  BY <1>7, <1>8 DEF st

\* Of a sequence in order, what passes a test is in order.
LEMMA RisingKeep ==
  ASSUME NEW s \in Seq(Items), NEW T, NEW late, Rising(s, late)
  PROVE  Rising(Keep(s, T), late)
PROOF
<1>. DEFINE r == Keep(s, T)
<1>1. r \in Seq(Items)
  BY KeepPicks
<1>2. PICK h : Picks(s, T, r, Len(s), h)
  BY KeepPicks
<1>. HIDE DEF r
<1>3. DOMAIN r = 1..Len(r) /\ DOMAIN s = 1..Len(s)
  BY <1>1
<1>4. /\ \A i \in 1..Len(r) : h[i] \in 1..Len(s) /\ r[i] = s[h[i]]
      /\ \A i, j \in 1..Len(r) : i < j => h[i] < h[j]
  BY <1>2 DEF Picks
<1>5. Rising(r, late)
  BY <1>3, <1>4 DEF Rising
<1>. QED  BY <1>5 DEF r

\* The server takes the batch f of a transport that is left with b.
LEMMA AcceptedLemma ==
  ASSUME NEW r \in Seq(Items), NEW f \in Seq(Items), NEW b \in Seq(Items), NEW late,
         Rising(r, late), InLine(f \o b, r, late)
  PROVE  LET q == Accepted(r, f)
         IN /\ q \in Seq(Items) /\ Rising(q, late) /\ ToSet(q) = ToSet(r) \cup ToSet(f)
            /\ InLine(f \o b, q, late) /\ InLine(b, q, late)
PROOF
<1>. DEFINE new == Keep(f, Items \ ToSet(r))
            q == Accepted(r, f)
<1>1. \A n \in 0..Len(f) : n # 0 => (f[n] \notin ToSet(r) <=> f[n] \in Items \ ToSet(r))
  OBVIOUS
<1>2. q = r \o new
  BY <1>1 DEF Accepted, Filter, Keep
<1>3. new \in Seq(Items) /\ ToSet(new) = ToSet(f) \cap (Items \ ToSet(r))
  BY KeepSet
<1>4. ToSet(f) \subseteq Items /\ ToSet(r) \subseteq Items /\ ToSet(b) \subseteq Items
  BY DEF ToSet
<1>5. Rising(f, late) /\ Rising(b, late) /\ \A m \in ToSet(f), n \in ToSet(b) : Before(m, n, late)
  BY RisingConcat DEF InLine
<1>6. Rising(new, late)
  BY <1>5, RisingKeep
<1>. HIDE DEF new, q
<1>7. q \in Seq(Items) /\ ToSet(q) = ToSet(r) \cup ToSet(f)
  BY <1>2, <1>3, <1>4, ConcatSet
<1>8. ToSet(f \o b) = ToSet(f) \cup ToSet(b)
  BY ConcatSet
<1>9. Rising(q, late)
  <2>1. ASSUME NEW m \in ToSet(r), NEW n \in ToSet(new)  PROVE Before(m, n, late)
    <3>1. n \in ToSet(f \o b) /\ n \notin ToSet(r)
      BY <1>3, <1>8
    <3>2. m # n
      BY <3>1
    <3>. QED  BY <3>1, <3>2 DEF InLine, Behind, Before
  <2>. QED  BY <1>2, <1>3, <1>6, <2>1, RisingConcat
<1>10. Behind(f \o b, q, late)
  <2>. SUFFICES ASSUME NEW m \in ToSet(f \o b), m \notin ToSet(q), ~(late /\ m = History),
                       NEW n \in ToSet(q)
                PROVE  n < m
    BY DEF Behind
  <2>1. m \in ToSet(b) /\ m \notin ToSet(r)
    BY <1>7, <1>8
  <2>2. CASE n \in ToSet(r)
    BY <2>1, <2>2 DEF InLine, Behind
  <2>3. CASE n \in ToSet(f)
    BY <1>5, <2>1, <2>3 DEF Before
  <2>. QED  BY <1>7, <2>2, <2>3
<1>11. InLine(f \o b, q, late) /\ InLine(b, q, late)
  BY <1>5, <1>8, <1>10 DEF InLine, Behind
<1>. QED  BY <1>7, <1>9, <1>11 DEF q

\* What is left when the batch or the rest of it is dropped.
LEMMA PartInLine ==
  ASSUME NEW r, NEW f \in Seq(Items), NEW b \in Seq(Items), NEW late, InLine(f \o b, r, late)
  PROVE  /\ InLine(f, r, late) /\ InLine(b, r, late) /\ InLine(<<>>, r, late)
         /\ ToSet(f) \cup ToSet(b) = ToSet(f \o b) /\ ToSet(<<>>) = {}
PROOF
<1>1. Rising(f, late) /\ Rising(b, late) /\ ToSet(f \o b) = ToSet(f) \cup ToSet(b)
  BY RisingConcat, ConcatSet DEF InLine
<1>2. <<>> \in Seq(Items) /\ Rising(<<>>, late) /\ ToSet(<<>>) = {}
  BY DEF Rising, ToSet
<1>. QED  BY <1>1, <1>2 DEF InLine, Behind

-----------------------------------------------------------------------------
\* The history may be late once the transport was rebuilt or torn down.
Late == Current > 1 \/ TornDown
Sent == Unsent(transports[Current])

\* What the server has and what the current transport sends is in order, and the
\* gate holds back all messages until it is opened for good.
Line == received \in Seq(Items) /\ Rising(received, Late) /\ InLine(Sent, received, Late)
Written ==
  /\ \A m \in ToSet(received) \cup ToSet(Sent) : m <= written
  /\ \A i \in DOMAIN gate.pending : gate.pending[i] <= written
Held ==
  /\ gate.pending \in Seq(Messages) /\ (gate.pending # <<>> => gate.active)
  /\ \A i, j \in DOMAIN gate.pending : i < j => gate.pending[i] < gate.pending[j]
  /\ gate.active => ToSet(received) \cup ToSet(Sent) \subseteq {History}

\* A transport is given the history once, and the first one before any message.
HistoryOnce == ~flushed /\ Open => History \notin ToSet(Sent)
HistoryFirst ==
  ~Late /\ ~flushed /\ Open => gate.active /\ ToSet(Sent) = {} /\ ToSet(received) = {}

Order == Line /\ Written /\ Held /\ HistoryOnce /\ HistoryFirst

\* A transport has an epoch of its own, later than those before it; credentials
\* that were fetched are for a later one still.
Epochs ==
  /\ epoch \in 1..MaxEpochs
  /\ \A i \in DOMAIN transports : transports[i].epoch \in i..epoch
  /\ \A i, j \in DOMAIN transports : i < j => transports[i].epoch < transports[j].epoch
  /\ \A k \in Kinds : creds[k] # None => transports[Current].epoch < epoch

\* How the current transport and the gate may change: nothing new is sent.
LEMMA ShrinksLemma ==
  ASSUME IInv, Order, Current' = Current, UNCHANGED <<received, written>>, Late => Late',
         InLine(Sent', received, Late), ToSet(Sent') \subseteq ToSet(Sent), Open' => Open,
         gate' = gate \/ (gate' = GateOpen /\ (Late' \/ ~Open')),
         flushed' = flushed \/ ~Open'
  PROVE  Order'
PROOF
<1>1. Line'
  <2>1. Rising(received, Late') /\ Rising(Sent', Late')
    BY DEF Order, Line, InLine, Rising
  <2>2. Behind(Sent', received, Late')
    BY DEF Order, Line, InLine, Behind
  <2>. QED  BY <2>1, <2>2 DEF Order, Line, InLine
<1>2. gate' = GateOpen => gate'.pending = <<>> /\ ~gate'.active
  BY DEF GateOpen
<1>3. <<>> \in Seq(Messages) /\ DOMAIN <<>> = {}
  OBVIOUS
<1>4. Written'
  BY <1>2, <1>3 DEF Order, Written
<1>5. Held'
  BY <1>2, <1>3 DEF Order, Held
<1>6. HistoryOnce'
  BY DEF Order, HistoryOnce
<1>7. HistoryFirst'
  BY DEF Order, HistoryFirst
<1>. QED  BY <1>1, <1>4, <1>5, <1>6, <1>7 DEF Order

\* A transport of an older epoch is not the current one's.
LEMMA CurrentEpoch ==
  ASSUME IInv, Epochs, NEW i \in DOMAIN transports, transports[i].epoch = epoch
  PROVE  i = Current
PROOF
<1>1. Current \in DOMAIN transports /\ Current \in Nat /\ DOMAIN transports = 1..Current
  BY TransportTypes
<1>2. i < Current => transports[i].epoch < transports[Current].epoch
      /\ transports[Current].epoch <= epoch
  BY <1>1 DEF Epochs
<1>3. transports[i].epoch \in Nat /\ transports[Current].epoch \in Nat /\ epoch \in Nat
  BY <1>1, TransportTypes DEF IInv, Types, TransportRecord
<1>. QED  BY <1>1, <1>2, <1>3

\* Of a step that changes one transport.
LEMMA ChangeLemma ==
  ASSUME IInv, NEW i \in DOMAIN transports, NEW u \in TransportRecord,
         transports' = [transports EXCEPT ![i] = u]
  PROVE  /\ Current' = Current /\ DOMAIN transports' = DOMAIN transports
         /\ transports' \in Seq(TransportRecord)
         /\ \A j \in DOMAIN transports : transports'[j] = IF j = i THEN u ELSE transports[j]
         /\ transports'[Current] = IF Current = i THEN u ELSE transports[Current]
PROOF
<1>1. transports \in Seq(TransportRecord) /\ DOMAIN transports = 1..Len(transports)
      /\ Len(transports) \in Nat /\ Current \in DOMAIN transports
  BY TransportTypes DEF IInv, Types
<1>2. /\ transports' \in Seq(TransportRecord) /\ Len(transports') = Len(transports)
      /\ \A j \in 1..Len(transports) : transports'[j] = IF j = i THEN u ELSE transports[j]
  BY <1>1, ExceptSeq
<1>. QED  BY <1>1, <1>2 DEF Current

LEMMA UploaderOrder ==
  ASSUME IInv, Order, Epochs, NEW i \in DOMAIN transports,
         Post(i) \/ Posted(i) \/ PostFails(i) \/ Superseded(i) \/ InitFails(i) \/ InitAccepted(i)
  PROVE  Order'
PROOF
<1>1. PICK u \in TransportRecord :
        /\ transports' = [transports EXCEPT ![i] = u]
        /\ (u.open => transports[i].open) /\ u.epoch = transports[i].epoch
        /\ Uploads(transports[i], u)
  BY UploaderMoves
<1>2. UNCHANGED <<gate, torn, written, flushed>>
  BY DEF Post, Posted, PostFails, Superseded, InitFails, InitAccepted, bounds
<1>3. /\ Current' = Current /\ (Late' <=> Late)
      /\ transports'[Current] = IF Current = i THEN u ELSE transports[Current]
  BY <1>1, <1>2, ChangeLemma DEF Late, TornDown
<1>4. Open' => Open
  BY <1>1, <1>3 DEF Open
<1>5. /\ InLine(Sent, received, Late) /\ Current \in DOMAIN transports
      /\ \A j \in DOMAIN transports :
           transports[j].flight \in Seq(Items) /\ transports[j].buffer \in Seq(Items)
  BY TransportTypes DEF Order, Line, TransportRecord
<1>6. CASE UNCHANGED received
  <2>1. InLine(Sent', received, Late) /\ ToSet(Sent') \subseteq ToSet(Sent)
    <3>1. CASE i # Current
      BY <1>3, <1>5, <3>1 DEF Sent
    <3>2. CASE i = Current
      <4>. DEFINE t == transports[Current]
      <4>1. Sent' = Unsent(u) /\ Sent = t.flight \o t.buffer
        BY <1>3, <3>2 DEF Sent, Unsent
      <4>2. /\ InLine(t.flight, received, Late) /\ InLine(t.buffer, received, Late)
            /\ InLine(<<>>, received, Late) /\ ToSet(<<>>) = {}
            /\ ToSet(t.flight) \cup ToSet(t.buffer) = ToSet(Sent)
        BY <1>5, <4>1, PartInLine
      <4>3. Sent' \in {Sent, t.flight, t.buffer, <<>>}
        BY <1>1, <3>2, <4>1 DEF Uploads, Unsent
      <4>. QED  BY <1>5, <4>2, <4>3
    <3>. QED  BY <3>1, <3>2
  <2>. QED  BY <1>2, <1>3, <1>4, <1>6, <2>1, ShrinksLemma
<1>7. CASE received' # received
  <2>. DEFINE f == transports[Current].flight
              b == transports[Current].buffer
              q == Accepted(received, f)
  <2>1. i = Current
    BY <1>1, <1>7, CurrentEpoch DEF Uploads
  <2>2. /\ received' = q /\ f # <<>> /\ Sent' \in {Sent, b} /\ Sent = f \o b
        /\ f \in Seq(Items) /\ b \in Seq(Items) /\ received \in Seq(Items)
    BY <1>1, <1>3, <1>5, <1>7, <2>1 DEF Uploads, Sent, Unsent, Order, Line
  <2>3. Rising(received, Late) /\ InLine(f \o b, received, Late)
    BY <1>5, <2>2 DEF Order, Line
  <2>. HIDE DEF f, b
  <2>4. /\ q \in Seq(Items) /\ Rising(q, Late) /\ ToSet(q) = ToSet(received) \cup ToSet(f)
        /\ InLine(f \o b, q, Late) /\ InLine(b, q, Late)
    BY <2>2, <2>3, AcceptedLemma
  <2>5. ToSet(f) \cup ToSet(b) = ToSet(Sent)
    BY <2>2, ConcatSet
  <2>. HIDE DEF q
  <2>6. /\ ToSet(Sent') \subseteq ToSet(Sent)
        /\ ToSet(received') \cup ToSet(Sent') \subseteq ToSet(received) \cup ToSet(Sent)
    BY <2>2, <2>4, <2>5
  <2>7. Line'
    BY <1>3, <2>2, <2>4 DEF Line
  <2>8. Written' /\ Held' /\ HistoryOnce'
    BY <1>2, <1>4, <2>6 DEF Order, Written, Held, HistoryOnce
  <2>9. HistoryFirst'
    <3>1. ToSet(Sent) # {}
      <4>1. f[1] \in ToSet(f)
        BY <2>2 DEF ToSet
      <4>. QED  BY <2>5, <4>1
    <3>. QED  BY <1>2, <1>3, <1>4, <3>1 DEF Order, HistoryFirst
  <2>. QED  BY <2>7, <2>8, <2>9 DEF Order
<1>. QED  BY <1>6, <1>7

\* What is written after everything that is on its way.
LEMMA AppendInLine ==
  ASSUME NEW s \in Seq(Items), NEW p \in Seq(Items), NEW r, NEW late,
         InLine(s, r, late), Rising(p, late),
         \A m \in ToSet(p) : /\ m \in ToSet(r) \/ \A n \in ToSet(r) : Before(n, m, late)
                             /\ \A n \in ToSet(s) : Before(n, m, late)
  PROVE  InLine(s \o p, r, late)
PROOF
<1>1. s \o p \in Seq(Items) /\ ToSet(s \o p) = ToSet(s) \cup ToSet(p)
  BY ConcatSet
<1>2. Rising(s \o p, late)
  BY RisingConcat DEF InLine
<1>3. Behind(s \o p, r, late)
  BY <1>1 DEF InLine, Behind, Before
<1>. QED  BY <1>1, <1>2, <1>3 DEF InLine

LEMMA SeqSet ==
  ASSUME NEW S, NEW T, S \subseteq T, NEW s \in Seq(S)
  PROVE  s \in Seq(T) /\ ToSet(s) \subseteq S /\ DOMAIN s = 1..Len(s) /\ Len(s) \in Nat
PROOF
  BY DEF ToSet

LEMMA Associative ==
  ASSUME NEW f \in Seq(Items), NEW b \in Seq(Items), NEW p \in Seq(Items)
  PROVE  f \o (b \o p) = (f \o b) \o p
PROOF
<1>1. (f \o b) \o p = f \o (b \o p)
  BY ConcatAssociative, SMTT(20)
<1>. QED  BY <1>1

\* writeBatch.
LEMMA GivenUnsent ==
  ASSUME NEW t \in TransportRecord, NEW p \in Seq(Items)
  PROVE  /\ Unsent(t) \in Seq(Items)
         /\ Unsent(Given(t, p)) = IF t.open THEN Unsent(t) \o p ELSE Unsent(t)
         /\ Given(t, p).open = t.open
         /\ (~t.open => Given(t, p) = t)
PROOF
<1>1. t.flight \in Seq(Items) /\ t.buffer \in Seq(Items) /\ t.flight \o t.buffer \in Seq(Items)
  BY DEF TransportRecord
<1>2. t.flight \o (t.buffer \o p) = (t.flight \o t.buffer) \o p
  <2>. DEFINE f == t.flight
              b == t.buffer
  <2>1. f \in Seq(Items) /\ b \in Seq(Items)
    BY <1>1
  <2>. HIDE DEF f, b
  <2>2. f \o (b \o p) = (f \o b) \o p
    BY <2>1, Associative
  <2>. QED  BY <2>2 DEF f, b
<1>. QED  BY <1>1, <1>2 DEF Given, Unsent, TransportRecord

\* Numbers below those that are written.
LEMMA SetTypes ==
  ASSUME IInv, Order
  PROVE  /\ ToSet(received) \subseteq Nat /\ ToSet(Sent) \subseteq Nat /\ written \in Nat
         /\ gate.pending \in Seq(Items) /\ Rising(gate.pending, Late)
         /\ \A m \in ToSet(gate.pending) : m \in Nat /\ m > 0 /\ m <= written
         /\ gate.pending # <<>> => gate.active
         /\ gate.active => ToSet(received) \cup ToSet(Sent) \subseteq {History}
         /\ Sent \in Seq(Items) /\ received \in Seq(Items)
         /\ ToSet(<<>>) = {} /\ ToSet(<<History>>) = {History} /\ Rising(<<History>>, Late)
         /\ <<History>> \in Seq(Items)
PROOF
<1>1. Sent \in Seq(Items) /\ received \in Seq(Items) /\ Items \subseteq Nat /\ Messages \subseteq Items
      /\ History \in Items
  BY BridgeConstants DEF Order, Line, InLine, Items, Messages, History
<1>2. ToSet(received) \subseteq Nat /\ ToSet(Sent) \subseteq Nat
  BY <1>1, SeqSet
<1>3. /\ gate.pending \in Seq(Messages) /\ gate.pending \in Seq(Items)
      /\ DOMAIN gate.pending = 1..Len(gate.pending) /\ ToSet(gate.pending) \subseteq Messages
  <2>1. gate.pending \in Seq(Messages)
    BY Zenon DEF Order, Held
  <2>. QED  BY <1>1, <2>1, SeqSet, Zenon
<1>4. \A m \in ToSet(gate.pending) : m \in Nat /\ m > 0 /\ m <= written
  <2>1. \A m \in ToSet(gate.pending) : m <= written
    <3>1. \A i \in DOMAIN gate.pending : gate.pending[i] <= written
      BY DEF Order, Written
    <3>2. \A m \in ToSet(gate.pending) : \E i \in DOMAIN gate.pending : gate.pending[i] = m
      BY Zenon DEF ToSet
    <3>. QED  BY <3>1, <3>2
  <2>. QED  BY <1>3, <2>1 DEF Messages
<1>5. Rising(gate.pending, Late)
  BY <1>3 DEF Order, Held, Rising
<1>6. ToSet(<<>>) = {}
  BY DEF ToSet
<1>7. ToSet(<<History>>) = {History} /\ DOMAIN <<History>> = {1} /\ <<History>> \in Seq(Items)
  BY <1>1 DEF ToSet
<1>8. Rising(<<History>>, Late)
  BY <1>7 DEF Rising
<1>. QED  BY <1>1, <1>2, <1>3, <1>4, <1>5, <1>6, <1>7, <1>8 DEF Order, Held, IInv, Types

LEMMA WriteOrder == ASSUME IInv, Order, Write PROVE Order'
PROOF
<1>. DEFINE m == written + 1
<1>1. /\ Current \in DOMAIN transports /\ transports[Current] \in TransportRecord
      /\ transports \in Seq(TransportRecord)
  BY TransportTypes DEF IInv, Types
<1>2. /\ written' = m /\ m \in Messages /\ m \in Items /\ UNCHANGED <<received, flushed, torn>>
      /\ <<m>> \in Seq(Items) /\ ToSet(<<m>>) = {m} /\ m \in Nat /\ written \in Nat
      /\ written < m /\ m # History
  <2>1. m \in Messages
    BY BridgeConstants, SetTypes DEF Write, Messages
  <2>2. ToSet(<<m>>) = {m}
    BY DEF ToSet
  <2>. QED  BY <2>1, <2>2, SetTypes, BridgeConstants DEF Write, Items, Messages, History
<1>3. CASE gate.active
  <2>1. /\ UNCHANGED transports /\ gate' = [gate EXCEPT !.pending = Append(gate.pending, m)]
        /\ gate \in [active : BOOLEAN, pending : Seq(Items)]
    BY <1>3 DEF Write, IInv, Types
  <2>2. gate'.active /\ gate'.pending = Append(gate.pending, m)
    BY <1>3, <2>1
  <2>3. Sent' = Sent /\ Open' = Open /\ Late' = Late
    BY <1>2, <2>1 DEF Sent, Open, Late, Current, TornDown
  <2>. HIDE DEF m
  <2>4. /\ gate'.pending \in Seq(Messages) /\ gate.pending \in Seq(Messages)
        /\ DOMAIN gate'.pending = 1..(Len(gate.pending) + 1) /\ Len(gate.pending) \in Nat
        /\ DOMAIN gate.pending = 1..Len(gate.pending)
        /\ gate'.pending[Len(gate.pending) + 1] = m
        /\ \A i \in 1..Len(gate.pending) : gate'.pending[i] = gate.pending[i]
    BY <1>2, <2>2 DEF Order, Held
  <2>11. \A i \in 1..Len(gate.pending) : gate.pending[i] < m /\ gate.pending[i] \in Nat
    <3>1. \A i \in 1..Len(gate.pending) : gate.pending[i] <= written
      BY <2>4 DEF Order, Written
    <3>2. \A i \in 1..Len(gate.pending) : gate.pending[i] \in Messages
      BY <2>4
    <3>. QED  BY <1>2, <3>1, <3>2 DEF Messages
  <2>5. Held'
    <3>1. \A i, j \in DOMAIN gate'.pending : i < j => gate'.pending[i] < gate'.pending[j]
      <4>1. \A i, j \in 1..Len(gate.pending) : i < j => gate.pending[i] < gate.pending[j]
        BY <2>4 DEF Order, Held
      <4>2. \A i \in DOMAIN gate'.pending : i \in 1..Len(gate.pending) \/ i = Len(gate.pending) + 1
        BY <2>4
      <4>3. \A i, j \in DOMAIN gate'.pending :
              i < j => i \in 1..Len(gate.pending)
                       /\ (j \in 1..Len(gate.pending) \/ j = Len(gate.pending) + 1)
        BY <2>4, <4>2
      <4>. QED  BY <2>4, <2>11, <4>1, <4>3
    <3>. QED  BY <1>2, <1>3, <2>2, <2>3, <2>4, <3>1 DEF Order, Held
  <2>6. Written'
    <3>1. \A n \in ToSet(received) \cup ToSet(Sent) : n <= m
      BY <1>2, SetTypes DEF Order, Written
    <3>2. \A i \in DOMAIN gate'.pending : gate'.pending[i] <= m
      BY <1>2, <2>4, <2>11
    <3>. QED  BY <1>2, <2>3, <3>1, <3>2 DEF Written
  <2>7. Line' /\ HistoryOnce' /\ HistoryFirst'
    BY <1>2, <1>3, <2>2, <2>3 DEF Order, Line, HistoryOnce, HistoryFirst
  <2>. QED  BY <2>5, <2>6, <2>7 DEF Order
<1>4. CASE ~gate.active
  <2>. DEFINE u == Given(transports[Current], <<m>>)
  <2>1. UNCHANGED gate /\ transports' = [transports EXCEPT ![Current] = u]
    BY <1>1, <1>4 DEF Write
  <2>2. u \in TransportRecord /\ u.open = transports[Current].open
    BY <1>1, <1>2, GivenLemma
  <2>3. /\ Unsent(u) = IF Open THEN Sent \o <<m>> ELSE Sent
        /\ Sent \in Seq(Items)
    BY <1>1, <1>2, GivenUnsent DEF Open, Sent
  <2>. HIDE DEF u, m
  <2>4. /\ Current' = Current /\ Sent' = Unsent(u) /\ Late' = Late /\ Open' = Open
    BY <1>1, <1>2, <2>1, <2>2, ChangeLemma DEF Sent, Late, TornDown, Open
  <2>5. \A n \in ToSet(received) \cup ToSet(Sent) : n < m /\ n <= m
    BY <1>2, SetTypes DEF Order, Written
  <2>6. InLine(Sent \o <<m>>, received, Late) /\ ToSet(Sent \o <<m>>) = ToSet(Sent) \cup {m}
    <3>1. Rising(<<m>>, Late)
      BY DEF Rising
    <3>2. InLine(Sent, received, Late)
      BY DEF Order, Line
    <3>3. \A n \in ToSet(received) \cup ToSet(Sent) : Before(n, m, Late)
      BY <2>5 DEF Before
    <3>4. ToSet(Sent \o <<m>>) = ToSet(Sent) \cup {m}
      BY <1>2, <2>3, ConcatSet
    <3>5. InLine(Sent \o <<m>>, received, Late)
      BY <1>2, <2>3, <3>1, <3>2, <3>3, AppendInLine
    <3>. QED  BY <3>4, <3>5
  <2>7. Line'
    BY <1>2, <2>3, <2>4, <2>6 DEF Order, Line
  <2>8. Written'
    <3>1. \A i \in DOMAIN gate.pending : gate.pending[i] <= m
      <4>1. \A i \in DOMAIN gate.pending : gate.pending[i] <= written /\ gate.pending[i] \in ToSet(gate.pending)
        BY DEF Order, Written, ToSet
      <4>. QED  BY <1>2, <4>1, SetTypes
    <3>. QED  BY <1>2, <2>1, <2>3, <2>4, <2>5, <2>6, <3>1 DEF Written
  <2>9. Held'
    BY <1>4, <2>1 DEF Order, Held
  <2>10. HistoryOnce' /\ HistoryFirst'
    <3>2. ~Late /\ ~flushed /\ Open => gate.active
      BY DEF Order, HistoryFirst
    <3>. QED  BY <1>2, <1>4, <2>3, <2>4, <2>6, <3>2 DEF Order, HistoryOnce, HistoryFirst
  <2>. QED  BY <2>7, <2>8, <2>9, <2>10 DEF Order
<1>. QED  BY <1>3, <1>4

\* What onConnect makes of the current transport.
Connected(g) ==
  \/ flushed /\ UNCHANGED gate /\ g = transports[Current]
  \/ ~flushed /\ UNCHANGED gate /\ g = Flushed
  \/ ~flushed /\ gate' = GateOpen /\ g = FlushedAndDrained

LEMMA ConnectMoves ==
  ASSUME IInv, Order, NEW i \in DOMAIN transports, OnConnect(i)
  PROVE  \E g \in TransportRecord :
           /\ Connected(g) /\ g.open = Open /\ Sent' = Unsent(g) /\ Open' = Open
           /\ Current' = Current /\ (Late' <=> Late)
           /\ Keeps(transports, transports')
           /\ \A j \in DOMAIN transports :
                /\ transports'[j].open = transports[j].open
                /\ transports'[j].buffer = IF j = Current THEN g.buffer ELSE transports[j].buffer
PROOF
<1>1. /\ transports \in Seq(TransportRecord) /\ gate.pending \in Seq(Items)
      /\ Current \in DOMAIN transports /\ transports[Current] \in TransportRecord
      /\ <<History>> \in Seq(Items)
  BY TransportTypes DEF IInv, Types
<1>2. Flushed \in TransportRecord /\ Flushed.open = Open /\ Flushed.epoch = transports[Current].epoch
  BY <1>1, GivenLemma DEF Flushed, Open
<1>3. /\ FlushedAndDrained \in TransportRecord /\ FlushedAndDrained.open = Open
      /\ FlushedAndDrained.epoch = transports[Current].epoch
  BY <1>1, <1>2, GivenLemma DEF FlushedAndDrained, Drained
<1>4. transports = [transports EXCEPT ![Current] = transports[Current]]
  BY <1>1
<1>5. PICK g \in TransportRecord :
        /\ Connected(g) /\ g.open = Open /\ g.epoch = transports[Current].epoch
        /\ transports' = [[transports EXCEPT ![Current] = g] EXCEPT ![i].init = "ok"]
  <2>1. CASE flushed
    BY <1>1, <1>4, <2>1 DEF OnConnect, Connected, Open
  <2>2. CASE ~flushed
    BY <1>2, <1>3, <2>2 DEF OnConnect, Connected
  <2>. QED  BY <2>1, <2>2
<1>. DEFINE ts == [transports EXCEPT ![Current] = g]
<1>6. /\ ts \in Seq(TransportRecord) /\ Len(ts) = Len(transports) /\ i \in 1..Len(ts)
      /\ DOMAIN transports = 1..Len(transports)
      /\ \A j \in 1..Len(transports) : ts[j] = IF j = Current THEN g ELSE transports[j]
  BY <1>1, ExceptSeq
<1>. DEFINE u == [ts[i] EXCEPT !.init = "ok"]
<1>. HIDE DEF ts
<1>7. /\ u \in TransportRecord /\ u.open = ts[i].open /\ u.epoch = ts[i].epoch
      /\ u.buffer = ts[i].buffer /\ u.flight = ts[i].flight
  <2>1. ts[i] \in TransportRecord
    BY <1>6
  <2>. QED  BY <2>1 DEF TransportRecord
<1>8. transports' = [ts EXCEPT ![i] = u]
  BY <1>5, <1>6 DEF ts
<1>. HIDE DEF u
<1>9. /\ transports' \in Seq(TransportRecord) /\ Len(transports') = Len(ts)
      /\ \A j \in 1..Len(ts) : transports'[j] = IF j = i THEN u ELSE ts[j]
  BY <1>6, <1>7, <1>8, ExceptSeq
<1>10. /\ \A j \in DOMAIN transports :
            /\ transports'[j].open = ts[j].open /\ transports'[j].epoch = ts[j].epoch
            /\ transports'[j].buffer = ts[j].buffer /\ transports'[j].flight = ts[j].flight
  BY <1>6, <1>7, <1>9
<1>11. Current' = Current /\ UNCHANGED torn
  BY <1>6, <1>9 DEF Current, OnConnect
<1>12. /\ transports'[Current].open = g.open
       /\ transports'[Current].buffer = g.buffer /\ transports'[Current].flight = g.flight
  BY <1>1, <1>6, <1>10
<1>13. Sent' = Unsent(g) /\ Open' = Open /\ (Late' <=> Late)
  BY <1>5, <1>11, <1>12 DEF Sent, Unsent, Open, Late, TornDown
<1>14. Keeps(transports, transports')
  BY <1>5, <1>6, <1>9, <1>10 DEF Keeps, Open
<1>15. \A j \in DOMAIN transports :
         /\ transports'[j].open = transports[j].open
         /\ transports'[j].buffer = IF j = Current THEN g.buffer ELSE transports[j].buffer
  BY <1>5, <1>6, <1>10 DEF Open
<1>. QED  BY <1>5, <1>11, <1>13, <1>14, <1>15

\* The history, and then what the gate held.
LEMMA ConnectOrder ==
  ASSUME IInv, Order, NEW i \in DOMAIN transports, OnConnect(i)
  PROVE  Order'
PROOF
<1>1. PICK g \in TransportRecord :
        /\ Connected(g) /\ g.open = Open /\ Sent' = Unsent(g) /\ Open' = Open
        /\ Current' = Current /\ (Late' <=> Late)
  BY ConnectMoves
<1>2. flushed' = TRUE /\ UNCHANGED <<received, written>>
  BY DEF OnConnect, bounds
<1>3. /\ transports[Current] \in TransportRecord /\ InLine(Sent, received, Late)
      /\ Rising(received, Late)
  BY TransportTypes DEF Order, Line
<1>. DEFINE h == Sent \o <<History>>
            hp == h \o gate.pending
<1>4. /\ Unsent(Flushed) = IF Open THEN h ELSE Sent
      /\ Flushed \in TransportRecord /\ Flushed.open = Open
      /\ (~Open => Flushed = transports[Current])
  BY <1>3, SetTypes, GivenUnsent, GivenLemma DEF Flushed, Open, Sent
<1>5. /\ Unsent(FlushedAndDrained) = IF Open THEN hp ELSE Sent
  BY <1>4, SetTypes, GivenUnsent DEF FlushedAndDrained, Drained, Sent
<1>6. CASE flushed \/ ~Open
  <2>1. Sent' = Sent
    BY <1>1, <1>4, <1>5, <1>6 DEF Connected, Sent
  <2>2. gate' = gate \/ (gate' = GateOpen /\ ~Open')
    BY <1>1, <1>6 DEF Connected
  <2>3. flushed' = flushed \/ ~Open'
    BY <1>1, <1>2, <1>6
  <2>. QED  BY <1>1, <1>2, <1>3, <2>1, <2>2, <2>3, ShrinksLemma
<1>7. CASE ~flushed /\ Open
  <2>1. History \notin ToSet(Sent) /\ (Late \/ (ToSet(Sent) = {} /\ ToSet(received) = {}))
    BY <1>7 DEF Order, HistoryOnce, HistoryFirst
  <2>2. InLine(h, received, Late) /\ ToSet(h) = ToSet(Sent) \cup {History} /\ h \in Seq(Items)
    <3>1. /\ History \in ToSet(received) \/ \A n \in ToSet(received) : Before(n, History, Late)
          /\ \A n \in ToSet(Sent) : Before(n, History, Late)
      BY <2>1 DEF Before
    <3>2. /\ Sent \in Seq(Items) /\ <<History>> \in Seq(Items) /\ Rising(<<History>>, Late)
          /\ ToSet(<<History>>) = {History}
      BY SetTypes
    <3>3. InLine(h, received, Late)
      BY <1>3, <3>1, <3>2, AppendInLine
    <3>4. h \in Seq(Items) /\ ToSet(h) = ToSet(Sent) \cup ToSet(<<History>>)
      BY <3>2, ConcatSet
    <3>. QED  BY <3>2, <3>3, <3>4
  <2>3. InLine(hp, received, Late) /\ ToSet(hp) = ToSet(h) \cup ToSet(gate.pending)
    <3>1. ASSUME NEW m \in ToSet(gate.pending)
          PROVE  \A n \in ToSet(received) \cup ToSet(h) : Before(n, m, Late)
      <4>1. gate.pending # <<>>
        BY <3>1, SetTypes
      <4>. QED  BY <2>2, <3>1, <4>1, SetTypes DEF Before, History
    <3>. QED  BY <2>2, <3>1, SetTypes, AppendInLine, ConcatSet
  <2>. HIDE DEF h, hp
  <2>4. \/ Sent' = h /\ UNCHANGED gate
        \/ Sent' = hp /\ gate' = GateOpen
    BY <1>1, <1>4, <1>5, <1>7 DEF Connected
  <2>5. Line'
    <3>1. Rising(received', Late')
      BY <1>1, <1>2, <1>3 DEF Rising
    <3>2. InLine(Sent', received, Late)
      BY <2>2, <2>3, <2>4
    <3>3. InLine(Sent', received', Late')
      BY <1>1, <1>2, <3>2 DEF InLine, Rising, Behind
    <3>. QED  BY <1>2, <3>1, <3>3, SetTypes DEF Line
  <2>6. <<>> \in Seq(Messages) /\ DOMAIN <<>> = {} /\ GateOpen.pending = <<>> /\ ~GateOpen.active
    BY DEF GateOpen
  <2>7. Written'
    <3>1. \A m \in ToSet(received) \cup ToSet(h) \cup ToSet(hp) : m <= written
      BY <2>2, <2>3, SetTypes DEF Order, Written, History
    <3>. QED  BY <1>2, <2>4, <2>6, <3>1 DEF Order, Written
  <2>8. Held'
    BY <1>2, <2>2, <2>4, <2>6 DEF Order, Held
  <2>9. HistoryOnce' /\ HistoryFirst'
    BY <1>2 DEF HistoryOnce, HistoryFirst
  <2>. QED  BY <2>5, <2>7, <2>8, <2>9 DEF Order
<1>. QED  BY <1>6, <1>7

\* The current transport is closed, or nothing happens to the transports.
LEMMA CloseOrder ==
  ASSUME IInv, Order,
         \/ \E b \in BOOLEAN : SseCloses(b)
         \/ Archived
         \/ \E k \in Kinds : RebuildFails(k)
  PROVE  Order'
PROOF
<1>. DEFINE t == transports[Current]
<1>1. /\ t \in TransportRecord /\ Current \in DOMAIN transports /\ <<>> \in Seq(Items)
      /\ transports \in Seq(TransportRecord)
  BY TransportTypes DEF IInv, Types
<1>2. /\ transports' = [transports EXCEPT ![Current] = Closed(t)]
      /\ UNCHANGED <<received, written>> /\ (torn = "no" => torn' = torn) /\ (torn # "no" => torn' # "no")
      /\ gate' \in {gate, GateOpen}
  BY <1>1 DEF SseCloses, Archived, RebuildFails, bounds
<1>3. Closed(t) \in TransportRecord /\ ~Closed(t).open
  BY <1>1, ClosedLemma
<1>4. Current' = Current /\ transports'[Current] = Closed(t)
  BY <1>1, <1>2, <1>3, ChangeLemma
<1>5. (Late => Late') /\ ~Open'
  BY <1>2, <1>3, <1>4 DEF Late, TornDown, Open
<1>6. t.flight \in Seq(Items) /\ t.buffer \in Seq(Items)
  BY <1>1 DEF TransportRecord
<1>7. Sent' = t.flight /\ Sent = t.flight \o t.buffer
  <2>1. Closed(t).flight = t.flight /\ Closed(t).buffer = <<>>
    BY <1>1 DEF Closed, TransportRecord
  <2>2. t.flight \o <<>> = t.flight
    BY <1>6
  <2>. QED  BY <1>4, <2>1, <2>2 DEF Sent, Unsent
<1>. HIDE DEF t
<1>8. InLine(Sent', received, Late) /\ ToSet(Sent') \subseteq ToSet(Sent)
  <2>1. InLine(t.flight \o t.buffer, received, Late)
    BY <1>7 DEF Order, Line
  <2>. QED  BY <1>6, <1>7, <2>1, PartInLine
<1>. QED  BY <1>2, <1>4, <1>5, <1>8, ShrinksLemma

LEMMA QuietOrder ==
  ASSUME IInv, Order,
         \/ RefreshDue \/ Teardown \/ OAuth \/ UNCHANGED vars
         \/ \E k \in Kinds : Fetch(k) \/ GiveUp(k)
  PROVE  Order'
PROOF
<1>1. UNCHANGED <<transports, received, written, flushed>>
  BY DEF RefreshDue, Teardown, OAuth, Fetch, GiveUp, bridge, bounds, vars
<1>2. \/ UNCHANGED <<gate, torn>>
      \/ gate' = GateOpen /\ torn' # "no"
  BY DEF RefreshDue, Teardown, OAuth, Fetch, GiveUp, bridge, vars
<1>3. Current' = Current /\ Sent' = Sent /\ Open' = Open /\ (Late => Late')
  BY <1>1, <1>2 DEF Current, Sent, Open, Late, TornDown
<1>4. torn' # "no" => Late'
  BY DEF Late, TornDown
<1>5. InLine(Sent', received, Late) /\ ToSet(Sent') \subseteq ToSet(Sent)
  BY <1>3 DEF Order, Line
<1>. QED  BY <1>1, <1>2, <1>3, <1>4, <1>5, ShrinksLemma

\* The transport that is built, with the credentials' epoch, has what the gate held.
LEMMA RebuildMoves ==
  ASSUME IInv, NEW k \in Kinds, Rebuild(k)
  PROVE  /\ creds[k] = epoch /\ creds[k] # None /\ Current \in Nat \ {0}
         /\ \A l \in Kinds : creds'[l] = None
         /\ gate' = GateOpen /\ Current' = Current + 1
         /\ DOMAIN transports' = 1..(Current + 1) /\ DOMAIN transports = 1..Current
         /\ transports' \in Seq(TransportRecord)
         /\ transports'[Current + 1] = Given(Transport(epoch), gate.pending)
         /\ Transport(epoch) \in TransportRecord /\ gate.pending \in Seq(Items)
         /\ \A i \in 1..Current :
              /\ transports'[i].epoch = transports[i].epoch /\ ~transports'[i].open
              /\ transports'[i].buffer = IF i = Current THEN <<>> ELSE transports[i].buffer
PROOF
<1>. DEFINE ts == [transports EXCEPT ![Current] = Closed(@)]
            new == Given(Transport(creds[k]), gate.pending)
<1>1. /\ recovery[k] = "fetched" /\ creds[k] # None /\ Ends(k)
      /\ gate' = GateOpen /\ transports' = Append(ts, new)
  BY DEF Rebuild, Usable, Rebuilt, NewEpoch
<1>2. \A l \in Kinds : creds'[l] = None
  BY <1>1, EndsLemma
<1>3. creds[k] = epoch /\ epoch \in Nat
  BY <1>1 DEF IInv, FreshCredentials, Types
<1>4. Transport(epoch) \in TransportRecord /\ gate.pending \in Seq(Items)
  <2>1. <<>> \in Seq(Items)
    OBVIOUS
  <2>. QED  BY <1>3, <2>1 DEF Transport, TransportRecord, IInv, Types
<1>5. new \in TransportRecord
  BY <1>3, <1>4, GivenLemma
<1>6. /\ Current \in DOMAIN transports /\ Current \in Nat \ {0} /\ DOMAIN transports = 1..Current
      /\ \A i \in DOMAIN transports : transports[i] \in TransportRecord
      /\ transports \in Seq(TransportRecord) /\ Len(transports) = Current
  BY TransportTypes DEF IInv, Types, Current
<1>7. Closed(transports[Current]) \in TransportRecord /\ ~Closed(transports[Current]).open
      /\ Closed(transports[Current]).epoch = transports[Current].epoch
      /\ Closed(transports[Current]).buffer = <<>>
  BY <1>6, ClosedLemma DEF Closed, TransportRecord
<1>8. /\ ts \in Seq(TransportRecord) /\ Len(ts) = Current
      /\ \A i \in 1..Current : ts[i] = IF i = Current THEN Closed(transports[Current]) ELSE transports[i]
  BY <1>6, <1>7, ExceptSeq
<1>. HIDE DEF ts, new
<1>9. /\ transports' \in Seq(TransportRecord) /\ Len(transports') = Current + 1
      /\ transports'[Current + 1] = new /\ \A i \in 1..Current : transports'[i] = ts[i]
  BY <1>1, <1>5, <1>8, AppendProperties
<1>10. \A i \in 1..Current :
         /\ ts[i].epoch = transports[i].epoch /\ ~ts[i].open
         /\ ts[i].buffer = IF i = Current THEN <<>> ELSE transports[i].buffer
  BY <1>6, <1>7, <1>8 DEF IInv, Replaced
<1>11. /\ Current' = Current + 1 /\ DOMAIN transports' = 1..(Current + 1)
  BY <1>9 DEF Current
<1>. QED  BY <1>1, <1>2, <1>3, <1>4, <1>6, <1>9, <1>10, <1>11 DEF new

LEMMA RebuildOrder == ASSUME IInv, Order, NEW k \in Kinds, Rebuild(k) PROVE Order'
PROOF
<1>1. /\ Current \in Nat \ {0} /\ gate' = GateOpen /\ Current' = Current + 1
      /\ transports'[Current + 1] = Given(Transport(epoch), gate.pending)
      /\ Transport(epoch) \in TransportRecord /\ gate.pending \in Seq(Items)
  BY RebuildMoves
<1>2. UNCHANGED <<received, written>>
  BY DEF Rebuild, bounds
<1>3. Late' /\ (Late => Late')
  BY <1>1 DEF Late
<1>4. Sent' = gate.pending
  <2>1. /\ Unsent(Transport(epoch)) = <<>> \o <<>> /\ Transport(epoch).open
    BY DEF Unsent, Transport
  <2>2. <<>> \o <<>> = <<>> /\ <<>> \o gate.pending = gate.pending
    BY <1>1
  <2>3. Unsent(Given(Transport(epoch), gate.pending)) = gate.pending
    <3>1. Unsent(Given(Transport(epoch), gate.pending))
            = IF Transport(epoch).open THEN Unsent(Transport(epoch)) \o gate.pending
              ELSE Unsent(Transport(epoch))
      BY <1>1, GivenUnsent
    <3>. QED  BY <2>1, <2>2, <3>1
  <2>4. Sent' = Unsent(transports'[Current'])
    BY DEF Sent, Unsent
  <2>. QED  BY <1>1, <2>3, <2>4
<1>5. InLine(gate.pending, received, TRUE)
  <2>1. Rising(gate.pending, TRUE)
    BY SetTypes DEF Rising
  <2>2. ASSUME NEW m \in ToSet(gate.pending)  PROVE \A n \in ToSet(received) : n < m
    <3>1. gate.pending # <<>>
      BY <2>2, SetTypes
    <3>. QED  BY <2>2, <3>1, SetTypes DEF History
  <2>. QED  BY <1>1, <2>1, <2>2 DEF InLine, Behind
<1>6. Line'
  <2>1. Rising(received, TRUE)
    BY DEF Order, Line, Rising
  <2>. QED  BY <1>2, <1>3, <1>4, <1>5, <2>1, SetTypes DEF Line, Rising, InLine, Behind
<1>7. <<>> \in Seq(Messages) /\ DOMAIN <<>> = {} /\ GateOpen.pending = <<>> /\ ~GateOpen.active
  BY DEF GateOpen
<1>8. Written' /\ Held'
  <2>1. \A m \in ToSet(received) \cup ToSet(gate.pending) : m <= written
    BY SetTypes DEF Order, Written
  <2>. QED  BY <1>1, <1>2, <1>4, <1>7, <2>1 DEF Written, Held
<1>9. HistoryOnce' /\ HistoryFirst'
  BY <1>3, <1>4, SetTypes DEF HistoryOnce, HistoryFirst, History
<1>. QED  BY <1>6, <1>8, <1>9 DEF Order

-----------------------------------------------------------------------------
\* The epochs.
LEMMA EpochsKept ==
  ASSUME IInv, Epochs, Keeps(transports, transports'), UNCHANGED epoch,
         \A k \in Kinds : creds'[k] # None => creds[k] # None
  PROVE  Epochs'
PROOF
<1>1. /\ DOMAIN transports' = DOMAIN transports /\ Current' = Current
      /\ Current \in DOMAIN transports
      /\ \A i \in DOMAIN transports : transports'[i].epoch = transports[i].epoch
  BY TransportTypes DEF Keeps, IInv, Types, Current
<1>. QED  BY <1>1 DEF Epochs

LEMMA FetchEpochs == ASSUME IInv, Epochs, NEW k \in Kinds, Fetch(k) PROVE Epochs'
PROOF
<1>1. /\ UNCHANGED transports /\ Current' = Current /\ Current \in DOMAIN transports
      /\ creds \in [Kinds -> Nat] /\ recovery[k] = "fetch"
  BY TransportTypes DEF Fetch, bridge, Current, IInv, Types
<1>2. CASE epoch < MaxEpochs /\ epoch' = epoch + 1
  <2>1. epoch' \in 1..MaxEpochs /\ epoch < epoch'
    BY <1>2, BridgeConstants DEF Epochs
  <2>2. \A i \in DOMAIN transports :
          transports[i].epoch \in i..epoch' /\ transports[i].epoch < epoch'
    BY <1>2, <2>1, TransportTypes DEF Epochs, IInv, Types
  <2>. QED  BY <1>1, <2>1, <2>2 DEF Epochs
<1>3. CASE UNCHANGED <<epoch, creds>>
  BY <1>1, <1>3 DEF Epochs
<1>. QED  BY <1>2, <1>3 DEF Fetch

LEMMA RebuildEpochs == ASSUME IInv, Epochs, NEW k \in Kinds, Rebuild(k) PROVE Epochs'
PROOF
<1>1. /\ creds[k] # None /\ Current \in Nat \ {0} /\ \A l \in Kinds : creds'[l] = None
      /\ Current' = Current + 1 /\ DOMAIN transports' = 1..(Current + 1)
      /\ DOMAIN transports = 1..Current
      /\ transports'[Current + 1] = Given(Transport(epoch), gate.pending)
      /\ Transport(epoch) \in TransportRecord /\ gate.pending \in Seq(Items)
      /\ \A i \in 1..Current : transports'[i].epoch = transports[i].epoch
  BY RebuildMoves
<1>2. UNCHANGED epoch /\ epoch \in Nat
  BY DEF Rebuild, IInv, Types
<1>3. transports'[Current + 1].epoch = epoch
  <2>1. Transport(epoch).epoch = epoch
    BY DEF Transport
  <2>. QED  BY <1>1, <2>1, GivenLemma
<1>4. transports[Current].epoch < epoch /\ transports[Current].epoch \in Current..epoch
  BY <1>1 DEF Epochs
<1>5. \A i \in 1..Current : transports[i].epoch \in i..epoch /\ transports[i].epoch < epoch
  BY <1>1, <1>2, <1>4 DEF Epochs
<1>6. \A i \in 1..(Current + 1) : i \in 1..Current \/ i = Current + 1
  BY <1>1
<1>7. \A i \in DOMAIN transports' : transports'[i].epoch \in i..epoch
  BY <1>1, <1>2, <1>3, <1>4, <1>5, <1>6
<1>8. \A i, j \in DOMAIN transports' : i < j => transports'[i].epoch < transports'[j].epoch
  <2>. SUFFICES ASSUME NEW i \in 1..(Current + 1), NEW j \in 1..(Current + 1), i < j
                PROVE  transports'[i].epoch < transports'[j].epoch
    BY <1>1
  <2>1. i \in 1..Current
    BY <1>1
  <2>2. CASE j = Current + 1
    BY <1>1, <1>3, <1>5, <2>1, <2>2
  <2>3. CASE j \in 1..Current
    BY <1>1, <2>1, <2>3 DEF Epochs
  <2>. QED  BY <1>6, <2>2, <2>3
<1>. QED  BY <1>1, <1>2, <1>7, <1>8 DEF Epochs

-----------------------------------------------------------------------------
\* A closed transport keeps nothing to send, and what the bounds and flags are.
Emptied == \A i \in DOMAIN transports : ~transports[i].open => transports[i].buffer = <<>>
Rest ==
  /\ flushed \in BOOLEAN /\ state \in {"ready", "connected", "reconnecting", "failed"}
  /\ written \in 0..MaxWrites /\ closes \in 0..MaxCloses
  /\ orphaned \in BOOLEAN /\ gaveUp \in BOOLEAN

\* Of a step that replaces one transport or none.
LEMMA EmptiedLemma ==
  ASSUME IInv, Order, Emptied, [Next]_vars
  PROVE  Emptied'
PROOF
<1>1. UNCHANGED transports => Emptied'
  BY DEF Emptied
<1>2. \A i \in DOMAIN transports, u \in TransportRecord :
        /\ transports' = [transports EXCEPT ![i] = u]
        /\ u.open \/ u.buffer = <<>> \/ (u.buffer = transports[i].buffer /\ ~transports[i].open)
        => Emptied'
  BY ChangeLemma DEF Emptied
<1>3. ASSUME NEW i \in DOMAIN transports,
             Post(i) \/ Posted(i) \/ PostFails(i) \/ Superseded(i) \/ InitFails(i) \/ InitAccepted(i)
      PROVE  Emptied'
  BY <1>2, <1>3, UploaderMoves
<1>4. /\ Current \in DOMAIN transports /\ transports[Current] \in TransportRecord
      /\ \A j \in DOMAIN transports : transports[j] \in TransportRecord
      /\ Closed(transports[Current]) \in TransportRecord
      /\ Closed(transports[Current]).buffer = <<>>
  BY TransportTypes, ClosedLemma DEF Closed, TransportRecord
<1>5. ASSUME NEW i \in DOMAIN transports, OnConnect(i)  PROVE Emptied'
  <2>1. PICK g \in TransportRecord :
          /\ Connected(g) /\ g.open = Open /\ Keeps(transports, transports')
          /\ \A j \in DOMAIN transports :
               /\ transports'[j].open = transports[j].open
               /\ transports'[j].buffer = IF j = Current THEN g.buffer ELSE transports[j].buffer
    BY <1>5, ConnectMoves
  <2>2. DOMAIN transports' = DOMAIN transports
    BY <2>1 DEF Keeps, IInv, Types
  <2>3. ~Open => g.buffer = transports[Current].buffer
    <3>. SUFFICES ASSUME ~Open PROVE g = transports[Current]
      OBVIOUS
    <3>1. Flushed = transports[Current]
      BY DEF Flushed, Given, Open
    <3>2. FlushedAndDrained = transports[Current]
      BY <3>1 DEF FlushedAndDrained, Drained, Given, Open
    <3>. QED  BY <2>1, <3>1, <3>2 DEF Connected
  <2>. QED  BY <2>1, <2>2, <2>3 DEF Emptied, Open
<1>6. ASSUME Write  PROVE Emptied'
  <2>1. CASE gate.active
    BY <1>1, <1>6, <2>1 DEF Write
  <2>2. CASE ~gate.active
    <3>. DEFINE u == Given(transports[Current], <<written + 1>>)
    <3>1. transports' = [transports EXCEPT ![Current] = u]
      BY <1>6, <2>2 DEF Write
    <3>2. <<written + 1>> \in Seq(Items)
      BY <1>6, BridgeConstants, SetTypes DEF Write, Items, Messages
    <3>3. u \in TransportRecord /\ u.open = transports[Current].open
          /\ (~transports[Current].open => u = transports[Current])
      BY <1>4, <3>2, GivenLemma, GivenUnsent
    <3>. HIDE DEF u
    <3>. QED  BY <1>2, <1>4, <3>1, <3>3
  <2>. QED  BY <2>1, <2>2
<1>7. ASSUME \/ \E b \in BOOLEAN : SseCloses(b)
             \/ Archived
             \/ \E k \in Kinds : RebuildFails(k)
      PROVE  Emptied'
  <2>1. transports' = [transports EXCEPT ![Current] = Closed(transports[Current])]
    BY <1>7 DEF SseCloses, Archived, RebuildFails
  <2>. QED  BY <1>2, <1>4, <2>1
<1>8. ASSUME NEW k \in Kinds, Rebuild(k)  PROVE Emptied'
  <2>1. /\ DOMAIN transports' = 1..(Current + 1) /\ DOMAIN transports = 1..Current
        /\ Current \in Nat
        /\ transports'[Current + 1] = Given(Transport(epoch), gate.pending)
        /\ Transport(epoch) \in TransportRecord /\ gate.pending \in Seq(Items)
        /\ \A i \in 1..Current :
             transports'[i].buffer = IF i = Current THEN <<>> ELSE transports[i].buffer
    BY <1>8, RebuildMoves
  <2>2. transports'[Current + 1].open
    <3>1. Transport(epoch).open = TRUE
      BY DEF Transport
    <3>. QED  BY <2>1, <3>1, GivenLemma
  <2>3. \A i \in 1..Current : i # Current => transports[i].buffer = <<>>
    BY <2>1 DEF Emptied, IInv, Replaced
  <2>4. \A i \in 1..(Current + 1) : i \in 1..Current \/ i = Current + 1
    BY <2>1
  <2>. QED  BY <2>1, <2>2, <2>3, <2>4 DEF Emptied
<1>9. RefreshDue \/ OAuth \/ Teardown \/ UNCHANGED vars \/ (\E k \in Kinds : Fetch(k) \/ GiveUp(k))
      => Emptied'
  BY <1>1 DEF RefreshDue, OAuth, Teardown, Fetch, GiveUp, bridge, vars
<1>. QED  BY <1>3, <1>5, <1>6, <1>7, <1>8, <1>9 DEF Next

LEMMA RestLemma == ASSUME Rest, [Next]_vars PROVE Rest'
PROOF
<1>. DEFINE States == {"ready", "connected", "reconnecting", "failed"}
<1>1. flushed' \in BOOLEAN
  BY DEF Rest, Next, Post, Posted, PostFails, Superseded, InitFails, InitAccepted, OnConnect, Write,
     RefreshDue, OAuth, Teardown, Archived, SseCloses, Fetch, Rebuild, RebuildFails, GiveUp,
     bridge, vars
<1>2. state' \in States
  <2>1. Failed \in States
    BY DEF Failed, Rest
  <2>. HIDE DEF States
  <2>2. {"ready", "connected", "reconnecting", "failed"} \subseteq States /\ state \in States
    BY DEF States, Rest
  <2>. QED
    BY <2>1, <2>2 DEF Next, Post, Posted, PostFails, Superseded, InitFails, InitAccepted, OnConnect,
       Write, RefreshDue, OAuth, Teardown, Archived, SseCloses, Fetch, Rebuild, RebuildFails, GiveUp,
       bridge, vars
<1>3. written' \in 0..MaxWrites
  <2>1. UNCHANGED written \/ (written < MaxWrites /\ written' = written + 1)
    BY DEF Next, Post, Posted, PostFails, Superseded, InitFails, InitAccepted, OnConnect, Write,
       RefreshDue, OAuth, Teardown, Archived, SseCloses, Fetch, Rebuild, RebuildFails, GiveUp,
       bounds, vars
  <2>. QED  BY <2>1, BridgeConstants DEF Rest
<1>4. closes' \in 0..MaxCloses
  <2>1. UNCHANGED closes \/ (closes < MaxCloses /\ closes' = closes + 1)
    BY DEF Next, Post, Posted, PostFails, Superseded, InitFails, InitAccepted, OnConnect, Write,
       RefreshDue, OAuth, Teardown, Archived, SseCloses, Fetch, Rebuild, RebuildFails, GiveUp,
       bounds, vars
  <2>. QED  BY <2>1, BridgeConstants DEF Rest
<1>5. orphaned' \in BOOLEAN /\ gaveUp' \in BOOLEAN
  BY DEF Rest, Next, Post, Posted, PostFails, Superseded, InitFails, InitAccepted, OnConnect, Write,
     RefreshDue, OAuth, Teardown, Archived, SseCloses, Fetch, Rebuild, RebuildFails, GiveUp,
     ghosts, vars
<1>. QED  BY <1>1, <1>2, <1>3, <1>4, <1>5 DEF Rest

AllInv == IInv /\ Order /\ Epochs /\ Emptied /\ Rest

LEMMA InitAll == Init => Order /\ Epochs /\ Emptied /\ Rest
PROOF
<1>. SUFFICES ASSUME Init PROVE Order /\ Epochs /\ Emptied /\ Rest
  OBVIOUS
<1>1. /\ transports = <<Transport(1)>> /\ DOMAIN transports = {1} /\ Current = 1
      /\ transports[Current] = Transport(1) /\ transports[1] = Transport(1)
  BY DEF Init, Current
<1>2. /\ <<>> \in Seq(Items) /\ <<>> \in Seq(Messages) /\ <<>> \o <<>> = <<>> /\ ToSet(<<>>) = {}
      /\ DOMAIN <<>> = {} /\ Rising(<<>>, Late)
  BY DEF ToSet, Rising
<1>3. Sent = <<>> /\ received = <<>> /\ gate.pending = <<>> /\ gate.active = TRUE /\ ~flushed
  BY <1>1, <1>2 DEF Sent, Unsent, Transport, Init, InitialGate
<1>4. Order
  BY <1>2, <1>3 DEF Order, Line, InLine, Behind, Written, Held, HistoryOnce, HistoryFirst
<1>5. Transport(1).epoch = 1 /\ Transport(1).buffer = <<>> /\ epoch = 1
  BY DEF Transport, Init
<1>6. Epochs
  BY <1>1, <1>5, BridgeConstants DEF Epochs, Init
<1>7. Emptied
  BY <1>1, <1>5 DEF Emptied
<1>8. Rest
  <2>1. 0 \in 0..MaxWrites /\ 0 \in 0..MaxCloses
    BY BridgeConstants
  <2>. QED  BY <2>1 DEF Rest, Init
<1>. QED  BY <1>4, <1>6, <1>7, <1>8

LEMMA OrderStep == ASSUME IInv, Order, Epochs, [Next]_vars PROVE Order'
PROOF
<1>1. ASSUME NEW i \in DOMAIN transports,
             Post(i) \/ Posted(i) \/ PostFails(i) \/ Superseded(i) \/ InitFails(i) \/ InitAccepted(i)
      PROVE  Order'
  BY <1>1, UploaderOrder
<1>2. ASSUME NEW i \in DOMAIN transports, OnConnect(i)  PROVE Order'
  BY <1>2, ConnectOrder
<1>3. ASSUME NEW k \in Kinds, Rebuild(k)  PROVE Order'
  BY <1>3, RebuildOrder
<1>4. Write => Order'
  BY WriteOrder
<1>. QED  BY <1>1, <1>2, <1>3, <1>4, CloseOrder, QuietOrder DEF Next

LEMMA EpochsStep == ASSUME IInv, Order, Epochs, [Next]_vars PROVE Epochs'
PROOF
<1>1. ASSUME NEW i \in DOMAIN transports,
             Post(i) \/ Posted(i) \/ PostFails(i) \/ Superseded(i) \/ InitFails(i) \/ InitAccepted(i)
      PROVE  Epochs'
  <2>1. UNCHANGED <<epoch, creds>>
    BY <1>1 DEF Post, Posted, PostFails, Superseded, InitFails, InitAccepted, recoveries
  <2>. QED  BY <1>1, <2>1, UploaderLemma, EpochsKept
<1>2. ASSUME NEW i \in DOMAIN transports, OnConnect(i)  PROVE Epochs'
  <2>1. UNCHANGED <<epoch, creds>>
    BY <1>2 DEF OnConnect, recoveries
  <2>. QED  BY <1>2, <2>1, ConnectMoves, EpochsKept
<1>3. ASSUME Write  PROVE Epochs'
  <2>1. UNCHANGED <<epoch, creds>> /\ Keeps(transports, transports')
    BY <1>3, WriteKeeps DEF Write, recoveries
  <2>. QED  BY <2>1, EpochsKept
<1>4. ASSUME \/ \E b \in BOOLEAN : SseCloses(b)
             \/ Archived \/ RefreshDue \/ OAuth \/ Teardown \/ UNCHANGED vars
             \/ \E k \in Kinds : RebuildFails(k) \/ GiveUp(k)
      PROVE  Epochs'
  <2>1. transports' \in {transports, [transports EXCEPT ![Current] = Closed(@)]}
    BY <1>4 DEF SseCloses, Archived, RefreshDue, OAuth, Teardown, RebuildFails, GiveUp, bridge, vars
  <2>2. UNCHANGED epoch
    BY <1>4 DEF SseCloses, Archived, RefreshDue, OAuth, Teardown, RebuildFails, GiveUp, vars
  <2>3. UNCHANGED creds \/ \E k \in Kinds : creds' = [creds EXCEPT ![k] = None]
    BY <1>4 DEF SseCloses, Archived, RefreshDue, OAuth, Teardown, RebuildFails, GiveUp, Ends,
       recoveries, vars, Kinds
  <2>4. \A k \in Kinds : creds'[k] # None => creds[k] # None
    BY <2>3 DEF IInv, Types
  <2>. QED  BY <2>1, <2>2, <2>4, ClosesLemma, EpochsKept
<1>. QED  BY <1>1, <1>2, <1>3, <1>4, FetchEpochs, RebuildEpochs DEF Next

THEOREM AllInductive == Spec => []AllInv
PROOF
<1>1. Init => Order /\ Epochs /\ Emptied /\ Rest
  BY InitAll
<1>2. IInv /\ Order /\ Epochs /\ Emptied /\ Rest /\ [Next]_vars
        => Order' /\ Epochs' /\ Emptied' /\ Rest'
  BY OrderStep, EpochsStep, EmptiedLemma, RestLemma
<1>. QED  BY <1>1, <1>2, Inductive, PTL DEF Spec, AllInv

\* Whatever was recovered, retried or refused, the server has the messages in the
\* order in which they were written, each once.
THEOREM OrderKept == Spec => []ServerOrder
PROOF
<1>1. AllInv => ServerOrder
  BY DEF AllInv, Order, Line, Rising, Late, ServerOrder
<1>. QED  BY <1>1, AllInductive, PTL

\* Transports, gate, recoveries and bounds are what they are declared to be: the
\* server has each event once, there are as many transports as epochs at most,
\* and neither a closed transport nor an open gate holds messages back.
THEOREM TypesAreKept == Spec => []TypeOK
PROOF
<1>1. AllInv => TypeOK
  <2>. SUFFICES ASSUME AllInv PROVE TypeOK
    OBVIOUS
  <2>1. received \in Seq(Items) /\ IsInjective(received)
    <3>1. received \in Seq(Items) /\ Rising(received, Late) /\ ToSet(received) \subseteq Nat
          /\ DOMAIN received = 1..Len(received) /\ \A i \in DOMAIN received : received[i] \in Nat
      <4>1. received \in Seq(Items) /\ Items \subseteq Nat
        BY BridgeConstants, SetTypes DEF AllInv, Items, Messages, History
      <4>2. ToSet(received) \subseteq Items /\ DOMAIN received = 1..Len(received)
        BY <4>1, SeqSet
      <4>3. \A i \in DOMAIN received : received[i] \in Nat
        BY <4>1, <4>2 DEF ToSet
      <4>4. Rising(received, Late)
        BY DEF AllInv, Order, Line
      <4>. QED  BY <4>1, <4>2, <4>3, <4>4
    <3>2. ASSUME NEW i \in DOMAIN received, NEW j \in DOMAIN received, i < j
          PROVE  received[i] # received[j]
      BY <3>1, <3>2 DEF Rising
    <3>. QED  BY <3>1, <3>2 DEF IsInjective
  <2>2. Len(transports) \in 1..MaxEpochs
    <3>1. /\ Current \in DOMAIN transports /\ Current \in Nat \ {0}
          /\ transports[Current].epoch \in Current..epoch /\ epoch \in 1..MaxEpochs
      BY TransportTypes DEF AllInv, Epochs
    <3>. QED  BY <3>1, BridgeConstants DEF Current
  <2>3. \A i \in DOMAIN transports :
          /\ transports[i].epoch \in 1..epoch /\ transports[i].open \in BOOLEAN
          /\ transports[i].init \in {"sent", "accepted", "ok", "failed"}
          /\ transports[i].buffer \in Seq(Items) /\ transports[i].flight \in Seq(Items)
          /\ ~transports[i].open => transports[i].buffer = <<>>
    <3>1. \A i \in DOMAIN transports : transports[i] \in TransportRecord
      BY TransportTypes DEF AllInv
    <3>2. \A i \in DOMAIN transports : i \in Nat /\ i >= 1 /\ transports[i].epoch \in i..epoch
      BY TransportTypes DEF AllInv, Epochs
    <3>3. \A i \in DOMAIN transports : ~transports[i].open => transports[i].buffer = <<>>
      BY DEF AllInv, Emptied
    <3>4. epoch \in Nat
      BY DEF AllInv, IInv, Types
    <3>. QED  BY <3>1, <3>2, <3>3, <3>4 DEF TransportRecord
  <2>4. creds \in [Kinds -> 0..MaxEpochs]
    <3>1. \A k \in Kinds : creds[k] = 0 \/ creds[k] = epoch
      BY DEF AllInv, IInv, FreshCredentials, None
    <3>2. creds \in [Kinds -> Nat] /\ epoch \in 1..MaxEpochs
      BY DEF AllInv, IInv, Types, Epochs
    <3>3. \A k \in Kinds : creds[k] \in 0..MaxEpochs
      BY <3>1, <3>2, BridgeConstants
    <3>. QED  BY <3>2, <3>3
  <2>5. gate.active \in BOOLEAN /\ gate.pending \in Seq(Messages)
        /\ (gate.pending # <<>> => gate.active)
    BY DEF AllInv, IInv, Types, Order, Held
  <2>. QED
    BY <2>1, <2>2, <2>3, <2>4, <2>5 DEF AllInv, IInv, Types, Epochs, Rest, TypeOK
<1>. QED  BY <1>1, AllInductive, PTL

-----------------------------------------------------------------------------
(* What GateOpens rests on: somebody is left to open the gate.             *)

\* Messages wait behind the gate only for a recovery that is under way or for the
\* first connection of the transport; else the bridge has said that it failed, or a
\* proactive refresh has given up.
GateTended ==
  gate.active =>
    \/ \E k \in Kinds : recovery[k] # "idle"
    \/ ~flushed /\ transports[Current].init \in {"sent", "accepted"}
    \/ state = "failed" \/ gaveUp

\* The flag is held by a recovery, and teardown opens the gate.
Flag == inFlight => \E k \in Kinds : recovery[k] # "idle"
GateInUse == gate.active => ~TornDown
Tended == GateTended /\ Flag /\ GateInUse

\* Steps that open the gate, or leave it and the recoveries.
LEMMA OpensTended ==
  ASSUME IInv, Tended, ~gate'.active, Flag'
  PROVE  Tended'
PROOF
  BY DEF Tended, GateTended, GateInUse

LEMMA LeavesTended ==
  ASSUME IInv, Tended, gate'.active = gate.active,
         UNCHANGED <<recovery, inFlight, torn, gaveUp>>,
         \/ state' = state /\ UNCHANGED flushed /\ Current' = Current
              /\ (transports[Current].init \in {"sent", "accepted"}
                    => transports'[Current].init \in {"sent", "accepted"})
         \/ state' = Failed
  PROVE  Tended'
PROOF
<1>1. Flag' /\ GateInUse'
  BY DEF Tended, Flag, GateInUse, TornDown
<1>2. GateTended'
  BY DEF Tended, GateTended, GateInUse, Failed
<1>. QED  BY <1>1, <1>2 DEF Tended

\* The requests of a transport.
LEMMA UploaderTended ==
  ASSUME IInv, Tended, NEW i \in DOMAIN transports,
         Post(i) \/ Posted(i) \/ PostFails(i) \/ Superseded(i) \/ InitFails(i) \/ InitAccepted(i)
  PROVE  Tended'
PROOF
<1>0. /\ transports \in Seq(TransportRecord) /\ Current \in DOMAIN transports
      /\ \A j \in DOMAIN transports : transports[j] \in TransportRecord
  BY TransportTypes DEF IInv, Types
<1>1. UNCHANGED <<gate, recovery, inFlight, torn, gaveUp>>
  BY DEF Post, Posted, PostFails, Superseded, InitFails, InitAccepted, recoveries, ghosts
<1>2. CASE Superseded(i) \/ InitFails(i)
  BY <1>1, <1>2, LeavesTended DEF Superseded, InitFails
<1>3. CASE Post(i) \/ Posted(i) \/ PostFails(i) \/ InitAccepted(i)
  <2>1. state' = state /\ flushed' = flushed
    BY <1>3 DEF Post, Posted, PostFails, InitAccepted
  <2>2. Keeps(transports, transports')
    BY <1>3, UploaderLemma
  <2>3. Current' = Current
    BY <2>2 DEF Keeps, Current
  <2>4. /\ \A j \in DOMAIN transports \ {i} : transports'[j].init = transports[j].init
        /\ transports'[i].init = transports[i].init \/ transports'[i].init = "accepted"
    <3>1. CASE Post(i)
      BY <1>0, <3>1 DEF Post, TransportRecord
    <3>2. CASE Posted(i)
      BY <1>0, <3>2 DEF Posted, TransportRecord
    <3>3. CASE PostFails(i)
      BY <1>0, <3>3 DEF PostFails, TransportRecord
    <3>4. CASE InitAccepted(i)
      BY <1>0, <3>4 DEF InitAccepted, TransportRecord
    <3>. QED  BY <1>3, <3>1, <3>2, <3>3, <3>4
  <2>. QED  BY <1>0, <1>1, <2>1, <2>3, <2>4, LeavesTended
<1>. QED  BY <1>2, <1>3

LEMMA ConnectTended ==
  ASSUME IInv, Tended, NEW i \in DOMAIN transports, OnConnect(i)
  PROVE  Tended'
PROOF
<1>1. UNCHANGED <<recovery, inFlight, torn, gaveUp>> /\ flushed'
  BY DEF OnConnect, recoveries, ghosts
<1>2. Flag'
  BY <1>1 DEF Tended, Flag
<1>3. CASE gate' = GateOpen
  BY <1>2, <1>3, OpensTended DEF GateOpen
<1>4. CASE gate' # GateOpen
  <2>1. gate' = gate /\ (flushed \/ TornDown \/ inFlight)
    BY <1>4 DEF OnConnect
  <2>2. gate.active => state' = state
    BY <1>4 DEF OnConnect
  <2>3. GateInUse'
    BY <1>1, <2>1 DEF Tended, GateInUse, TornDown
  <2>4. GateTended'
    BY <1>1, <2>1, <2>2 DEF Tended, GateTended, GateInUse, Flag
  <2>. QED  BY <1>2, <2>3, <2>4 DEF Tended
<1>. QED  BY <1>3, <1>4

\* A recovery begins, goes on or ends.
LEMMA RecoveryTended ==
  ASSUME IInv, Tended,
         \/ RefreshDue \/ OAuth \/ (\E b \in BOOLEAN : SseCloses(b))
         \/ \E k \in Kinds : Fetch(k) \/ Rebuild(k) \/ RebuildFails(k) \/ GiveUp(k)
  PROVE  Tended'
PROOF
<1>0. /\ recovery \in [Kinds -> {"idle", "oauth", "fetch", "fetched"}]
      /\ Kinds = {"auth", "proactive"}
  BY DEF IInv, Types, Kinds
<1>1. ASSUME NEW k \in Kinds, Ends(k)  PROVE Flag'
  BY <1>1 DEF Ends, Flag
<1>2. CASE RefreshDue
  <2>1. recovery'["proactive"] = "fetch" /\ gate' = gate /\ torn' = torn
    BY <1>0, <1>2 DEF RefreshDue, bridge
  <2>. QED  BY <1>0, <2>1 DEF Tended, GateTended, GateInUse, Flag, TornDown
<1>3. CASE OAuth
  <2>1. gate' = gate /\ torn' = torn
    BY <1>3 DEF OAuth
  <2>2. CASE Ends("auth") /\ state' = Failed
    <3>1. Flag'
      BY <1>0, <1>1, <2>2
    <3>. QED  BY <2>1, <2>2, <3>1 DEF Tended, GateTended, GateInUse, Failed, TornDown
  <2>3. CASE recovery' = [recovery EXCEPT !["auth"] = "fetch"]
    <3>1. recovery'["auth"] = "fetch"
      BY <1>0, <2>3
    <3>. QED  BY <1>0, <2>1, <3>1 DEF Tended, GateTended, GateInUse, Flag, TornDown
  <2>. QED  BY <1>3, <2>2, <2>3 DEF OAuth
<1>4. ASSUME NEW b \in BOOLEAN, SseCloses(b)  PROVE Tended'
  <2>1. gate' = gate /\ torn' = torn
    BY <1>4 DEF SseCloses
  <2>2. CASE TornDown
    <3>1. UNCHANGED <<inFlight, recovery>> /\ ~gate'.active
      BY <1>4, <2>1, <2>2 DEF SseCloses, recoveries, Tended, GateInUse
    <3>. QED  BY <3>1, OpensTended DEF Tended, Flag
  <2>3. CASE ~TornDown /\ recovery' = [recovery EXCEPT !["auth"] = "oauth"]
    <3>1. recovery'["auth"] = "oauth"
      BY <1>0, <2>3
    <3>. QED  BY <1>0, <2>1, <3>1 DEF Tended, GateTended, GateInUse, Flag, TornDown
  <2>4. CASE state' = "failed" /\ UNCHANGED recoveries
    BY <2>1, <2>4 DEF recoveries, Tended, GateTended, GateInUse, Flag, TornDown
  <2>. QED  BY <1>4, <2>2, <2>3, <2>4 DEF SseCloses
<1>5. ASSUME NEW k \in Kinds, Fetch(k)  PROVE Tended'
  <2>1. recovery'[k] = "fetched" /\ gate' = gate /\ torn' = torn
    BY <1>0, <1>5 DEF Fetch, bridge
  <2>. QED  BY <2>1 DEF Tended, GateTended, GateInUse, Flag, TornDown
<1>6. ASSUME NEW k \in Kinds, Rebuild(k) \/ RebuildFails(k)  PROVE Tended'
  <2>1. Ends(k) /\ ~gate'.active
    BY <1>6 DEF Rebuild, RebuildFails, Rebuilt, GateOpen
  <2>. QED  BY <1>1, <2>1, OpensTended
<1>7. ASSUME NEW k \in Kinds, GiveUp(k)  PROVE Tended'
  <2>1. Flag' /\ gate' = gate /\ torn' = torn
    BY <1>1, <1>7 DEF GiveUp
  <2>2. (k = "auth" /\ state' = Failed) \/ gaveUp'
    BY <1>0, <1>7 DEF GiveUp
  <2>. QED  BY <2>1, <2>2 DEF Tended, GateTended, GateInUse, Failed, TornDown
<1>. QED  BY <1>2, <1>3, <1>4, <1>5, <1>6, <1>7

LEMMA TendedStep == ASSUME IInv, Tended, [Next]_vars PROVE Tended'
PROOF
<1>1. CASE UNCHANGED vars
  BY <1>1 DEF vars, bridge, recoveries, ghosts, Tended, GateTended, GateInUse, Flag, TornDown, Current
<1>2. CASE Write
  <2>1. /\ UNCHANGED <<recovery, inFlight, torn, gaveUp, state, flushed>>
        /\ gate'.active = gate.active
        /\ gate.active => transports' = transports
    BY <1>2 DEF Write, recoveries, ghosts, IInv, Types
  <2>. QED  BY <2>1 DEF Tended, GateTended, GateInUse, Flag, TornDown, Current
<1>3. CASE Teardown
  <2>1. ~gate'.active /\ UNCHANGED <<recovery, inFlight>>
    BY <1>3 DEF Teardown, GateOpen, recoveries
  <2>. QED  BY <2>1, OpensTended DEF Tended, Flag
<1>4. CASE Archived
  <2>1. ~gate'.active /\ UNCHANGED <<recovery, inFlight>>
    BY <1>4 DEF Archived, recoveries, Tended, GateInUse, TornDown
  <2>. QED  BY <2>1, OpensTended DEF Tended, Flag
<1>. QED
  BY <1>1, <1>2, <1>3, <1>4, UploaderTended, ConnectTended, RecoveryTended DEF Next

\* For any number of closed streams, refreshes and transports, and for connections
\* that end during a recovery: messages are not left behind a gate that nobody will
\* open, unless the bridge has failed or a refresh has given up (onConnect, its
\* flush, the end of the recoveries and teardown).
THEOREM SomebodyOpensTheGate == Spec => []GateTended
PROOF
<1>1. Init => Tended
  <2>. SUFFICES ASSUME Init  PROVE Tended
    OBVIOUS
  <2>1. transports = <<Transport(1)>> /\ Current = 1 /\ transports[1].init = "sent"
    BY DEF Init, Current, Transport
  <2>. QED  BY <2>1 DEF Init, Tended, GateTended, Flag, GateInUse, TornDown
<1>2. IInv /\ Tended /\ [Next]_vars => Tended'
  BY TendedStep
<1>3. Tended => GateTended
  BY DEF Tended
<1>. QED  BY <1>1, <1>2, <1>3, Inductive, PTL DEF Spec
=============================================================================
