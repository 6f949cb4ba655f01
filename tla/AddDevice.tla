------------------------------ MODULE AddDevice ------------------------------
(***************************************************************************)
(* The multi-device protocol of Meemaw: a new device calls RegisterDevice, *)
(* a device that already holds a share calls AcceptDevice, and the two     *)
(* websocket handlers of the server (RegisterDeviceHandler and             *)
(* AcceptDeviceHandler) run the add-share process with both and store the  *)
(* new peer.  Sources: server/tss_add.go, client/tss_add.go, utils/ws/ws.go,*)
(* and the vault and TSS operations they call.                             *)
(*                                                                         *)
(* Every connection has four goroutines: the main and the reader of the    *)
(* client call, the main and the reader of the handler; the two TssSend    *)
(* loops only show here by the errors they may report.  The two handlers   *)
(* of a session meet through eight channels of capacity 1 that             *)
(* RegisterDeviceHandler leaves in a cache under the user's id.            *)
(*                                                                         *)
(* One user with one wallet is modelled.  The rounds of the add-share      *)
(* process are abstracted here to its start and its outcome, and           *)
(* the eight cache entries are set and fetched in one step each.           *)
(***************************************************************************)
EXTENDS Integers, Sequences, FiniteSets

CONSTANTS Regs,        \* calls of RegisterDevice, each with its fresh peer id
          Accs,        \* calls of AcceptDevice
          Owners,      \* peer ids of the devices that hold a share at first
          None,        \* no value
          OneAtATime,  \* bound: a registration starts when all calls returned
          MaxFaults    \* bound on the failures of a behaviour

Conns   == Regs \cup Accs
Devices == Regs \cup Owners

ASSUME ConstantsAssumption ==
    /\ Regs \cap Accs = {}
    /\ Regs \cap Owners = {}
    /\ None \notin Devices
    /\ OneAtATime \in BOOLEAN
    /\ MaxFaults \in Nat

\* The control messages of utils/ws with their stages.  "closed" and "broken"
\* end a connection: what the reader gets as a normal closure or as an error.
MsgStage == [peer |-> 10, device |-> 20, pubkey |-> 20, metadata |-> 20,
             metadataAck |-> 30, tssDone |-> 50, storedClient |-> 70,
             existingDeviceDone |-> 80, newDeviceDone |-> 80]

MsgTypes == DOMAIN MsgStage
Endings  == {"closed", "broken"}

\* The channels shared by the handlers of a session.
Chans == {"newClientPeerIdCh", "existingClientPeerIdCh", "useragentCh",
          "metadataCh", "adderCh", "existingDeviceTssDoneCh",
          "newDeviceDoneCh", "existingDeviceDoneCh"}

VARIABLES
    client,     \* client[c]: main goroutine of RegisterDevice or AcceptDevice
    clReader,   \* clReader[c]: its reader goroutine
    clErrs,     \* clErrs[c]: goroutines with an error in its errs channel
    clDone,     \* the calls whose serverDone is closed
    handler,    \* handler[c]: main goroutine of the server's handler
    hdReader,   \* hdReader[c]: its reader, "read" or the message it handles
    hdErrs,     \* hdErrs[c]: goroutines with an error in its errs channel
    hdDone,     \* the accept handlers whose serverDone is closed
    conn,       \* conn[c]: the websocket connection
    up, down,   \* messages in flight to the server and to the device
    published,  \* the registration whose channels are in the cache
    session,    \* session[a]: the registration whose channels a fetched
    chan,       \* chan[r]: the channels of registration r that hold a value
    offered,    \* offered[r]: the value last sent on existingClientPeerIdCh
    existing,   \* existing[r]: existingClientPeerID of RegisterDeviceHandler
    newId,      \* newId[a]: newClientPeerID of AcceptDeviceHandler
    device,     \* device[a]: the peer id of the device that calls AcceptDevice
    tss,        \* tss[c]: the add-share service of the device
    adder,      \* adder[r]: the add-share service of the server
    original,   \* original[r]: the BKs of the wallet the adder was created from
    bks,        \* the BKs in the stored wallet (the server's own is left out)
    devices,    \* the peer ids in the devices table
    faults      \* failures so far

clVars   == <<client, clReader, clErrs, clDone>>
hdVars   == <<handler, hdReader, hdErrs, hdDone>>
netVars  == <<conn, up, down>>
pairVars == <<published, session, chan, offered, existing, newId, device>>
tssVars  == <<tss, adder, original>>
dbVars   == <<bks, devices>>
vars     == <<clVars, hdVars, netVars, pairVars, tssVars, dbVars, faults>>

ClientStates  == {"idle", "dial", "wait", "tss", "done", "stuck",
                  "ok", "nil", "err"}
HandlerStates == {"none", "publish", "wait", "tss", "tssDone", "metadataSent",
                  "store", "stored", "newDone", "stuck", "ret"}
ReaderStates  == {"off", "read", "ret"}
Waits         == {"awaitExisting", "awaitNew", "awaitAdder"}
TssStates     == {"off", "run", "done", "failed"}

\* The type invariant: the states that registrations and accept calls can be in.
TypeOK ==
    /\ client   \in [Conns -> ClientStates]
    /\ clReader \in [Conns -> ReaderStates]
    /\ clErrs   \in [Conns -> SUBSET {"reader", "sender"}]
    /\ clDone   \in SUBSET Conns
    /\ handler  \in [Conns -> HandlerStates]
    /\ hdReader \in [Conns -> ReaderStates \cup MsgTypes \cup Waits]
    /\ hdErrs   \in [Conns -> SUBSET {"reader", "sender"}]
    /\ hdDone   \in SUBSET Accs
    /\ conn     \in [Conns -> {"none", "open", "over"}]
    /\ up       \in [Conns -> Seq(MsgTypes \cup Endings)]
    /\ down     \in [Conns -> Seq(MsgTypes \cup Endings)]
    /\ published \in Regs \cup {None}
    /\ session  \in [Accs -> Regs \cup {None}]
    /\ chan     \in [Regs -> SUBSET Chans]
    /\ offered  \in [Regs -> Devices \cup {None}]
    /\ existing \in [Regs -> Devices \cup {None}]
    /\ newId    \in [Accs -> Regs \cup {None}]
    /\ device   \in [Accs -> Devices \cup {None}]
    /\ tss      \in [Conns -> TssStates]
    /\ adder    \in [Regs -> TssStates]
    /\ original \in [Regs -> SUBSET Devices]
    /\ bks      \in SUBSET Devices
    /\ devices  \in SUBSET Devices
    /\ faults   \in Nat

Init ==
    /\ client   = [c \in Conns |-> "idle"]
    /\ clReader = [c \in Conns |-> "off"]
    /\ clErrs   = [c \in Conns |-> {}]
    /\ clDone   = {}
    /\ handler  = [c \in Conns |-> "none"]
    /\ hdReader = [c \in Conns |-> "off"]
    /\ hdErrs   = [c \in Conns |-> {}]
    /\ hdDone   = {}
    /\ conn     = [c \in Conns |-> "none"]
    /\ up       = [c \in Conns |-> <<>>]
    /\ down     = [c \in Conns |-> <<>>]
    /\ published = None
    /\ session  = [a \in Accs |-> None]
    /\ chan     = [r \in Regs |-> {}]
    /\ offered  = [r \in Regs |-> None]
    /\ existing = [r \in Regs |-> None]
    /\ newId    = [a \in Accs |-> None]
    /\ device   = [a \in Accs |-> None]
    /\ tss      = [c \in Conns |-> "off"]
    /\ adder    = [r \in Regs |-> "off"]
    /\ original = [r \in Regs |-> {}]
    /\ bks      = Owners
    /\ devices  = Owners
    /\ faults   = 0

Returned == {"ok", "nil", "err"}

-----------------------------------------------------------------------------
(* The websocket connection.                                               *)

\* A write on an open connection is delivered in order; on a connection that
\* is over it either reports an error or is lost without one.
WriteResults(c) == IF conn[c] = "open" THEN {TRUE} ELSE BOOLEAN

Sent(queue, c, m) ==
    IF conn[c] = "open" THEN [queue EXCEPT ![c] = Append(@, m)] ELSE queue

\* c.Close after the messages ms: they reach the other side before the end of
\* the connection, and what was in flight to this side is never read.
Closed(queue, c, ms, ending) ==
    IF conn[c] = "open" THEN [queue EXCEPT ![c] = (@ \o ms) \o <<ending>>]
                        ELSE queue

Over(c) == [conn EXCEPT ![c] = IF @ = "open" THEN "over" ELSE @]

\* The successful paths call cancel() before Close(StatusNormalClosure): the
\* canceled read tears the connection down with an error of its own, so the
\* other side may see either end.
FinalClose == Endings

\* Client returns (all paths run the deferred Close).
ClientReturns(c, result, ending) ==
    /\ client' = [client EXCEPT ![c] = result]
    /\ up' = Closed(up, c, <<>>, ending)
    /\ conn' = Over(c)

\* Handler returns after writing ms.
HandlerReturns(c, ms, ending) ==
    /\ handler' = [handler EXCEPT ![c] = "ret"]
    /\ down' = Closed(down, c, ms, ending)
    /\ conn' = Over(c)

Fault == faults < MaxFaults /\ faults' = faults + 1

-----------------------------------------------------------------------------
(* Calls and connection set-up.                                            *)

\* The application calls RegisterDevice: access token, then Dial.
RegisterDevice(r) ==
    /\ client[r] = "idle"
    /\ OneAtATime => \A c \in Conns : client[c] \in Returned \cup {"idle"}
    /\ client' = [client EXCEPT ![r] = "dial"]
    /\ UNCHANGED <<clReader, clErrs, clDone, hdVars, netVars, pairVars,
                   tssVars, dbVars, faults>>

\* The application calls AcceptDevice on a device d that holds a share.
AcceptDevice(a, d) ==
    /\ client[a] = "idle"
    /\ \/ d \in Owners
       \/ d \in Regs /\ client[d] = "ok"
    /\ client' = [client EXCEPT ![a] = "dial"]
    /\ device' = [device EXCEPT ![a] = d]
    /\ UNCHANGED <<clReader, clErrs, clDone, hdVars, netVars, published,
                   session, chan, offered, existing, newId, tssVars, dbVars,
                   faults>>

\* getAccessToken or Dial fails.
DialFails(c) ==
    /\ client[c] = "dial"
    /\ conn[c] = "none"
    /\ Fault
    /\ client' = [client EXCEPT ![c] = "err"]
    /\ UNCHANGED <<clReader, clErrs, clDone, hdVars, netVars, pairVars,
                   tssVars, dbVars>>

\* RegisterDeviceHandler accepts the websocket before it publishes anything.
RegisterDeviceHandler(r) ==
    /\ client[r] = "dial"
    /\ conn[r] = "none"
    /\ conn' = [conn EXCEPT ![r] = "open"]
    /\ handler' = [handler EXCEPT ![r] = "publish"]
    /\ UNCHANGED <<clVars, hdReader, hdErrs, hdDone, up, down, pairVars,
                   tssVars, dbVars, faults>>

\* It makes its channels, puts them in the cache over those of any earlier
\* registration of the user, and starts its reader.
PublishChannels(r) ==
    /\ handler[r] = "publish"
    /\ published' = r
    /\ handler' = [handler EXCEPT ![r] = "wait"]
    /\ hdReader' = [hdReader EXCEPT ![r] = "read"]
    /\ UNCHANGED <<clVars, hdErrs, hdDone, netVars, session, chan, offered,
                   existing, newId, device, tssVars, dbVars, faults>>

\* The registration of the user whose eight channels are in the cache.
GetInterHandlersChannels == published

\* AcceptDeviceHandler fetches the channels of the published registration and
\* only then accepts the websocket; without them it answers 401.
AcceptDeviceHandler(a) ==
    /\ client[a] = "dial"
    /\ conn[a] = "none"
    /\ \/ /\ GetInterHandlersChannels = None
          /\ client' = [client EXCEPT ![a] = "err"]
          /\ UNCHANGED <<handler, hdReader, conn, session>>
       \/ /\ GetInterHandlersChannels # None
          /\ session' = [session EXCEPT ![a] = GetInterHandlersChannels]
          /\ conn' = [conn EXCEPT ![a] = "open"]
          /\ handler' = [handler EXCEPT ![a] = "wait"]
          /\ hdReader' = [hdReader EXCEPT ![a] = "read"]
          /\ UNCHANGED client
    /\ UNCHANGED <<clReader, clErrs, clDone, hdErrs, hdDone, up, down,
                   published, chan, offered, existing, newId, device, tssVars,
                   dbVars, faults>>

\* Dial returned: the client sends its peer id and starts its reader.
SendPeerId(c) ==
    /\ client[c] = "dial"
    /\ conn[c] # "none"
    /\ \E ok \in WriteResults(c) :
          IF ok THEN /\ client' = [client EXCEPT ![c] = "wait"]
                     /\ clReader' = [clReader EXCEPT ![c] = "read"]
                ELSE /\ client' = [client EXCEPT ![c] = "err"]
                     /\ UNCHANGED clReader
    /\ up' = Sent(up, c, "peer")
    /\ UNCHANGED <<clErrs, clDone, hdVars, conn, down, pairVars, tssVars,
                   dbVars, faults>>

-----------------------------------------------------------------------------
(* Reader of the client.  Each message is handled in one step: a client    *)
(* blocks on nothing but the write (startTss is received by the main that  *)
(* waits for it).                                                          *)

\* The next message of c is m and the reader takes it.
Receives(c, m) ==
    /\ clReader[c] = "read"
    /\ client[c] \notin Returned
    /\ down[c] # <<>>
    /\ Head(down[c]) = m
    /\ down' = [down EXCEPT ![c] = Tail(@)]

\* Reply to a message: a failed write goes to errs and ends the reader.
\* done: the calls whose serverDone is closed after a successful write.
Reply(c, m, done) ==
    /\ \E ok \in WriteResults(c) :
          IF ok THEN /\ clDone' = clDone \cup done
                     /\ UNCHANGED <<clReader, clErrs>>
                ELSE /\ clReader' = [clReader EXCEPT ![c] = "ret"]
                     /\ clErrs' = [clErrs EXCEPT ![c] = @ \cup {"reader"}]
                     /\ UNCHANGED clDone
    /\ up' = Sent(up, c, m)

\* Both clients answer the peer id of the other device: the new device with
\* its device name, the existing one with its metadata.
ClientPeer(c) ==
    /\ Receives(c, "peer")
    /\ Reply(c, IF c \in Regs THEN "device" ELSE "metadata", {})
    /\ UNCHANGED <<client, hdVars, conn, pairVars, tssVars, dbVars, faults>>

\* PubkeyMessage on the new device, MetadataAckMessage on the existing one:
\* the adder is created and the main starts the process (ClientReaderFails if it
\* cannot be created).
StartMessage(c) == IF c \in Regs THEN "pubkey" ELSE "metadataAck"

ClientStart(c) ==
    /\ Receives(c, StartMessage(c))
    /\ client[c] = "wait"
    /\ client' = [client EXCEPT ![c] = "tss"]
    /\ tss' = [tss EXCEPT ![c] = "run"]
    /\ UNCHANGED <<clReader, clErrs, clDone, hdVars, conn, up, pairVars,
                   adder, original, dbVars, faults>>

\* The new device gets the metadata and says that everything is stored.
ClientMetadata(r) ==
    /\ Receives(r, "metadata")
    /\ Reply(r, "storedClient", {})
    /\ UNCHANGED <<client, hdVars, conn, pairVars, tssVars, dbVars, faults>>

\* The new device is told that the existing one is done.
ClientExistingDeviceDone(r) ==
    /\ Receives(r, "existingDeviceDone")
    /\ clDone' = clDone \cup {r}
    /\ UNCHANGED <<client, clReader, clErrs, hdVars, conn, up, pairVars,
                   tssVars, dbVars, faults>>

\* The existing device is told that the new one is done, and confirms.
ClientNewDeviceDone(a) ==
    /\ Receives(a, "newDeviceDone")
    /\ Reply(a, "existingDeviceDone", {a})
    /\ UNCHANGED <<client, hdVars, conn, pairVars, tssVars, dbVars, faults>>

\* The read fails: a normal closure is silent, any other error goes to errs.
ClientReadEnds(c) ==
    /\ \E m \in Endings :
          /\ Receives(c, m)
          /\ clErrs' = IF m = "broken"
                       THEN [clErrs EXCEPT ![c] = @ \cup {"reader"}]
                       ELSE clErrs
    /\ clReader' = [clReader EXCEPT ![c] = "ret"]
    /\ UNCHANGED <<client, clDone, hdVars, conn, up, pairVars, tssVars,
                   dbVars, faults>>

-----------------------------------------------------------------------------
(* Main of the clients after startTss.                                     *)

\* adder.Process fails: the error goes to errs (capacity 2, so the call is
\* stuck if reader and TssSend left theirs) and the call returns without one.
ClientTssFailed(c) ==
    /\ client[c] = "tss"
    /\ tss[c] = "failed"
    /\ IF Cardinality(clErrs[c]) = 2
       THEN /\ client' = [client EXCEPT ![c] = "stuck"]
            /\ UNCHANGED <<up, conn>>
       ELSE ClientReturns(c, "nil", "broken")
    /\ UNCHANGED <<clReader, clErrs, clDone, hdVars, down, pairVars, tssVars,
                   dbVars, faults>>

\* Process returned a result and ProcessErrors finds an error.
ClientErrors(c) ==
    /\ client[c] = "tss"
    /\ tss[c] = "done"
    /\ clErrs[c] # {}
    /\ ClientReturns(c, "err", "broken")
    /\ UNCHANGED <<clReader, clErrs, clDone, hdVars, down, pairVars, tssVars,
                   dbVars, faults>>

\* No error: the new device waits for serverDone.
RegisterTssDone(r) ==
    /\ client[r] = "tss"
    /\ tss[r] = "done"
    /\ clErrs[r] = {}
    /\ client' = [client EXCEPT ![r] = "done"]
    /\ UNCHANGED <<clReader, clErrs, clDone, hdVars, netVars, pairVars,
                   tssVars, dbVars, faults>>

\* No error: the existing device sends TssDoneMessage and waits.
AcceptTssDone(a) ==
    /\ client[a] = "tss"
    /\ tss[a] = "done"
    /\ clErrs[a] = {}
    /\ \E ok \in WriteResults(a) :
          client' = [client EXCEPT ![a] = IF ok THEN "done" ELSE "err"]
    /\ up' = Sent(up, a, "tssDone")
    /\ UNCHANGED <<clReader, clErrs, clDone, hdVars, conn, down, pairVars,
                   tssVars, dbVars, faults>>

\* serverDone is closed: cancel, close the websocket and return the result.
ClientServerDone(c) ==
    /\ client[c] = "done"
    /\ c \in clDone
    /\ \E ending \in FinalClose : ClientReturns(c, "ok", ending)
    /\ UNCHANGED <<clReader, clErrs, clDone, hdVars, down, pairVars, tssVars,
                   dbVars, faults>>

-----------------------------------------------------------------------------
(* Reader of the handlers.                                                 *)

\* The stage variable of a handler, from the progress of its main.
Stage(c) == CASE handler[c] \in {"none", "publish", "wait"} -> 0
              [] handler[c] \in {"tss", "store"}            -> 30
              [] OTHER                                      -> 40

\* The reader takes the next message and handles it unless the handler is at
\* a later stage; an error of the read goes to errs.
HandlerReads(c) ==
    /\ hdReader[c] = "read"
    /\ handler[c] # "ret"
    /\ up[c] # <<>>
    /\ up' = [up EXCEPT ![c] = Tail(@)]
    /\ LET m == Head(up[c]) IN
       /\ hdReader' = [hdReader EXCEPT ![c] =
                          IF m \in Endings THEN "ret"
                          ELSE IF Stage(c) > MsgStage[m] THEN "read" ELSE m]
       /\ hdErrs' = IF m = "broken"
                    THEN [hdErrs EXCEPT ![c] = @ \cup {"reader"}] ELSE hdErrs
    /\ UNCHANGED <<clVars, handler, hdDone, conn, down, pairVars, tssVars,
                   dbVars, faults>>

\* The reader of c is done with its message: it wrote m, or failed to.
HandlerReplies(c, m) ==
    /\ \E ok \in WriteResults(c) :
          IF ok THEN /\ hdReader' = [hdReader EXCEPT ![c] = "read"]
                     /\ UNCHANGED hdErrs
                ELSE /\ hdReader' = [hdReader EXCEPT ![c] = "ret"]
                     /\ hdErrs' = [hdErrs EXCEPT ![c] = @ \cup {"reader"}]
    /\ down' = Sent(down, c, m)

SendOn(r, k)    == k \notin chan[r] /\ chan' = [chan EXCEPT ![r] = @ \cup {k}]
ReceiveOn(r, k) == k \in chan[r] /\ chan' = [chan EXCEPT ![r] = @ \ {k}]

\* PeerIdBroadcastMessage in RegisterDeviceHandler: send the new peer id ...
RegisterPeerSend(r) ==
    /\ hdReader[r] = "peer"
    /\ SendOn(r, "newClientPeerIdCh")
    /\ hdReader' = [hdReader EXCEPT ![r] = "awaitExisting"]
    /\ UNCHANGED <<clVars, handler, hdErrs, hdDone, netVars, published,
                   session, offered, existing, newId, device, tssVars, dbVars,
                   faults>>

\* Mutant of RegisterPeerReceive: the user agent is not sent.
RegisterPeerReceiveNoAgent(r) ==
    /\ hdReader[r] = "awaitExisting"
    /\ ReceiveOn(r, "existingClientPeerIdCh")
    /\ existing' = [existing EXCEPT ![r] = offered[r]]
    /\ HandlerReplies(r, "peer")
    /\ UNCHANGED <<clVars, handler, hdDone, conn, up, published, session,
                   offered, newId, device, tssVars, dbVars, faults>>

\* ... wait for the existing one, send the user agent and tell the device.
RegisterPeerReceive(r) ==
    /\ hdReader[r] = "awaitExisting"
    /\ "existingClientPeerIdCh" \in chan[r]
    /\ "useragentCh" \notin chan[r]
    /\ chan' = [chan EXCEPT ![r] = (@ \ {"existingClientPeerIdCh"})
                                   \cup {"useragentCh"}]
    /\ existing' = [existing EXCEPT ![r] = offered[r]]
    /\ HandlerReplies(r, "peer")
    /\ UNCHANGED <<clVars, handler, hdDone, conn, up, published, session,
                   offered, newId, device, tssVars, dbVars, faults>>

\* NewServerAdd keeps the BKs of the server and of the existing device and
\* needs both.
NewServerAdd(r) == existing[r] \in bks

\* DeviceMessage: with the metadata, read the wallet, create the adder and
\* pass it on, answer with the public key and start.
RegisterDeviceMessage(r) ==
    /\ hdReader[r] = "device"
    /\ "metadataCh" \in chan[r]
    /\ "adderCh" \notin chan[r]
    /\ handler[r] = "wait"
    /\ NewServerAdd(r)
    /\ chan' = [chan EXCEPT ![r] = (@ \ {"metadataCh"}) \cup {"adderCh"}]
    /\ original' = [original EXCEPT ![r] = bks]
    /\ HandlerReplies(r, "pubkey")
    /\ handler' = [handler EXCEPT ![r] = IF hdReader'[r] = "read"
                                         THEN "tss" ELSE "wait"]
    /\ UNCHANGED <<clVars, hdDone, conn, up, published, session, offered,
                   existing, newId, device, tss, adder, dbVars, faults>>

\* The wallet cannot be read or the adder not be created: the reader returns
\* and reports to nobody.
RegisterDeviceMessageFails(r) ==
    /\ hdReader[r] = "device"
    /\ IF NewServerAdd(r) THEN Fault ELSE UNCHANGED faults
    /\ ReceiveOn(r, "metadataCh")
    /\ hdReader' = [hdReader EXCEPT ![r] = "ret"]
    /\ UNCHANGED <<clVars, handler, hdErrs, hdDone, netVars, published,
                   session, offered, existing, newId, device, tssVars, dbVars>>

\* EverythingStoredClientMessage: tell AcceptDeviceHandler.
RegisterStoredClient(r) ==
    /\ hdReader[r] = "storedClient"
    /\ SendOn(r, "newDeviceDoneCh")
    /\ hdReader' = [hdReader EXCEPT ![r] = "read"]
    /\ UNCHANGED <<clVars, handler, hdErrs, hdDone, netVars, published,
                   session, offered, existing, newId, device, tssVars, dbVars,
                   faults>>

\* PeerIdBroadcastMessage in AcceptDeviceHandler: send the existing peer id,
AcceptPeerSend(a) ==
    /\ hdReader[a] = "peer"
    /\ SendOn(session[a], "existingClientPeerIdCh")
    /\ offered' = [offered EXCEPT ![session[a]] = device[a]]
    /\ hdReader' = [hdReader EXCEPT ![a] = "awaitNew"]
    /\ UNCHANGED <<clVars, handler, hdErrs, hdDone, netVars, published,
                   session, existing, newId, device, tssVars, dbVars, faults>>

\* ... wait for the new one and tell the device.
AcceptPeerReceive(a) ==
    /\ hdReader[a] = "awaitNew"
    /\ ReceiveOn(session[a], "newClientPeerIdCh")
    /\ newId' = [newId EXCEPT ![a] = session[a]]
    /\ HandlerReplies(a, "peer")
    /\ UNCHANGED <<clVars, handler, hdDone, conn, up, published, session,
                   offered, existing, device, tssVars, dbVars, faults>>

\* MetadataMessage: send the metadata to RegisterDeviceHandler,
AcceptMetadataSend(a) ==
    /\ hdReader[a] = "metadata"
    /\ SendOn(session[a], "metadataCh")
    /\ hdReader' = [hdReader EXCEPT ![a] = "awaitAdder"]
    /\ UNCHANGED <<clVars, handler, hdErrs, hdDone, netVars, published,
                   session, offered, existing, newId, device, tssVars, dbVars,
                   faults>>

\* wait for the adder, acknowledge, and let the main start adder.Process.
AcceptMetadataReceive(a) ==
    /\ hdReader[a] = "awaitAdder"
    /\ handler[a] = "wait"
    /\ ReceiveOn(session[a], "adderCh")
    /\ HandlerReplies(a, "metadataAck")
    /\ IF hdReader'[a] = "read"
       THEN /\ handler' = [handler EXCEPT ![a] = "tss"]
            /\ adder' = [adder EXCEPT ![session[a]] = "run"]
       ELSE UNCHANGED <<handler, adder>>
    /\ UNCHANGED <<clVars, hdDone, conn, up, published, session, offered,
                   existing, newId, device, tss, original, dbVars, faults>>

\* Mutant of AcceptTssDoneMessage: nobody is told.
AcceptTssDoneMessageUntold(a) ==
    /\ hdReader[a] = "tssDone"
    /\ hdReader' = [hdReader EXCEPT ![a] = "read"]
    /\ UNCHANGED <<clVars, handler, hdErrs, hdDone, netVars, pairVars, tssVars,
                   dbVars, faults>>

\* TssDoneMessage: tell RegisterDeviceHandler.
AcceptTssDoneMessage(a) ==
    /\ hdReader[a] = "tssDone"
    /\ SendOn(session[a], "existingDeviceTssDoneCh")
    /\ hdReader' = [hdReader EXCEPT ![a] = "read"]
    /\ UNCHANGED <<clVars, handler, hdErrs, hdDone, netVars, published,
                   session, offered, existing, newId, device, tssVars, dbVars,
                   faults>>

\* ExistingDeviceDoneMessage: tell RegisterDeviceHandler, close serverDone.
AcceptExistingDeviceDone(a) ==
    /\ hdReader[a] = "existingDeviceDone"
    /\ SendOn(session[a], "existingDeviceDoneCh")
    /\ hdDone' = hdDone \cup {a}
    /\ hdReader' = [hdReader EXCEPT ![a] = "read"]
    /\ UNCHANGED <<clVars, handler, hdErrs, netVars, published, session,
                   offered, existing, newId, device, tssVars, dbVars, faults>>

-----------------------------------------------------------------------------
(* Main of the handlers after startTss.                                    *)

\* A write of the main failed: the error is sent to errs (capacity 2, nobody
\* reads it any more), then the handler returns.
HandlerWriteFails(c) ==
    IF Cardinality(hdErrs[c]) = 2
    THEN /\ handler' = [handler EXCEPT ![c] = "stuck"]
         /\ UNCHANGED <<down, conn>>
    ELSE HandlerReturns(c, <<>>, "broken")

\* RegisterDeviceHandler: tssDone is closed, whatever the outcome; then
\* ProcessErrors.
RegisterHandlerTssDone(r) ==
    /\ handler[r] = "tss"
    /\ adder[r] \in {"done", "failed"}
    /\ IF hdErrs[r] = {}
       THEN /\ handler' = [handler EXCEPT ![r] = "tssDone"]
            /\ UNCHANGED <<down, conn>>
       ELSE HandlerReturns(r, <<>>, "broken")
    /\ UNCHANGED <<clVars, hdReader, hdErrs, hdDone, up, pairVars, tssVars,
                   dbVars, faults>>

\* The existing device finished: send the metadata to the new one.
RegisterHandlerMetadata(r) ==
    /\ handler[r] = "tssDone"
    /\ ReceiveOn(r, "existingDeviceTssDoneCh")
    /\ \E ok \in WriteResults(r) :
          IF ok THEN /\ handler' = [handler EXCEPT ![r] = "metadataSent"]
                     /\ down' = Sent(down, r, "metadata")
                     /\ UNCHANGED conn
                ELSE HandlerWriteFails(r)
    /\ UNCHANGED <<clVars, hdReader, hdErrs, hdDone, up, published, session,
                   offered, existing, newId, device, tssVars, dbVars, faults>>

\* The existing device confirmed: tell the new one and finish.
RegisterHandlerFinish(r) ==
    /\ handler[r] = "metadataSent"
    /\ ReceiveOn(r, "existingDeviceDoneCh")
    /\ \E ok \in WriteResults(r) :
          IF ok THEN \E ending \in FinalClose :
                        HandlerReturns(r, <<"existingDeviceDone">>, ending)
                ELSE HandlerWriteFails(r)
    /\ UNCHANGED <<clVars, hdReader, hdErrs, hdDone, up, published, session,
                   offered, existing, newId, device, tssVars, dbVars, faults>>

\* Mutant of AcceptHandlerProcess: the error of Process is not checked.
AcceptHandlerProcessUnchecked(a) ==
    /\ handler[a] = "tss"
    /\ adder[session[a]] \in {"done", "failed"}
    /\ handler' = [handler EXCEPT ![a] = "store"]
    /\ UNCHANGED <<clVars, hdReader, hdErrs, hdDone, netVars, pairVars, tssVars,
                   dbVars, faults>>

\* AcceptDeviceHandler: adder.Process returned.
AcceptHandlerProcess(a) ==
    /\ handler[a] = "tss"
    /\ \/ /\ adder[session[a]] = "done"
          /\ handler' = [handler EXCEPT ![a] = "store"]
          /\ UNCHANGED <<down, conn>>
       \/ /\ adder[session[a]] = "failed"
          /\ HandlerReturns(a, <<>>, "broken")
    /\ UNCHANGED <<clVars, hdReader, hdErrs, hdDone, up, pairVars, tssVars,
                   dbVars, faults>>

\* Mutant of MergedBKs: the add-share result replaces the wallet's BKs.
MergedBKsReplaced(r) == {existing[r], r}

\* MergeDkgResults: the BKs the adder was created from and those of the
\* add-share process.
MergedBKs(r) == original[r] \cup {existing[r], r}

\* Mutant of AddPeer: the row has the id of the call, not the one of a device.
AddPeerOfCall(a) ==
    /\ bks' = MergedBKs(session[a])
    /\ devices' = devices \cup {a}

\* Vault.AddPeer: one statement replaces the encrypted wallet and inserts the
\* device.
AddPeer(a) ==
    /\ bks' = MergedBKs(session[a])
    /\ devices' = devices \cup {newId[a]}

\* With the user agent, AddPeer writes the merged wallet and the new device;
\* only then ProcessErrors looks for errors.
AcceptHandlerAddPeer(a) ==
    /\ handler[a] = "store"
    /\ ReceiveOn(session[a], "useragentCh")
    /\ AddPeer(a)
    /\ IF hdErrs[a] = {}
       THEN /\ handler' = [handler EXCEPT ![a] = "stored"]
            /\ UNCHANGED <<down, conn>>
       ELSE HandlerReturns(a, <<>>, "broken")
    /\ UNCHANGED <<clVars, hdReader, hdErrs, hdDone, up, published, session,
                   offered, existing, newId, device, tssVars, faults>>

\* Mutant of AcceptHandlerAddPeerFails: the return is missing.
AcceptHandlerAddPeerFailsIgnored(a) ==
    /\ handler[a] = "store"
    /\ Fault
    /\ ReceiveOn(session[a], "useragentCh")
    /\ handler' = [handler EXCEPT ![a] = "stored"]
    /\ UNCHANGED <<clVars, hdReader, hdErrs, hdDone, netVars, published, session,
                   offered, existing, newId, device, tssVars, dbVars>>

\* AddPeer fails: the handler returns.
AcceptHandlerAddPeerFails(a) ==
    /\ handler[a] = "store"
    /\ Fault
    /\ ReceiveOn(session[a], "useragentCh")
    /\ HandlerReturns(a, <<>>, "broken")
    /\ UNCHANGED <<clVars, hdReader, hdErrs, hdDone, up, published, session,
                   offered, existing, newId, device, tssVars, dbVars>>

\* Mutant of AcceptHandlerNewDeviceDone: it does not come after AddPeer.
AcceptHandlerNewDeviceDoneEarly(a) ==
    /\ handler[a] \in {"store", "stored"}
    /\ ReceiveOn(session[a], "newDeviceDoneCh")
    /\ handler' = [handler EXCEPT ![a] = "newDone"]
    /\ down' = Sent(down, a, "newDeviceDone")
    /\ UNCHANGED <<clVars, hdReader, hdErrs, hdDone, conn, up, published,
                   session, offered, existing, newId, device, tssVars, dbVars,
                   faults>>

\* The new device is done: tell the existing one.
AcceptHandlerNewDeviceDone(a) ==
    /\ handler[a] = "stored"
    /\ ReceiveOn(session[a], "newDeviceDoneCh")
    /\ \E ok \in WriteResults(a) :
          IF ok THEN /\ handler' = [handler EXCEPT ![a] = "newDone"]
                     /\ down' = Sent(down, a, "newDeviceDone")
                     /\ UNCHANGED conn
                ELSE HandlerWriteFails(a)
    /\ UNCHANGED <<clVars, hdReader, hdErrs, hdDone, up, published, session,
                   offered, existing, newId, device, tssVars, dbVars, faults>>

\* serverDone is closed: finish.
AcceptHandlerFinish(a) ==
    /\ handler[a] = "newDone"
    /\ a \in hdDone
    /\ \E ending \in FinalClose : HandlerReturns(a, <<>>, ending)
    /\ UNCHANGED <<clVars, hdReader, hdErrs, hdDone, up, pairVars, tssVars,
                   dbVars, faults>>

-----------------------------------------------------------------------------
(* The add-share process (external: github.com/getamis/alice), by what the *)
(* three services see of it.                                               *)

\* TSS messages pass in both directions of connection c.
Carries(c) == conn[c] = "open" /\ clReader[c] = "read" /\ hdReader[c] # "ret"

\* The three parties of registration r can exchange their messages: device
\* a takes part under the peer id the server and the new device expect.
Coupled(r, a) ==
    /\ session[a] = r
    /\ newId[a] = r
    /\ device[a] = existing[r]
    /\ Carries(r)
    /\ Carries(a)

\* The new device has the results of both old peers and sends its proof.
NewPeerDone(r, a) ==
    /\ Coupled(r, a)
    /\ tss[r] = "run" /\ tss[a] = "run" /\ adder[r] = "run"
    /\ tss' = [tss EXCEPT ![r] = "done"]
    /\ UNCHANGED <<clVars, hdVars, netVars, pairVars, adder, original, dbVars,
                   faults>>

\* The server has the proof of the new device.
ServerDone(r) ==
    /\ adder[r] = "run"
    /\ tss[r] = "done"
    /\ Carries(r)
    /\ adder' = [adder EXCEPT ![r] = "done"]
    /\ UNCHANGED <<clVars, hdVars, netVars, pairVars, tss, original, dbVars,
                   faults>>

\* The existing device has the proof, relayed by the server.
ExistingPeerDone(r, a) ==
    /\ Coupled(r, a)
    /\ tss[a] = "run"
    /\ tss[r] = "done"
    /\ tss' = [tss EXCEPT ![a] = "done"]
    /\ UNCHANGED <<clVars, hdVars, netVars, pairVars, adder, original, dbVars,
                   faults>>

-----------------------------------------------------------------------------
(* Failures.                                                               *)

\* A party of the add-share process fails.
DeviceTssFails(c) ==
    /\ tss[c] = "run"
    /\ Fault
    /\ tss' = [tss EXCEPT ![c] = "failed"]
    /\ UNCHANGED <<clVars, hdVars, netVars, pairVars, adder, original, dbVars>>

ServerTssFails(r) ==
    /\ adder[r] = "run"
    /\ Fault
    /\ adder' = [adder EXCEPT ![r] = "failed"]
    /\ UNCHANGED <<clVars, hdVars, netVars, pairVars, tss, original, dbVars>>

\* The connection breaks, or the one-minute context of a side ends: what is
\* in flight is cut anywhere and both readers get an error.  It may also break
\* when one side closed it and the other did not yet read everything.
Drop(c) ==
    /\ conn[c] = "open" \/ up[c] # <<>> \/ down[c] # <<>>
    /\ Fault
    /\ conn' = [conn EXCEPT ![c] = "over"]
    /\ \E i \in 0..Len(up[c]), j \in 0..Len(down[c]) :
          /\ up'   = [up   EXCEPT ![c] = Append(SubSeq(@, 1, i), "broken")]
          /\ down' = [down EXCEPT ![c] = Append(SubSeq(@, 1, j), "broken")]
    /\ UNCHANGED <<clVars, hdVars, pairVars, tssVars, dbVars>>

\* TssSend has a message for a connection that is over.
ClientSenderFails(c) ==
    /\ client[c] \in {"tss", "done"}
    /\ conn[c] = "over"
    /\ c \notin clDone
    /\ "sender" \notin clErrs[c]
    /\ clErrs' = [clErrs EXCEPT ![c] = @ \cup {"sender"}]
    /\ UNCHANGED <<client, clReader, clDone, hdVars, netVars, pairVars,
                   tssVars, dbVars, faults>>

HandlerSenderFails(c) ==
    /\ handler[c] \notin {"none", "publish", "wait", "ret"}
    /\ conn[c] = "over"
    /\ c \notin hdDone
    /\ "sender" \notin hdErrs[c]
    /\ hdErrs' = [hdErrs EXCEPT ![c] = @ \cup {"sender"}]
    /\ UNCHANGED <<clVars, handler, hdReader, hdDone, netVars, pairVars,
                   tssVars, dbVars, faults>>

\* A reader cannot decode or handle a TSS message, or the adder cannot be created
\* from the message that starts the process: the reader reports and returns, and
\* leaves the connection open.
ClientReaderFails(c) ==
    /\ \/ tss[c] = "run"
       \/ /\ client[c] = "wait" /\ down[c] # <<>>
          /\ Head(down[c]) = StartMessage(c)
    /\ clReader[c] = "read"
    /\ Fault
    /\ clReader' = [clReader EXCEPT ![c] = "ret"]
    /\ clErrs' = [clErrs EXCEPT ![c] = @ \cup {"reader"}]
    /\ UNCHANGED <<client, clDone, hdVars, netVars, pairVars, tssVars, dbVars>>

HandlerReaderFails(c) ==
    /\ handler[c] = "tss"
    /\ hdReader[c] = "read"
    /\ Fault
    /\ hdReader' = [hdReader EXCEPT ![c] = "ret"]
    /\ hdErrs' = [hdErrs EXCEPT ![c] = @ \cup {"reader"}]
    /\ UNCHANGED <<clVars, handler, hdDone, netVars, pairVars, tssVars, dbVars>>

\* The cache entries expire ten minutes after the registration.
CacheExpires ==
    /\ published # None
    /\ Fault
    /\ published' = None
    /\ UNCHANGED <<clVars, hdVars, netVars, session, chan, offered, existing,
                   newId, device, tssVars, dbVars>>

-----------------------------------------------------------------------------
ClientSteps(c) ==
    \/ SendPeerId(c)
    \/ ClientPeer(c)
    \/ ClientStart(c)
    \/ ClientReadEnds(c)
    \/ ClientTssFailed(c)
    \/ ClientErrors(c)
    \/ ClientServerDone(c)

RegisterSteps(r) ==
    \/ ClientMetadata(r)
    \/ ClientExistingDeviceDone(r)
    \/ RegisterTssDone(r)

AcceptSteps(a) ==
    \/ ClientNewDeviceDone(a)
    \/ AcceptTssDone(a)

RegisterHandlerSteps(r) ==
    \/ RegisterDeviceHandler(r)
    \/ PublishChannels(r)
    \/ RegisterPeerSend(r)
    \/ RegisterPeerReceive(r)
    \/ RegisterDeviceMessage(r)
    \/ RegisterStoredClient(r)
    \/ RegisterHandlerTssDone(r)
    \/ RegisterHandlerMetadata(r)
    \/ RegisterHandlerFinish(r)

AcceptHandlerSteps(a) ==
    \/ AcceptDeviceHandler(a)
    \/ AcceptPeerSend(a)
    \/ AcceptPeerReceive(a)
    \/ AcceptMetadataSend(a)
    \/ AcceptMetadataReceive(a)
    \/ AcceptTssDoneMessage(a)
    \/ AcceptExistingDeviceDone(a)
    \/ AcceptHandlerProcess(a)
    \/ AcceptHandlerAddPeer(a)
    \/ AcceptHandlerNewDeviceDone(a)
    \/ AcceptHandlerFinish(a)

TssSteps(r) ==
    \/ ServerDone(r)
    \/ \E a \in Accs : NewPeerDone(r, a) \/ ExistingPeerDone(r, a)

ConnFaults(c) ==
    \/ DialFails(c)
    \/ DeviceTssFails(c)
    \/ Drop(c)
    \/ ClientSenderFails(c)
    \/ HandlerSenderFails(c)
    \/ ClientReaderFails(c)
    \/ HandlerReaderFails(c)

Next ==
    \/ \E r \in Regs : RegisterDevice(r)
    \/ \E a \in Accs, d \in Devices : AcceptDevice(a, d)
    \/ \E c \in Conns : ClientSteps(c) \/ HandlerReads(c) \/ ConnFaults(c)
    \/ \E r \in Regs : \/ RegisterSteps(r)
                       \/ RegisterHandlerSteps(r)
                       \/ RegisterDeviceMessageFails(r)
                       \/ TssSteps(r)
                       \/ ServerTssFails(r)
    \/ \E a \in Accs : \/ AcceptSteps(a)
                       \/ AcceptHandlerSteps(a)
                       \/ AcceptHandlerAddPeerFails(a)
    \/ CacheExpires

Spec == Init /\ [][Next]_vars

\* Every goroutine that can run eventually does.  The calls themselves and
\* the failures are the environment's.
Fairness ==
    /\ \A c \in Conns : WF_vars(ClientSteps(c)) /\ WF_vars(HandlerReads(c))
    /\ \A r \in Regs : /\ WF_vars(RegisterSteps(r))
                       /\ WF_vars(RegisterHandlerSteps(r))
                       /\ WF_vars(TssSteps(r))
    /\ \A a \in Accs : WF_vars(AcceptSteps(a)) /\ WF_vars(AcceptHandlerSteps(a))

FairSpec == Spec /\ Fairness

-----------------------------------------------------------------------------
(* Properties.                                                             *)

\* When RegisterDevice returns its share without error, the new peer is in the
\* devices table, its add-share process was complete, and the device that
\* accepted it had already confirmed.  The DB write is made by the other
\* handler: the fact travels through newDeviceDoneCh, the existing device and
\* existingDeviceDoneCh.
RegisteredPersisted ==
    \A r \in Regs : client[r] = "ok" =>
        /\ r \in devices
        /\ tss[r] = "done"
        /\ \E a \in Accs : session[a] = r /\ a \in clDone

\* AcceptDevice ends its protocol with serverDone only for a device that is in
\* the devices table and holds a complete share.
AcceptedPersisted ==
    \A a \in Accs : client[a] = "ok" =>
        /\ session[a] \in devices
        /\ tss[session[a]] = "done"

\* AddPeer stores a peer only if that device finished the add-share process,
\* although the handler that stores it is not the one that talks to it.
StoredOnlyIfComplete ==
    \A r \in Regs : r \in devices => tss[r] = "done"

\* Every device that holds a share can be used: the server's wallet has its BK.
DevicesUsable ==
    \A d \in Devices : d \in Owners \/ client[d] = "ok" => d \in bks

\* Without failures a session that one accept call joined completes: both calls
\* return and the new device is stored.
AcceptedSessionCompletes ==
    \A a \in Accs : \A r \in Regs :
        session[a] = r ~> \/ /\ client[a] \in Returned
                             /\ client[r] \in Returned
                             /\ r \in devices
                          \/ faults > 0
                          \/ \E b \in Accs \ {a} : session[b] = r

\* Without failures a registration that a device joined gets stored and returns,
\* even when that device calls AcceptDevice more than once for it: the handlers
\* of the calls share the channels of the registration and take turns in serving
\* it.
JoinedRegistrationCompletes ==
    \A r \in Regs :
        (\E a \in Accs : session[a] = r) ~> \/ /\ r \in devices
                                               /\ client[r] \in Returned
                                            \/ faults > 0
=============================================================================
