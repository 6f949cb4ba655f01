------------------------------- MODULE AddShare -------------------------------
(***************************************************************************)
(* The add-share process of a registration, message by message: the three  *)
(* parties of the protocol, the TssSend goroutines, the readers with their *)
(* stage checks, the server that relays between the devices, and the       *)
(* confirmations that end the session.  AddDevice has the same session     *)
(* with failures and with other sessions, but only the completion of the   *)
(* process; here nothing fails and every message is there.                 *)
(* Sources: server/tss_add.go, client/tss_add.go, utils/tss/serviceAdd.go, *)
(* utils/ws/ws.go.                                                         *)
(*                                                                         *)
(* The session starts when the server has what it needs to create its      *)
(* adder.  The server's queue is split by receiver, which is how its       *)
(* senders take from it (see PeerManager).                                 *)
(***************************************************************************)
EXTENDS Naturals, Sequences, FiniteSets, SequencesExt

CONSTANTS New, Existing,  \* the devices
          Server          \* _serverID

ASSUME PartiesAssumption == New # Existing /\ Server \notin {New, Existing}

Devices == {New, Existing}
Parties == Devices \cup {Server}

\* Each device has a connection with a client at one end and a handler of the
\* server at the other; each end has a reader, a main and a TssSend.
Ends      == Devices \X {"client", "handler"}
Client(d)  == <<d, "client">>
Handler(d) == <<d, "handler">>
Peer(e)    == IF e[2] = "client" THEN Handler(e[1]) ELSE Client(e[1])
Party(e)   == IF e[2] = "client" THEN e[1] ELSE Server

TssKinds == {"oldPeer", "newBk", "compute", "result", "verify"}
Controls == {"pubkey", "metadataAck", "tssDone", "metadata", "everythingStored",
             "newDeviceDone", "existingDeviceDone"}
Message  == [kind : TssKinds \cup Controls, from : Parties, PeerID : Parties]

VARIABLES
    round,       \* round[p]: the round of the protocol that p is in, 0 before Start
    handled,     \* handled[p]: the TSS messages that p's process got
    adder,       \* the parties that have created their adder
    main,        \* main[e]: the place of the main goroutine of end e
    reader,      \* reader[e]: the place of its reader
    stage,       \* stage[e]: the variable both of them write
    sender,      \* sender[e]: its TssSend
    toSend,      \* toSend[e]: the queue that TssSend empties
    wire,        \* wire[e]: messages in flight to end e
    serverDone,  \* the ends that have closed serverDone
    chan,        \* the inter-handler channels that hold a value
    stored       \* AddPeer has stored the new device

procVars == <<round, handled, adder>>
goVars   == <<main, reader, stage>>
netVars  == <<sender, toSend, wire>>
endVars  == <<serverDone, chan, stored>>
vars     == <<procVars, goVars, netVars, endVars>>

\* The type invariant: the states that the session can be in.
TypeOK ==
    /\ round      \in [Parties -> 0..5]
    /\ handled    \in [Parties -> SUBSET Message]
    /\ adder      \subseteq Parties
    /\ main       \in [Ends -> {"start", "process", "done", "wait", "finish", "ret"}]
    /\ reader     \in [Ends -> {"adder", "write", "startTss", "stage", "loop"}]
    /\ stage      \in [Ends -> {0, 30, 40}]
    /\ sender     \in [Ends -> {"off", "run", "ret"}]
    /\ toSend     \in [Ends -> Seq(Message)]
    /\ wire       \in [Ends -> Seq(Message)]
    /\ serverDone \subseteq Ends
    /\ chan       \subseteq {"adder", "existingDeviceTssDone", "newDeviceDone",
                             "existingDeviceDone"}
    /\ stored     \in BOOLEAN

Init ==
    /\ round      = [p \in Parties |-> 0]
    /\ handled    = [p \in Parties |-> {}]
    /\ adder      = {}
    /\ main       = [e \in Ends |-> "start"]
    /\ reader     = [e \in Ends |-> IF e[2] = "client" THEN "loop" ELSE "adder"]
    /\ stage      = [e \in Ends |-> 0]
    /\ sender     = [e \in Ends |-> "off"]
    /\ toSend     = [e \in Ends |-> <<>>]
    /\ wire       = [e \in Ends |-> <<>>]
    /\ serverDone = {}
    /\ chan       = {}
    /\ stored     = FALSE

-----------------------------------------------------------------------------
(* Messages.                                                               *)

\* MessageType.MsgStage.
MsgStage(kind) ==
    CASE kind \in {"pubkey", "metadata"} -> 20
      [] kind = "metadataAck"            -> 30
      [] kind \in TssKinds               -> 40
      [] kind = "tssDone"                -> 50
      [] kind = "everythingStored"       -> 70
      [] OTHER                           -> 80

\* The kinds whose case in a reader begins with a check of the stage.
Staged == TssKinds \cup {"tssDone", "newDeviceDone", "existingDeviceDone"}

\* End e writes a message of its own on the connection.
Write(e, kind) ==
    wire' = [wire EXCEPT ![Peer(e)] =
                Append(@, [kind |-> kind, from |-> Party(e), PeerID |-> Party(Peer(e))])]

\* The queue that holds the messages of party p for party q.
QueueOf(p, q) == IF p = Server THEN Handler(q) ELSE Client(p)

\* The reader of end e has a message of one of these kinds.
Take(e, kinds) ==
    /\ reader[e] = "loop"
    /\ wire[e] # <<>>
    /\ Head(wire[e]).kind \in kinds

\* Mutant of Late: the check of the stage is >=.
LateOrNow(e) ==
    /\ Head(wire[e]).kind \in Staged
    /\ stage[e] >= MsgStage(Head(wire[e]).kind)

\* stage > msg.Type.MsgStage: the message is discarded.
Late(e) ==
    /\ Head(wire[e]).kind \in Staged
    /\ stage[e] > MsgStage(Head(wire[e]).kind)

Taken(e) == wire' = [wire EXCEPT ![e] = Tail(@)]

-----------------------------------------------------------------------------
(* The protocol of the alice library.  A round ends when its messages are  *)
(* there; it then sends to the given parties, in any order.                *)

\* The messages of the protocol.
Protocol ==
    {m \in Message :
        \/ m.kind \in {"oldPeer", "result"} /\ m.from # New /\ m.PeerID = New
        \/ m.kind \in {"newBk", "verify"}   /\ m.from = New /\ m.PeerID # New
        \/ m.kind = "compute" /\ New \notin {m.from, m.PeerID} /\ m.from # m.PeerID}

\* The round of its sender at whose end a message is sent, and the round of its
\* receiver that awaits it.
SentIn(kind) ==
    IF kind \in {"oldPeer", "newBk"} THEN 1 ELSE IF kind = "result" THEN 3 ELSE 2

AwaitedIn(kind) ==
    CASE kind = "oldPeer"             -> 1
      [] kind \in {"newBk", "result"} -> 2
      [] kind = "compute"             -> 3
      [] kind = "verify"              -> 4

Sends(p, r)  == {m \in Protocol : m.from = p /\ SentIn(m.kind) = r}
Awaits(p, r) == {m \in Protocol : m.PeerID = p /\ AwaitedIn(m.kind) = r}

LastRound(p) == IF p = New THEN 2 ELSE 4

ProcessDone(p) == round[p] > LastRound(p)

\* The end whose main runs the process of p.
ProcessEnd(p) == IF p = Server THEN Handler(Existing) ELSE Client(p)

\* Party p has the messages of its round, sends its own and goes on.  The
\* messages of a round share a queue.
Advance(p) ==
    /\ round[p] \in 1..LastRound(p)
    /\ Awaits(p, round[p]) \subseteq handled[p]
    /\ \E order \in SetToSeqs(Sends(p, round[p])) :
          toSend' = [e \in Ends |->
                       IF \E m \in Sends(p, round[p]) : e = QueueOf(p, m.PeerID)
                       THEN toSend[e] \o order ELSE toSend[e]]
    /\ round' = [round EXCEPT ![p] = @ + 1]
    /\ UNCHANGED <<handled, adder, goVars, sender, wire, endVars>>

-----------------------------------------------------------------------------
(* Start of the process.                                                   *)

\* The reader of the register handler creates the server's adder and passes
\* it on; that of the accept handler takes it.
CreateAdder ==
    /\ reader[Handler(New)] = "adder"
    /\ adder' = adder \cup {Server}
    /\ chan' = chan \cup {"adder"}
    /\ reader' = [reader EXCEPT ![Handler(New)] = "write"]
    /\ UNCHANGED <<round, handled, main, stage, netVars, serverDone, stored>>

TakeAdder ==
    /\ reader[Handler(Existing)] = "adder"
    /\ "adder" \in chan
    /\ chan' = chan \ {"adder"}
    /\ reader' = [reader EXCEPT ![Handler(Existing)] = "write"]
    /\ UNCHANGED <<procVars, main, stage, netVars, serverDone, stored>>

\* A handler's reader tells its client to start ...
WriteStart(d) ==
    /\ reader[Handler(d)] = "write"
    /\ Write(Handler(d), IF d = New THEN "pubkey" ELSE "metadataAck")
    /\ reader' = [reader EXCEPT ![Handler(d)] = "startTss"]
    /\ UNCHANGED <<procVars, main, stage, sender, toSend, endVars>>

\* ... whose reader creates the adder of the device.
ClientStart(d) ==
    /\ Take(Client(d), {"pubkey", "metadataAck"})
    /\ Taken(Client(d))
    /\ adder' = adder \cup {d}
    /\ reader' = [reader EXCEPT ![Client(d)] = "startTss"]
    /\ UNCHANGED <<round, handled, main, stage, sender, toSend, endVars>>

\* Mutant of StartTss: a handler starts to send before the client is told.
StartTssFirst(e) ==
    /\ reader[e] \in {"write", "startTss"}
    /\ main[e] = "start"
    /\ main' = [main EXCEPT ![e] = "process"]
    /\ reader' = [reader EXCEPT ![e] =
          IF @ = "write" THEN "write" ELSE IF e[2] = "handler" THEN "stage" ELSE "loop"]
    /\ sender' = [sender EXCEPT ![e] = "run"]
    /\ round' = [p \in Parties |->
          IF e = ProcessEnd(p) THEN 1 ELSE round[p]]
    /\ UNCHANGED <<handled, adder, stage, toSend, wire, endVars>>

\* startTss: the main meets its reader, starts TssSend and, but for the register
\* handler, the process.
StartTss(e) ==
    /\ reader[e] = "startTss"
    /\ main[e] = "start"
    /\ main' = [main EXCEPT ![e] = "process"]
    /\ reader' = [reader EXCEPT ![e] = IF e[2] = "handler" THEN "stage" ELSE "loop"]
    /\ sender' = [sender EXCEPT ![e] = "run"]
    /\ round' = [p \in Parties |-> IF e = ProcessEnd(p) THEN 1 ELSE round[p]]
    /\ UNCHANGED <<handled, adder, stage, toSend, wire, endVars>>

\* Mutant of StageStarted: the stage of the accept handler's step before.
StageStartedDevice(d) ==
    /\ reader[Handler(d)] = "stage"
    /\ stage' = [stage EXCEPT ![Handler(d)] = 20]
    /\ reader' = [reader EXCEPT ![Handler(d)] = "loop"]
    /\ UNCHANGED <<procVars, main, netVars, endVars>>

\* The reader of a handler then sets the stage.
StageStarted(d) ==
    /\ reader[Handler(d)] = "stage"
    /\ stage' = [stage EXCEPT ![Handler(d)] = 30]
    /\ reader' = [reader EXCEPT ![Handler(d)] = "loop"]
    /\ UNCHANGED <<procVars, main, netVars, endVars>>

-----------------------------------------------------------------------------
(* TSS messages.                                                           *)

TssSend(e) ==
    /\ sender[e] = "run"
    /\ toSend[e] # <<>>
    /\ wire' = [wire EXCEPT ![Peer(e)] = Append(@, Head(toSend[e]))]
    /\ toSend' = [toSend EXCEPT ![e] = Tail(@)]
    /\ UNCHANGED <<procVars, goVars, sender, endVars>>

\* The select of TssSend finds serverDone closed, or the context cancelled by a
\* main that returned.
TssSendStops(e) ==
    /\ sender[e] = "run"
    /\ e \in serverDone \/ main[e] = "ret"
    /\ sender' = [sender EXCEPT ![e] = "ret"]
    /\ UNCHANGED <<procVars, goVars, toSend, wire, endVars>>

\* Mutant of TssMessage: a party handles every message itself.
TssMessageUnrelayed(e) ==
    /\ Take(e, TssKinds)
    /\ Taken(e)
    /\ handled' = [handled EXCEPT ![Party(e)] = @ \cup {Head(wire[e])}]
    /\ UNCHANGED <<round, adder, goVars, sender, toSend, endVars>>

\* The case of a TSS message.  AdderGenericHandle: a message for this party goes
\* to its process, one for another party to the queue for it.
TssMessage(e) ==
    /\ Take(e, TssKinds)
    /\ Taken(e)
    /\ LET m == Head(wire[e])
       IN  /\ handled' = IF m.PeerID = Party(e) /\ ~Late(e)
                         THEN [handled EXCEPT ![m.PeerID] = @ \cup {m}]
                         ELSE handled
           /\ toSend' = IF m.PeerID # Party(e) /\ ~Late(e)
                        THEN [toSend EXCEPT ![QueueOf(Party(e), m.PeerID)] = Append(@, m)]
                        ELSE toSend
    /\ UNCHANGED <<round, adder, goVars, sender, endVars>>

-----------------------------------------------------------------------------
(* End of the process: the mains.                                          *)

\* Mutant of TssIsDone: the register handler does not wait for the process.
TssIsDoneUnawaited(e) ==
    /\ main[e] = "process"
    /\ e = Handler(New) \/ ProcessDone(Party(e))
    /\ stage' = [stage EXCEPT ![e] = 40]
    /\ main' = [main EXCEPT ![e] = "done"]
    /\ stored' = (stored \/ e = Handler(Existing))
    /\ UNCHANGED <<procVars, reader, netVars, serverDone, chan>>

\* tssDone, no error: the accept handler has also merged the results and stored
\* the new device.
TssIsDone(e) ==
    /\ main[e] = "process"
    /\ ProcessDone(Party(e))
    /\ stage' = [stage EXCEPT ![e] = 40]
    /\ main' = [main EXCEPT ![e] = "done"]
    /\ stored' = (stored \/ e = Handler(Existing))
    /\ UNCHANGED <<procVars, reader, netVars, serverDone, chan>>

\* AcceptDevice tells its handler.
SendTssDone ==
    /\ main[Client(Existing)] = "done"
    /\ Write(Client(Existing), "tssDone")
    /\ main' = [main EXCEPT ![Client(Existing)] = "finish"]
    /\ UNCHANGED <<procVars, reader, stage, sender, toSend, endVars>>

\* The register handler waits for that and sends the metadata ...
SendMetadata ==
    /\ main[Handler(New)] = "done"
    /\ "existingDeviceTssDone" \in chan
    /\ chan' = chan \ {"existingDeviceTssDone"}
    /\ Write(Handler(New), "metadata")
    /\ main' = [main EXCEPT ![Handler(New)] = "wait"]
    /\ UNCHANGED <<procVars, reader, stage, sender, toSend, serverDone, stored>>

\* ... and, when the existing device is done, the end of the session.
SendExistingDeviceDone ==
    /\ main[Handler(New)] = "wait"
    /\ "existingDeviceDone" \in chan
    /\ chan' = chan \ {"existingDeviceDone"}
    /\ Write(Handler(New), "existingDeviceDone")
    /\ serverDone' = serverDone \cup {Handler(New)}
    /\ main' = [main EXCEPT ![Handler(New)] = "ret"]
    /\ UNCHANGED <<procVars, reader, stage, sender, toSend, stored>>

\* Mutant of SendNewDeviceDone: the existing device is told without waiting.
SendNewDeviceDoneEarly ==
    /\ main[Handler(Existing)] = "done"
    /\ chan' = chan \ {"newDeviceDone"}
    /\ Write(Handler(Existing), "newDeviceDone")
    /\ main' = [main EXCEPT ![Handler(Existing)] = "finish"]
    /\ UNCHANGED <<procVars, reader, stage, sender, toSend, serverDone, stored>>

\* The accept handler waits for the new device and tells the existing one.
SendNewDeviceDone ==
    /\ main[Handler(Existing)] = "done"
    /\ "newDeviceDone" \in chan
    /\ chan' = chan \ {"newDeviceDone"}
    /\ Write(Handler(Existing), "newDeviceDone")
    /\ main' = [main EXCEPT ![Handler(Existing)] = "finish"]
    /\ UNCHANGED <<procVars, reader, stage, sender, toSend, serverDone, stored>>

\* A main that waits for serverDone returns.  That of RegisterDevice waits for
\* it as soon as its process is done.
Return(e) ==
    /\ main[e] = IF e = Client(New) THEN "done" ELSE "finish"
    /\ e \in serverDone
    /\ main' = [main EXCEPT ![e] = "ret"]
    /\ UNCHANGED <<procVars, reader, stage, netVars, endVars>>

-----------------------------------------------------------------------------
(* End of the process: the readers.                                        *)

\* The handlers' readers pass the confirmations on to the other handler.
Confirm(d, kind, channel) ==
    /\ Take(Handler(d), {kind})
    /\ Taken(Handler(d))
    /\ Late(Handler(d)) \/ channel \notin chan
    /\ chan' = IF Late(Handler(d)) THEN chan ELSE chan \cup {channel}
    /\ serverDone' = IF kind = "existingDeviceDone" /\ ~Late(Handler(d))
                     THEN serverDone \cup {Handler(d)} ELSE serverDone
    /\ UNCHANGED <<procVars, goVars, sender, toSend, stored>>

TssDoneMessage == Confirm(Existing, "tssDone", "existingDeviceTssDone")

EverythingStoredClientMessage == Confirm(New, "everythingStored", "newDeviceDone")

HandlerExistingDeviceDone == Confirm(Existing, "existingDeviceDone", "existingDeviceDone")

\* The reader of end e takes a message and writes one.
Answer(e, kind) ==
    wire' = [wire EXCEPT
                ![e] = Tail(@),
                ![Peer(e)] = Append(@, [kind |-> kind, from |-> Party(e),
                                        PeerID |-> Party(Peer(e))])]

\* Mutant of MetadataMessage: the case checks the stage, as the others do.
MetadataMessageStaged ==
    /\ Take(Client(New), {"metadata"})
    /\ IF stage[Client(New)] > MsgStage("metadata")
       THEN Taken(Client(New))
       ELSE Answer(Client(New), "everythingStored")
    /\ UNCHANGED <<procVars, goVars, sender, toSend, endVars>>

\* RegisterDevice gets the metadata and answers; this case does not look at the
\* stage.
MetadataMessage ==
    /\ Take(Client(New), {"metadata"})
    /\ Answer(Client(New), "everythingStored")
    /\ UNCHANGED <<procVars, goVars, sender, toSend, endVars>>

\* AcceptDevice learns that the new device is done, answers and closes serverDone.
NewDeviceDoneMessage ==
    /\ Take(Client(Existing), {"newDeviceDone"})
    /\ IF Late(Client(Existing))
       THEN Taken(Client(Existing)) /\ UNCHANGED serverDone
       ELSE /\ Answer(Client(Existing), "existingDeviceDone")
            /\ serverDone' = serverDone \cup {Client(Existing)}
    /\ UNCHANGED <<procVars, goVars, sender, toSend, chan, stored>>

ExistingDeviceDoneMessage ==
    /\ Take(Client(New), {"existingDeviceDone"})
    /\ Taken(Client(New))
    /\ serverDone' = IF Late(Client(New)) THEN serverDone
                     ELSE serverDone \cup {Client(New)}
    /\ UNCHANGED <<procVars, goVars, sender, toSend, chan, stored>>

-----------------------------------------------------------------------------
ReaderSteps ==
    \/ CreateAdder
    \/ TakeAdder
    \/ TssDoneMessage
    \/ EverythingStoredClientMessage
    \/ HandlerExistingDeviceDone
    \/ MetadataMessage
    \/ NewDeviceDoneMessage
    \/ ExistingDeviceDoneMessage
    \/ \E d \in Devices : WriteStart(d) \/ ClientStart(d) \/ StageStarted(d)
    \/ \E e \in Ends : TssMessage(e)

MainSteps ==
    \/ SendTssDone
    \/ SendMetadata
    \/ SendExistingDeviceDone
    \/ SendNewDeviceDone
    \/ \E e \in Ends : StartTss(e) \/ TssIsDone(e) \/ Return(e)

Next ==
    \/ ReaderSteps
    \/ MainSteps
    \/ \E e \in Ends : TssSend(e) \/ TssSendStops(e)
    \/ \E p \in Parties : Advance(p)

\* Every goroutine that can go on does.  Nothing here is disabled by a step of
\* another goroutine but TssSend, which only stops when it may.
Fairness ==
    /\ WF_vars(ReaderSteps)
    /\ WF_vars(MainSteps)
    /\ \A e \in Ends : WF_vars(TssSend(e))
    /\ \A p \in Parties : WF_vars(Advance(p))

Spec == Init /\ [][Next]_vars /\ Fairness

-----------------------------------------------------------------------------
(* Properties.                                                             *)

\* A TSS message never reaches a reader whose party has no adder yet (the case
\* would dereference nil), nor is it relayed through one.
AdderReady ==
    \A e \in Ends :
        wire[e] # <<>> /\ Head(wire[e]).kind \in TssKinds /\ reader[e] = "loop"
            => Party(e) \in adder

\* No message that a party waits for is discarded by a stage check: the server
\* still relays after its own part is done.
NothingTooLate ==
    \A e \in Ends : wire[e] # <<>> => ~Late(e)

\* A TssSend that stops has sent everything, its own messages and those it
\* relays: the confirmations, which do not go through its queue, do not overtake
\* the process.
NothingLeftBehind ==
    \A e \in Ends : sender[e] = "ret" => toSend[e] = <<>>

\* The reader and the main of a handler both write stage, without a lock; the
\* reader never takes it back.
StageNeverBack == [][\A e \in Ends : stage'[e] >= stage[e]]_vars

\* The messages, the relay and the stages implement the abstract process.
Process == INSTANCE ShareProtocol
             WITH Parties <- Parties,
                  New     <- New,
                  running <- {p \in Parties : round[p] > 0},
                  done    <- {p \in Parties : ProcessDone(p)}

ImplementsProcess == Process!Spec

\* The session ends: all four mains return, and the device is stored.
SessionEnds == <>(stored /\ \A e \in Ends : main[e] = "ret")
=============================================================================
