--------------------------------- MODULE Dkg ---------------------------------
(***************************************************************************)
(* Creation of a wallet: client.Dkg and the server's DkgHandler run the    *)
(* distributed key generation over a websocket, then the server stores its *)
(* share and returns the metadata (the key that decrypts the stored share).*)
(* Sources: client/client.go, server/tss_dkg.go, server/vault/wallet.go,   *)
(* server/database/query.sql.go and utils/tss/serviceDkg.go.               *)
(*                                                                         *)
(* All calls are of one user.  Of the rounds of the key generation only the*)
(* last message of each side is modelled: a side has its share when it made*)
(* its own last message and got the other's.                               *)
(***************************************************************************)
EXTENDS Integers, Sequences, FiniteSets

CONSTANTS Calls,       \* calls of client.Dkg, each with its fresh peer id
          OneAtATime,  \* bound: a call starts when everything before it ended
          MaxFaults    \* bound on the failures of a behaviour

ASSUME DkgAssumption == OneAtATime \in BOOLEAN /\ MaxFaults \in Nat

Sides    == {"client", "server"}
Messages == {"peer", "tss", "metadata", "metadataAck"}
Endings  == {"closed", "broken"}

VARIABLES
    main,      \* main[c]: the goroutine of client.Dkg and of DkgHandler
    reader,    \* reader[c]: their reader goroutines
    errs,      \* errs[c]: the goroutines with an error in their errs channel
    done,      \* done[c]: the sides whose serverDone is closed
    conn,      \* conn[c]: the websocket connection
    toServer, toClient,  \* messages in flight
    tss,       \* tss[c]: the key generation of both sides
    made,      \* made[c]: the sides that made their last TSS message,
    sent,      \* sent[c]: whose TssSend passed it on,
    got,       \* got[c]: and that got the one of the other side
    wallets,   \* the rows of the user: the calls whose wallet is stored
    faults     \* failures so far

goVars  == <<main, reader, errs, done>>
netVars == <<conn, toServer, toClient>>
tssVars == <<tss, made, sent, got>>
vars    == <<goVars, netVars, tssVars, wallets, faults>>

ClientStates  == {"idle", "probe", "dial", "tss", "wait", "stuck",
                  "ok", "nil", "err"}
HandlerStates == {"none", "wait", "tss", "store", "stored", "sent",
                  "done", "ret"}
Returned      == {"ok", "nil", "err"}

\* The type invariant: the states that the calls of Dkg can be in.
TypeOK ==
    /\ main     \in [Calls -> [client : ClientStates, server : HandlerStates]]
    /\ reader   \in [Calls -> [Sides -> {"off", "read", "ret"}]]
    /\ errs     \in [Calls -> [Sides -> SUBSET {"reader", "sender"}]]
    /\ done     \in [Calls -> SUBSET Sides]
    /\ conn     \in [Calls -> {"none", "open", "over"}]
    /\ toServer \in [Calls -> Seq(Messages \cup Endings)]
    /\ toClient \in [Calls -> Seq(Messages \cup Endings)]
    /\ tss      \in [Calls -> [Sides -> {"off", "run", "done", "failed"}]]
    /\ made     \in [Calls -> SUBSET Sides]
    /\ sent     \in [Calls -> SUBSET Sides]
    /\ got      \in [Calls -> SUBSET Sides]
    /\ wallets  \subseteq Calls
    /\ faults   \in 0..MaxFaults

Init ==
    /\ main     = [c \in Calls |-> [client |-> "idle", server |-> "none"]]
    /\ reader   = [c \in Calls |-> [s \in Sides |-> "off"]]
    /\ errs     = [c \in Calls |-> [s \in Sides |-> {}]]
    /\ done     = [c \in Calls |-> {}]
    /\ conn     = [c \in Calls |-> "none"]
    /\ toServer = [c \in Calls |-> <<>>]
    /\ toClient = [c \in Calls |-> <<>>]
    /\ tss      = [c \in Calls |-> [s \in Sides |-> "off"]]
    /\ made     = [c \in Calls |-> {}]
    /\ sent     = [c \in Calls |-> {}]
    /\ got      = [c \in Calls |-> {}]
    /\ wallets  = {}
    /\ faults   = 0

-----------------------------------------------------------------------------
(* The websocket connection, as in AddDevice.                              *)

WriteResults(c) == IF conn[c] = "open" THEN {TRUE} ELSE BOOLEAN

Sent(queue, c, m) ==
    IF conn[c] = "open" THEN [queue EXCEPT ![c] = Append(@, m)] ELSE queue

Over(c) == [conn EXCEPT ![c] = IF @ = "open" THEN "over" ELSE @]

\* cancel() comes before Close(StatusNormalClosure) on the successful paths.
FinalClose == Endings

ClientReturns(c, result, ending) ==
    /\ main' = [main EXCEPT ![c].client = result]
    /\ toServer' = Sent(toServer, c, ending)
    /\ conn' = Over(c)

HandlerReturns(c, result, ending) ==
    /\ main' = [main EXCEPT ![c].server = result]
    /\ toClient' = Sent(toClient, c, ending)
    /\ conn' = Over(c)

Fault == faults < MaxFaults /\ faults' = faults + 1

\* A goroutine of side s leaves an error in errs.
Report(c, s, g) == errs' = [errs EXCEPT ![c][s] = @ \cup {g}]

-----------------------------------------------------------------------------
(* The call, the check of the vault and the connection.                    *)

\* GetUserByForeignKey finds a row.
WalletExists == wallets # {}

\* The application calls Dkg.
DkgCall(c) ==
    /\ main[c].client = "idle"
    /\ OneAtATime =>
          \A d \in Calls : /\ main[d].client \in Returned \cup {"idle"}
                           /\ main[d].server \in {"none", "done", "ret"}
    /\ main' = [main EXCEPT ![c].client = "probe"]
    /\ UNCHANGED <<reader, errs, done, netVars, tssVars, wallets, faults>>

\* Mutant of Probe: the conflict is no status the client knows.
ProbeConflictUnknown(c) ==
    /\ main[c].client = "probe"
    /\ main' = [main EXCEPT ![c].client = IF WalletExists THEN "conflict" ELSE "dial"]
    /\ UNCHANGED <<reader, errs, done, netVars, tssVars, wallets, faults>>

\* The first GET of /dkg: 409 if there is a wallet, 426 otherwise.
Probe(c) ==
    /\ main[c].client = "probe"
    /\ main' = [main EXCEPT ![c].client = IF WalletExists THEN "err" ELSE "dial"]
    /\ UNCHANGED <<reader, errs, done, netVars, tssVars, wallets, faults>>

\* Dial: DkgHandler checks again, then accepts the websocket and starts its
\* reader.
DkgHandler(c) ==
    /\ main[c].client = "dial"
    /\ conn[c] = "none"
    /\ IF WalletExists
       THEN /\ main' = [main EXCEPT ![c].client = "err"]
            /\ UNCHANGED <<reader, conn>>
       ELSE /\ main' = [main EXCEPT ![c].server = "wait"]
            /\ reader' = [reader EXCEPT ![c]["server"] = "read"]
            /\ conn' = [conn EXCEPT ![c] = "open"]
    /\ UNCHANGED <<errs, done, toServer, toClient, tssVars, wallets, faults>>

\* The access token, the probe or Dial fails.
DialFails(c) ==
    /\ main[c].client \in {"probe", "dial"}
    /\ conn[c] = "none"
    /\ Fault
    /\ main' = [main EXCEPT ![c].client = "err"]
    /\ UNCHANGED <<reader, errs, done, netVars, tssVars, wallets>>

\* Dial returned: the client sends its peer id, starts its reader and its key
\* generation.
SendPeerId(c) ==
    /\ main[c].client = "dial"
    /\ conn[c] # "none"
    /\ \E ok \in WriteResults(c) :
          IF ok THEN /\ main' = [main EXCEPT ![c].client = "tss"]
                     /\ reader' = [reader EXCEPT ![c]["client"] = "read"]
                     /\ tss' = [tss EXCEPT ![c]["client"] = "run"]
                ELSE /\ main' = [main EXCEPT ![c].client = "err"]
                     /\ UNCHANGED <<reader, tss>>
    /\ toServer' = Sent(toServer, c, "peer")
    /\ UNCHANGED <<errs, done, conn, toClient, made, sent, got, wallets, faults>>

-----------------------------------------------------------------------------
(* Readers.                                                                *)

\* The reader of the server takes message m.
ServerReceives(c, m) ==
    /\ reader[c]["server"] = "read"
    /\ main[c].server \notin {"done", "ret"}
    /\ toServer[c] # <<>>
    /\ Head(toServer[c]) = m
    /\ toServer' = [toServer EXCEPT ![c] = Tail(@)]

\* PeerIdBroadcastMessage: create the server's side and let the main start it.
HandlerPeer(c) ==
    /\ ServerReceives(c, "peer")
    /\ main[c].server = "wait"
    /\ main' = [main EXCEPT ![c].server = "tss"]
    /\ tss' = [tss EXCEPT ![c]["server"] = "run"]
    /\ UNCHANGED <<reader, errs, done, conn, toClient, made, sent, got, wallets,
                   faults>>

\* NewServerDkg fails: the reader reports and returns; the main waits on.
HandlerPeerFails(c) ==
    /\ ServerReceives(c, "peer")
    /\ Fault
    /\ reader' = [reader EXCEPT ![c]["server"] = "ret"]
    /\ Report(c, "server", "reader")
    /\ UNCHANGED <<main, done, conn, toClient, tssVars, wallets>>

\* MetadataAckMessage: close serverDone.
HandlerMetadataAck(c) ==
    /\ ServerReceives(c, "metadataAck")
    /\ done' = [done EXCEPT ![c] = @ \cup {"server"}]
    /\ UNCHANGED <<main, reader, errs, conn, toClient, tssVars, wallets, faults>>

\* The reader of the client takes message m.
ClientReceives(c, m) ==
    /\ reader[c]["client"] = "read"
    /\ main[c].client \notin Returned
    /\ toClient[c] # <<>>
    /\ Head(toClient[c]) = m
    /\ toClient' = [toClient EXCEPT ![c] = Tail(@)]

\* MetadataMessage: acknowledge and close serverDone, whatever the state of
\* the key generation.
ClientMetadata(c) ==
    /\ ClientReceives(c, "metadata")
    /\ \E ok \in WriteResults(c) :
          IF ok THEN /\ done' = [done EXCEPT ![c] = @ \cup {"client"}]
                     /\ UNCHANGED <<reader, errs>>
                ELSE /\ reader' = [reader EXCEPT ![c]["client"] = "ret"]
                     /\ Report(c, "client", "reader")
                     /\ UNCHANGED done
    /\ toServer' = Sent(toServer, c, "metadataAck")
    /\ UNCHANGED <<main, conn, tssVars, wallets, faults>>

\* TssMessage on either side (never discarded: its stage is the last one).
ReceiveTss(c) ==
    /\ \/ /\ ServerReceives(c, "tss")
          /\ got' = [got EXCEPT ![c] = @ \cup {"server"}]
          /\ UNCHANGED toClient
       \/ /\ ClientReceives(c, "tss")
          /\ got' = [got EXCEPT ![c] = @ \cup {"client"}]
          /\ UNCHANGED toServer
    /\ UNCHANGED <<goVars, conn, tss, made, sent, wallets, faults>>

\* A TSS message cannot be decoded or handled: the reader reports and returns.
ReceiveTssFails(c) ==
    /\ Fault
    /\ \E s \in Sides :
          /\ IF s = "server" THEN ServerReceives(c, "tss") /\ UNCHANGED toClient
                             ELSE ClientReceives(c, "tss") /\ UNCHANGED toServer
          /\ reader' = [reader EXCEPT ![c][s] = "ret"]
          /\ Report(c, s, "reader")
    /\ UNCHANGED <<main, done, conn, tssVars, wallets>>

\* The read fails: a normal closure is silent, any other error goes to errs.
ReadEnds(c) ==
    /\ \E s \in Sides, m \in Endings :
          /\ IF s = "server" THEN ServerReceives(c, m) /\ UNCHANGED toClient
                             ELSE ClientReceives(c, m) /\ UNCHANGED toServer
          /\ reader' = [reader EXCEPT ![c][s] = "ret"]
          /\ IF m = "broken" THEN Report(c, s, "reader") ELSE UNCHANGED errs
    /\ UNCHANGED <<main, done, conn, tssVars, wallets, faults>>

-----------------------------------------------------------------------------
(* The key generation (the alice library) and the TssSend goroutines.      *)

\* Side s has everything but the last message of the other and queues its own
\* last message (the earlier messages are not modelled: both sides have been
\* running and its reader is there to get them).
MakeLast(c, s) ==
    /\ tss[c][s] = "run"
    /\ \A t \in Sides : tss[c][t] # "off"
    /\ reader[c][s] = "read"
    /\ s \notin made[c]
    /\ made' = [made EXCEPT ![c] = @ \cup {s}]
    /\ UNCHANGED <<goVars, netVars, tss, sent, got, wallets, faults>>

\* The TssSend of side s still loops: its context is not cancelled, its
\* serverDone is open and it met no error.
TssSendLoops(c, s) ==
    /\ IF s = "client" THEN main[c].client \in {"tss", "wait"}
                       ELSE main[c].server \in {"tss", "store", "stored", "sent"}
    /\ s \notin done[c]
    /\ "sender" \notin errs[c][s]

\* TssSend takes the last message from the queue and writes it.
TssSend(c, s) ==
    /\ TssSendLoops(c, s)
    /\ s \in made[c] \ sent[c]
    /\ sent' = [sent EXCEPT ![c] = @ \cup {s}]
    /\ IF s = "client" THEN toServer' = Sent(toServer, c, "tss") /\ UNCHANGED toClient
                       ELSE toClient' = Sent(toClient, c, "tss") /\ UNCHANGED toServer
    /\ UNCHANGED <<goVars, conn, tss, made, got, wallets, faults>>

\* TssSend writes to a connection that is over.
TssSendFails(c, s) ==
    /\ TssSendLoops(c, s)
    /\ conn[c] = "over"
    /\ Report(c, s, "sender")
    /\ UNCHANGED <<main, reader, done, netVars, tssVars, wallets, faults>>

\* OnStateChanged(StateDone): side s has its share.
TssDone(c, s) ==
    /\ tss[c][s] = "run"
    /\ s \in made[c] \cap got[c]
    /\ tss' = [tss EXCEPT ![c][s] = "done"]
    /\ UNCHANGED <<goVars, netVars, made, sent, got, wallets, faults>>

\* OnStateChanged(StateFailed), or no result after all.
TssFails(c, s) ==
    /\ tss[c][s] = "run"
    /\ Fault
    /\ tss' = [tss EXCEPT ![c][s] = "failed"]
    /\ UNCHANGED <<goVars, netVars, made, sent, got, wallets>>

-----------------------------------------------------------------------------
(* The goroutine of client.Dkg once the key generation runs.               *)

\* Process failed: the error goes to errs, which has room for two, and the call
\* returns neither a share nor an error.
ClientTssFailed(c) ==
    /\ main[c].client = "tss"
    /\ tss[c]["client"] = "failed"
    /\ IF Cardinality(errs[c]["client"]) = 2
       THEN /\ main' = [main EXCEPT ![c].client = "stuck"]
            /\ UNCHANGED <<toServer, conn>>
       ELSE ClientReturns(c, "nil", "broken")
    /\ UNCHANGED <<reader, errs, done, toClient, tssVars, wallets, faults>>

\* Process has a share and ProcessErrors finds an error, or none.
ClientTssDone(c) ==
    /\ main[c].client = "tss"
    /\ tss[c]["client"] = "done"
    /\ IF errs[c]["client"] # {}
       THEN ClientReturns(c, "err", "broken")
       ELSE /\ main' = [main EXCEPT ![c].client = "wait"]
            /\ UNCHANGED <<toServer, conn>>
    /\ UNCHANGED <<reader, errs, done, toClient, tssVars, wallets, faults>>

\* serverDone is closed: close the connection and return the share and the
\* metadata.
ClientServerDone(c) ==
    /\ main[c].client = "wait"
    /\ "client" \in done[c]
    /\ \E e \in FinalClose : ClientReturns(c, "ok", e)
    /\ UNCHANGED <<reader, errs, done, toClient, tssVars, wallets, faults>>

-----------------------------------------------------------------------------
(* The goroutine of DkgHandler once the key generation runs.               *)

\* Process returns: on its failure, or on an error in errs, the handler closes
\* the connection and returns; otherwise it goes on to the vault.
HandlerProcess(c) ==
    /\ main[c].server = "tss"
    /\ tss[c]["server"] \in {"done", "failed"}
    /\ IF tss[c]["server"] = "failed" \/ errs[c]["server"] # {}
       THEN HandlerReturns(c, "ret", "broken")
       ELSE /\ main' = [main EXCEPT ![c].server = "store"]
            /\ UNCHANGED <<toClient, conn>>
    /\ UNCHANGED <<reader, errs, done, toServer, tssVars, wallets, faults>>

\* vault.StoreWallet: one statement inserts the user if there is none, the
\* wallet and the device.  Nothing in the schema refuses a second wallet.
StoreWallet(c) ==
    /\ main[c].server = "store"
    /\ main' = [main EXCEPT ![c].server = "stored"]
    /\ wallets' = wallets \cup {c}
    /\ UNCHANGED <<reader, errs, done, netVars, tssVars, faults>>

\* Mutant of StoreWalletFails: the error is logged and the handler goes on.
StoreWalletFailsIgnored(c) ==
    /\ main[c].server = "store"
    /\ Fault
    /\ main' = [main EXCEPT ![c].server = "stored"]
    /\ UNCHANGED <<reader, errs, done, netVars, tssVars, wallets>>

\* The statement fails: the handler returns, nothing is stored.
StoreWalletFails(c) ==
    /\ main[c].server = "store"
    /\ Fault
    /\ HandlerReturns(c, "ret", "broken")
    /\ UNCHANGED <<reader, errs, done, toServer, tssVars, wallets>>

\* Mutant of HandlerSendMetadata: the metadata is not written.
HandlerSendMetadataDropped(c) ==
    /\ main[c].server = "stored"
    /\ main' = [main EXCEPT ![c].server = "sent"]
    /\ UNCHANGED <<reader, errs, done, netVars, tssVars, wallets, faults>>

\* Send the metadata to the client; the handler returns if the write fails.
HandlerSendMetadata(c) ==
    /\ main[c].server = "stored"
    /\ \E ok \in WriteResults(c) :
          IF ok THEN /\ main' = [main EXCEPT ![c].server = "sent"]
                     /\ toClient' = Sent(toClient, c, "metadata")
                     /\ UNCHANGED conn
                ELSE HandlerReturns(c, "ret", "broken")
    /\ UNCHANGED <<reader, errs, done, toServer, tssVars, wallets, faults>>

\* Mutant of HandlerFinish: close the connection without waiting for the ack.
HandlerFinishUnacked(c) ==
    /\ main[c].server = "sent"
    /\ \E e \in FinalClose : HandlerReturns(c, "done", e)
    /\ UNCHANGED <<reader, errs, done, toServer, tssVars, wallets, faults>>

\* The acknowledgement closed serverDone: close the connection and return.
HandlerFinish(c) ==
    /\ main[c].server = "sent"
    /\ "server" \in done[c]
    /\ \E e \in FinalClose : HandlerReturns(c, "done", e)
    /\ UNCHANGED <<reader, errs, done, toServer, tssVars, wallets, faults>>

-----------------------------------------------------------------------------
(* The connection is lost, or the timeout of a minute cuts it.             *)
Drop(c) ==
    /\ conn[c] = "open"
    /\ Fault
    /\ conn' = [conn EXCEPT ![c] = "over"]
    /\ \E i \in 0..Len(toServer[c]), j \in 0..Len(toClient[c]) :
          /\ toServer' = [toServer EXCEPT ![c] = Append(SubSeq(@, 1, i), "broken")]
          /\ toClient' = [toClient EXCEPT ![c] = Append(SubSeq(@, 1, j), "broken")]
    /\ UNCHANGED <<goVars, tssVars, wallets>>

ClientSteps(c) ==
    \/ Probe(c)
    \/ SendPeerId(c)
    \/ ClientMetadata(c)
    \/ ClientTssFailed(c)
    \/ ClientTssDone(c)
    \/ ClientServerDone(c)

HandlerSteps(c) ==
    \/ DkgHandler(c)
    \/ HandlerPeer(c)
    \/ HandlerMetadataAck(c)
    \/ HandlerProcess(c)
    \/ StoreWallet(c)
    \/ HandlerSendMetadata(c)
    \/ HandlerFinish(c)

Failures(c) ==
    \/ DialFails(c)
    \/ HandlerPeerFails(c)
    \/ ReceiveTssFails(c)
    \/ StoreWalletFails(c)
    \/ Drop(c)
    \/ \E s \in Sides : TssFails(c, s) \/ TssSendFails(c, s)

Next ==
    \E c \in Calls :
        \/ DkgCall(c)
        \/ ClientSteps(c)
        \/ HandlerSteps(c)
        \/ ReceiveTss(c)
        \/ ReadEnds(c)
        \/ \E s \in Sides : MakeLast(c, s) \/ TssSend(c, s) \/ TssDone(c, s)
        \/ Failures(c)

Spec == Init /\ [][Next]_vars

\* Each goroutine that can run eventually runs, and so does each connection.
Fairness ==
    \A c \in Calls :
        /\ WF_vars(ClientSteps(c))
        /\ WF_vars(HandlerSteps(c))
        /\ WF_vars(ReceiveTss(c))
        /\ WF_vars(ReadEnds(c))
        /\ \A s \in Sides : /\ WF_vars(MakeLast(c, s))
                            /\ WF_vars(TssSend(c, s))
                            /\ WF_vars(TssDone(c, s))

FairSpec == Spec /\ Fairness

-----------------------------------------------------------------------------
(* Properties.                                                             *)

\* When Dkg returns a share and its metadata, the server stored the share of
\* that very key generation, both sides had finished it, and the user has no
\* other wallet that a later request could pick instead.
ReturnedIsUsable ==
    \A c \in Calls : main[c].client = "ok" =>
        /\ wallets = {c}
        /\ \A s \in Sides : tss[c][s] = "done"

\* A handler that ends normally, closing the connection with success, stored
\* the wallet and has a client that got the metadata: the key to the encrypted
\* share is nowhere else.
NormalEndMeansDelivered ==
    \A c \in Calls : main[c].server = "done" =>
        /\ c \in wallets
        /\ "client" \in done[c]

\* Without failures the metadata of a stored wallet reaches the client and the
\* handler ends: they do not wait for each other.
StoredIsDelivered ==
    \A c \in Calls :
        c \in wallets ~> \/ "client" \in done[c] /\ main[c].server = "done"
                         \/ faults > 0

\* Without failures the call of a stored wallet returns.  The code breaks it: the
\* client acknowledges the metadata although it may still lack the last TSS
\* message of the server, whose TssSend stops at the acknowledgement; Process
\* then waits for that message for ever.
StoredIsReturned ==
    \A c \in Calls : c \in wallets ~> main[c].client \in Returned
=============================================================================
