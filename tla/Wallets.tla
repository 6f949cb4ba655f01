------------------------------ MODULE Wallets ------------------------------
(***************************************************************************)
(* The wallet of a user as the SDKs keep it: GetWallet, AcceptDevice,      *)
(* Backup and GetWalletFromBackup of the web SDK (through wasm) and of the *)
(* iOS SDK, the storage of the devices, and the wallets in the database.   *)
(* Sources: client/web/meemaw-js/index.js, client/web/wasm/main.go,        *)
(* client/ios/ios.go, meemaw.swift, backup in client/tss_add.go,           *)
(* server/vault/wallet.go and server/database/query.sql.go.                *)
(*                                                                         *)
(* Dkg, RegisterDevice and AcceptDevice appear by the outcomes that Dkg    *)
(* and AddDevice show of them.  The user sets up one device at a time, but *)
(* the handlers of the server know nothing of a client that failed or      *)
(* crashed: they go on, and may write to the database when the user is at  *)
(* the next set-up already.  A share is named by its peer, a wallet by the *)
(* peer that created it; the key that opens the server's part of a wallet  *)
(* (the metadata) by the wallet.                                           *)
(***************************************************************************)
EXTENDS Naturals

CONSTANTS Web, IOS,   \* the devices, by the SDK they run
          MaxPeers,   \* bound on the shares made in a behaviour
          MaxFaults,  \* bound on the failures and crashes of a behaviour
          None

Devices == Web \cup IOS

ASSUME WalletsAssumption ==
    /\ Web \cap IOS = {}
    /\ MaxPeers \in Nat
    /\ MaxFaults \in Nat
    /\ None \notin Devices \cup Nat

Peers == 1..MaxPeers

\* The dkgResult of a call that returned neither a result nor an error.
Null  == 0
Item  == [dkgResult : Peers \cup {Null}, metadata : Peers \cup {None}]

VARIABLES
    users,    \* wallets in the database, per creating peer: [wallet, key, BKs]
    peers,    \* the number of shares made
    store,    \* store[d]: localStorage or keychain item of device d
    wallet,   \* wallet[d]: the Wallet object the application has, or None
    pc,       \* pc[d]: the SDK call of device d
    res,      \* res[d]: the result of Dkg, RegisterDevice or FromBackup
    session,  \* the registration under way, or None
    handlers, \* the handlers of the server that may still write to the database
    overlap,  \* a set-up began while a handler of an earlier one was running
    backups,  \* the backups that Backup returned
    faults    \* failures so far

vars == <<users, peers, store, wallet, pc, res, session, handlers, overlap, backups,
          faults>>

Row == [wallet : Peers, key : Peers, BKs : SUBSET Peers]

ASSUME RowAssumption == None \notin Row

\* A registration: the device that registers, the one that accepts and the item
\* it accepts with; the peer that is made, whether its add-share process began and
\* whether the server has stored it;
\* how RegisterDevice and AcceptDevice returned.  In backup() both run on one
\* device, the first in a goroutine, and share the variable err.
Session == [new : Devices, old : Devices \cup {None}, item : Item \cup {None},
            peer : Peers, tss : BOOLEAN, stored : BOOLEAN,
            reg : {"run", "ok", "nil", "err"},
            acc : {"none", "run", "ok", "nil", "err"},
            backup : BOOLEAN, err : {"nil", "error"},
            goroutine : {"register", "check", "send", "ret"},
            main : {"accept", "check", "wait", "ret"}]

\* A handler: the peer it makes a share for, and the row of the wallet as it was
\* read when the adder was created (GetOriginalWallet); there is none in a DKG.
Handler == [peer : Peers, row : Row \cup {None}]

\* The type invariant: the states that the devices and the database can be in.
TypeOK ==
    /\ \E ws \in SUBSET Peers : users \in [ws -> Row]
    /\ peers   \in 0..MaxPeers
    /\ store   \in [Devices -> [dkgResult : Peers \cup {Null, None},
                                address   : BOOLEAN,
                                metadata  : Peers \cup {None}]]
    /\ wallet  \in [Devices -> Item \cup {None}]
    /\ pc      \in [Devices -> {"idle", "dkg", "dkgstored", "register", "accept",
                                "backup", "restore", "store", "store2", "store3"}]
    /\ res     \in [Devices -> Item \cup {None}]
    /\ session \in Session \cup {None}
    /\ handlers \subseteq Handler
    /\ overlap \in BOOLEAN
    /\ backups \subseteq Item
    /\ faults  \in 0..MaxFaults

Empty == [dkgResult |-> None, address |-> FALSE, metadata |-> None]

Init ==
    /\ users   = [w \in {} |-> None]
    /\ peers   = 0
    /\ store   = [d \in Devices |-> Empty]
    /\ wallet  = [d \in Devices |-> None]
    /\ pc      = [d \in Devices |-> "idle"]
    /\ res     = [d \in Devices |-> None]
    /\ session = None
    /\ handlers = {}
    /\ overlap = FALSE
    /\ backups = {}
    /\ faults  = 0

-----------------------------------------------------------------------------
Fault == faults < MaxFaults /\ faults' = faults + 1

Goes(d, state) == pc' = [pc EXCEPT ![d] = state]

\* A call of d returns item r, which the SDK then stores.
Result(d, r) ==
    /\ Goes(d, "store")
    /\ res' = [res EXCEPT ![d] = r]

Share(p, w) == [dkgResult |-> p, metadata |-> w]

\* Mutant of Nothing: a result that is not there instead of an encoded null.
NothingAtAll == [dkgResult |-> None, metadata |-> None]

Nothing == [dkgResult |-> Null, metadata |-> None]

-----------------------------------------------------------------------------
(* The database.                                                           *)

\* StoreWallet and the query Dkg: a user, a wallet and a device.
StoreWallet(p) ==
    users' = [w \in DOMAIN users \cup {p} |->
                 IF w = p THEN [wallet |-> p, key |-> p, BKs |-> {p}] ELSE users[w]]

\* RetrieveWallet opens the row with the metadata of the item, and the row knows
\* the share of the item.
RetrieveWallet(item, row) == item.metadata = row.key /\ item.dkgResult \in row.BKs

\* The rows of the user: the query takes any of them.
Rows == {users[w] : w \in DOMAIN users}

\* The server can work with the item, whichever row it finds.
Usable(item) == Rows # {} /\ \A row \in Rows : RetrieveWallet(item, row)

\* Mutant of AddPeer: the coefficients of the new process only.
AddPeerReplaces(h) ==
    users' = [w \in DOMAIN users |-> [h.row EXCEPT !.BKs = {h.peer}]]

\* Vault.AddPeer and its query: the parameters that the handler read, with those
\* of the new peer, replace what every row of the user holds by now.
AddPeer(h) ==
    users' = [w \in DOMAIN users |-> [h.row EXCEPT !.BKs = @ \cup {h.peer}]]

-----------------------------------------------------------------------------
(* GetWallet.                                                              *)

\* What is stored is enough for GetWallet: the web SDK looks at two of its
\* three entries, the iOS SDK must find the address in the item.
Stored(d) ==
    /\ store[d].dkgResult \notin {None, Null}
    /\ store[d].address

\* GetWallet returns the stored wallet.
GetStoredWallet(d) ==
    /\ pc[d] = "idle"
    /\ wallet[d] = None
    /\ Stored(d)
    /\ wallet' = [wallet EXCEPT ![d] = [dkgResult |-> store[d].dkgResult,
                                        metadata  |-> store[d].metadata]]
    /\ UNCHANGED <<users, peers, store, pc, res, session, handlers, overlap, backups, faults>>

\* GetWallet finds nothing it can use.  An iOS item without an address makes it
\* throw, each time.
NoWalletStored(d) ==
    /\ pc[d] = "idle"
    /\ wallet[d] = None
    /\ ~Stored(d)
    /\ d \in IOS => store[d].dkgResult = None
    /\ peers < MaxPeers

\* The user sets up one device at a time, but does not see the handlers.
NoOther ==
    /\ session = None
    /\ \A d \in Devices : pc[d] \notin {"dkg", "dkgstored", "register", "restore", "backup"}
    /\ overlap' = (overlap \/ handlers # {})

\* Dkg: the server checks that there is no wallet, and the key generation begins.
StartDkg(d) ==
    /\ NoWalletStored(d)
    /\ NoOther
    /\ users = <<>>
    /\ peers' = peers + 1
    /\ handlers' = handlers \cup {[peer |-> peers + 1, row |-> None]}
    /\ Goes(d, "dkg")
    /\ UNCHANGED <<users, store, wallet, res, session, backups, faults>>

DkgReturns(d) ==
    /\ pc[d] = "dkgstored"
    /\ Result(d, Share(peers, peers))
    /\ UNCHANGED <<users, peers, store, wallet, session, handlers, overlap, backups, faults>>

\* The key generation fails on the device, which gets neither a result nor an error.
DkgNil(d) ==
    /\ pc[d] \in {"dkg", "dkgstored"}
    /\ Fault
    /\ Result(d, Nothing)
    /\ UNCHANGED <<users, peers, store, wallet, session, handlers, overlap, backups>>

\* Dkg fails on the device, whether or not the server has stored the wallet or
\* still will.
DkgFails(d) ==
    /\ pc[d] \in {"dkg", "dkgstored"}
    /\ Fault
    /\ Goes(d, "idle")
    /\ UNCHANGED <<users, peers, store, wallet, res, session, handlers, overlap, backups>>

\* RegisterDevice is called on d, by backup() or not; item is what backup() will
\* accept with.
NewSession(d, backup, item) ==
    /\ NoOther
    /\ peers < MaxPeers
    /\ peers' = peers + 1
    /\ session' = [new |-> d, old |-> IF backup THEN d ELSE None, item |-> item,
                   peer |-> peers + 1, tss |-> FALSE, stored |-> FALSE,
                   reg |-> "run", acc |-> "none", backup |-> backup,
                   err |-> "nil", goroutine |-> "register", main |-> "accept"]

\* Dkg says "conflict": GetWallet calls RegisterDevice.
StartRegister(d) ==
    /\ NoWalletStored(d)
    /\ users # <<>>
    /\ NewSession(d, FALSE, None)
    /\ Goes(d, "register")
    /\ UNCHANGED <<users, store, wallet, res, handlers, backups, faults>>

-----------------------------------------------------------------------------
(* The two calls of a registration.                                        *)

\* The session, or None once neither call has anything left to do.
Unless(s) ==
    IF /\ s.reg # "run" /\ s.acc # "run"
       /\ s.backup => s.goroutine \in {"send", "ret"} /\ s.main = "ret"
    THEN None ELSE s

\* wallet.AcceptDevice on a device that has a wallet.
StartAccept(a) ==
    /\ session # None
    /\ ~session.backup
    /\ session.acc = "none"
    /\ session.reg = "run"
    /\ pc[a] = "idle"
    /\ wallet[a] # None
    /\ session' = [session EXCEPT !.old = a, !.item = wallet[a], !.acc = "run"]
    /\ Goes(a, "accept")
    /\ UNCHANGED <<users, peers, store, wallet, res, handlers, overlap, backups, faults>>

\* backup() calls AcceptDevice.
StartBackupAccept ==
    /\ session # None
    /\ session.backup
    /\ session.acc = "none"
    /\ session' = [session EXCEPT !.acc = "run"]
    /\ UNCHANGED <<users, peers, store, wallet, pc, res, handlers, overlap, backups, faults>>

\* The three parties begin the add-share process: the server has read the wallet.
SessionStarted ==
    /\ session # None
    /\ session.acc = "run"
    /\ session.reg = "run"
    /\ ~session.tss
    /\ \E row \in Rows :
          /\ RetrieveWallet(session.item, row)
          /\ handlers' = handlers \cup {[peer |-> session.peer, row |-> row]}
    /\ session' = [session EXCEPT !.tss = TRUE]
    /\ UNCHANGED <<users, peers, store, wallet, pc, res, overlap, backups, faults>>

\* A handler has its part of the process and writes to the database, whether or
\* not its clients are still there; those that are get to know.
HandlerStores(h) ==
    /\ IF h.row = None
       THEN /\ StoreWallet(h.peer)
            /\ pc' = [d \in Devices |->
                         IF pc[d] = "dkg" /\ h.peer = peers THEN "dkgstored" ELSE pc[d]]
            /\ UNCHANGED session
       ELSE /\ AddPeer(h)
            /\ session' = IF session # None /\ session.tss /\ session.peer = h.peer
                          THEN [session EXCEPT !.stored = TRUE] ELSE session
            /\ UNCHANGED pc
    /\ handlers' = handlers \ {h}
    /\ UNCHANGED <<peers, store, wallet, res, overlap, backups, faults>>

\* A client waits for handler h.
Waiting(h) ==
    IF h.row = None
    THEN h.peer = peers /\ \E d \in Devices : pc[d] = "dkg"
    ELSE /\ session # None /\ session.peer = h.peer
         /\ session.reg = "run" /\ session.acc = "run"

\* The process or the write of a handler fails, or it waits in vain for a client
\* that is gone.
HandlerFails(h) ==
    /\ IF Waiting(h) THEN Fault ELSE UNCHANGED faults
    /\ handlers' = handlers \ {h}
    /\ UNCHANGED <<users, peers, store, wallet, pc, res, session, overlap, backups>>

\* RegisterDevice returns: for GetWallet to the SDK, for backup() to err.
RegisterReturns(outcome) ==
    LET s == [session EXCEPT !.reg = outcome]
    IN  /\ session # None
        /\ session.reg = "run"
        /\ IF session.backup
           THEN /\ session' = [s EXCEPT !.goroutine = "check",
                                        !.err = IF outcome = "err" THEN "error" ELSE "nil"]
                /\ UNCHANGED <<pc, res>>
           ELSE /\ session' = Unless(s)
                /\ \/ /\ outcome = "ok"
                      /\ Result(session.new, Share(session.peer, session.item.metadata))
                   \/ /\ outcome = "nil"
                      /\ Result(session.new, Nothing)
                   \/ /\ outcome = "err"
                      /\ Goes(session.new, "idle")
                      /\ UNCHANGED res
        /\ UNCHANGED <<users, peers, store, wallet, handlers, overlap, backups>>

\* Mutant of RegisterDone: the new device does not wait for the confirmation.
RegisterDoneEarly ==
    /\ session # None
    /\ session.tss
    /\ RegisterReturns("ok")
    /\ UNCHANGED faults

RegisterDone ==
    /\ session # None
    /\ session.stored
    /\ RegisterReturns("ok")
    /\ UNCHANGED faults

\* The process fails: no share and no error.
RegisterNil ==
    /\ session # None
    /\ session.tss
    /\ ~session.stored
    /\ RegisterReturns("nil")
    /\ Fault

RegisterFails == RegisterReturns("err") /\ Fault

\* AcceptDevice returns, to the application or to backup().
AcceptReturns(outcome) ==
    LET s == [session EXCEPT !.acc = outcome]
    IN  /\ session # None
        /\ session.acc = "run"
        /\ IF session.backup
           THEN /\ session' = [s EXCEPT !.main = "check",
                                        !.err = IF outcome = "err" THEN "error" ELSE "nil"]
                /\ UNCHANGED pc
           ELSE /\ session' = Unless(s)
                /\ Goes(session.old, "idle")
        /\ UNCHANGED <<users, peers, store, wallet, res, handlers, overlap, backups>>

AcceptDone ==
    /\ session # None
    /\ session.stored
    /\ AcceptReturns("ok")
    /\ UNCHANGED faults

AcceptNil ==
    /\ session # None
    /\ session.tss
    /\ ~session.stored
    /\ AcceptReturns("nil")
    /\ Fault

AcceptFails == AcceptReturns("err") /\ Fault

\* RetrieveWallet cannot open the wallet, or does not know the share; or
\* backup() has called AcceptDevice before the server published the channels.
AcceptRefused ==
    /\ session # None
    /\ session.acc = "run"
    /\ ~session.tss
    /\ session.backup \/ Rows = {} \/ \E row \in Rows : ~RetrieveWallet(session.item, row)
    /\ AcceptReturns("err")
    /\ UNCHANGED faults

-----------------------------------------------------------------------------
(* backup(), Backup and FromBackup.                                        *)

\* wallet.Backup.
StartBackup(d) ==
    /\ pc[d] = "idle"
    /\ wallet[d] # None
    /\ NewSession(d, TRUE, wallet[d])
    /\ Goes(d, "backup")
    /\ UNCHANGED <<users, store, wallet, res, handlers, backups, faults>>

\* GetWalletFromBackup.
StartRestore(d) ==
    /\ pc[d] = "idle"
    /\ \E b \in backups : NewSession(d, TRUE, b)
    /\ Goes(d, "restore")
    /\ UNCHANGED <<users, store, wallet, res, handlers, backups, faults>>

\* Mutant of RegisterChecked: it returns without sending.
RegisterCheckedSilent ==
    /\ session # None
    /\ session.goroutine = "check"
    /\ session' = Unless([session EXCEPT !.goroutine = "ret"])
    /\ UNCHANGED <<users, peers, store, wallet, pc, res, handlers, overlap, backups, faults>>

\* The goroutine looks at err, which the main goroutine may have written since.
RegisterChecked ==
    /\ session # None
    /\ session.goroutine = "check"
    /\ session' = Unless([session EXCEPT !.goroutine =
                             IF session.err = "error" THEN "ret" ELSE "send"])
    /\ UNCHANGED <<users, peers, store, wallet, pc, res, handlers, overlap, backups, faults>>

\* The main goroutine looks at err: it returns, or waits for newClientDone.
AcceptChecked ==
    /\ session # None
    /\ session.main = "check"
    /\ IF session.err = "error"
       THEN /\ Goes(session.new, "idle")
            /\ session' = Unless([session EXCEPT !.main = "ret"])
       ELSE /\ session' = [session EXCEPT !.main = "wait"]
            /\ UNCHANGED pc
    /\ UNCHANGED <<users, peers, store, wallet, res, handlers, overlap, backups, faults>>

\* newClientDone: the goroutine sends and the main goroutine receives.
BackupDone ==
    session # None /\ session.main = "wait" /\ session.goroutine = "send"

\* backup() returns; Backup encodes the result, FromBackup hands it to the SDK.
BackupReturns ==
    LET d == session.new
        r == IF session.reg = "ok" THEN Share(session.peer, session.item.metadata)
                                   ELSE Nothing
    IN  /\ BackupDone
        /\ session' = None
        /\ IF pc[d] = "backup"
           THEN /\ backups' = backups \cup {r}
                /\ Goes(d, "idle")
                /\ UNCHANGED res
           ELSE /\ Result(d, r)
                /\ UNCHANGED backups
        /\ UNCHANGED <<users, peers, store, wallet, handlers, overlap, faults>>

-----------------------------------------------------------------------------
(* Storing a share.                                                        *)

\* The call of d throws: nothing else is stored.
Throws(d) ==
    /\ Goes(d, "idle")
    /\ res' = [res EXCEPT ![d] = None]

\* The call of d returns the Wallet object.
Returns(d) ==
    /\ Throws(d)
    /\ wallet' = [wallet EXCEPT ![d] = res[d]]

\* index.js reads the address of a dkgResult that is null.
NullResult(d) ==
    /\ d \in Web
    /\ pc[d] = "store"
    /\ res[d].dkgResult = Null
    /\ Throws(d)
    /\ UNCHANGED <<users, peers, store, wallet, session, handlers, overlap, backups, faults>>

\* storeDkgResults: three calls of setItem.
SetDkgResult(d) ==
    /\ d \in Web
    /\ pc[d] = "store"
    /\ res[d].dkgResult # Null
    /\ store' = [store EXCEPT ![d].dkgResult = res[d].dkgResult]
    /\ Goes(d, "store2")
    /\ UNCHANGED <<users, peers, wallet, res, session, handlers, overlap, backups, faults>>

SetAddress(d) ==
    /\ pc[d] = "store2"
    /\ store' = [store EXCEPT ![d].address = TRUE]
    /\ Goes(d, "store3")
    /\ UNCHANGED <<users, peers, wallet, res, session, handlers, overlap, backups, faults>>

SetMetadata(d) ==
    /\ pc[d] = "store3"
    /\ store' = [store EXCEPT ![d].metadata = res[d].metadata]
    /\ Returns(d)
    /\ UNCHANGED <<users, peers, session, handlers, overlap, backups, faults>>

\* StoreWallet of the iOS SDK adds one item; only then the address is read.
AddItem(d) ==
    /\ d \in IOS
    /\ pc[d] = "store"
    /\ store[d].dkgResult = None
    /\ store' = [store EXCEPT ![d] = [dkgResult |-> res[d].dkgResult,
                                      address   |-> res[d].dkgResult # Null,
                                      metadata  |-> res[d].metadata]]
    /\ IF res[d].dkgResult # Null THEN Returns(d) ELSE Throws(d) /\ UNCHANGED wallet
    /\ UNCHANGED <<users, peers, session, handlers, overlap, backups, faults>>

\* walletAlreadyStored.
ItemExists(d) ==
    /\ d \in IOS
    /\ pc[d] = "store"
    /\ store[d].dkgResult # None
    /\ Throws(d)
    /\ UNCHANGED <<users, peers, store, wallet, session, handlers, overlap, backups, faults>>

\* setItem or SecItemAdd fails.
StoreFails(d) ==
    /\ pc[d] \in {"store", "store2", "store3"}
    /\ Fault
    /\ Throws(d)
    /\ UNCHANGED <<users, peers, store, wallet, session, handlers, overlap, backups>>

\* The application ends or the page is closed: its call, its goroutines and its
\* Wallet object are gone, what is stored remains; the handlers go on.
Crash(d) ==
    /\ pc[d] # "idle"
    /\ Fault
    /\ Throws(d)
    /\ wallet' = [wallet EXCEPT ![d] = None]
    /\ session' = IF session = None THEN None
                  ELSE IF session.backup /\ session.new = d THEN None
                  ELSE Unless([session EXCEPT !.reg = IF pc[d] = "register" THEN "err" ELSE @,
                                              !.acc = IF pc[d] = "accept" THEN "err" ELSE @])
    /\ UNCHANGED <<users, peers, store, handlers, overlap, backups>>

\* The application ends between two calls.
Restart(d) ==
    /\ pc[d] = "idle"
    /\ wallet[d] # None
    /\ wallet' = [wallet EXCEPT ![d] = None]
    /\ UNCHANGED <<users, peers, store, pc, res, session, handlers, overlap, backups, faults>>

-----------------------------------------------------------------------------
\* What the code does by itself once a call was made.
Progress ==
    \/ SessionStarted \/ \E h \in handlers : HandlerStores(h)
    \/ RegisterDone \/ AcceptDone \/ AcceptRefused
    \/ StartBackupAccept \/ RegisterChecked \/ AcceptChecked \/ BackupReturns

Next ==
    \/ Progress
    \/ RegisterNil \/ RegisterFails \/ AcceptNil \/ AcceptFails
    \/ \E h \in handlers : HandlerFails(h)
    \/ \E d \in Devices :
          \/ GetStoredWallet(d) \/ StartDkg(d) \/ DkgReturns(d) \/ DkgNil(d)
          \/ DkgFails(d) \/ StartRegister(d) \/ StartAccept(d) \/ StartBackup(d)
          \/ StartRestore(d) \/ NullResult(d) \/ SetDkgResult(d) \/ SetAddress(d)
          \/ SetMetadata(d) \/ AddItem(d) \/ ItemExists(d) \/ StoreFails(d)
          \/ Crash(d) \/ Restart(d)

Spec == Init /\ [][Next]_vars

FairSpec == Spec /\ WF_vars(Progress)

-----------------------------------------------------------------------------
(* Properties.                                                             *)

\* Every Wallet object the SDKs return can be used with the server, unless its
\* metadata was not stored (GetWallet of index.js does not look at it) or a set-up
\* began while a handler of an earlier one was running.
ReturnedUsable ==
    overlap \/ \A d \in Devices :
        wallet[d] # None => Usable(wallet[d]) \/ wallet[d].metadata = None

\* Although AddPeer writes back a row that was read before, and a handler goes on
\* when its client fails or crashes: as long as no set-up begins before the handlers
\* of the last one are done, what a device has stored and could be used before can
\* be used after the step (AcceptDeviceHandler, AddPeer, StoreWallet).
OthersUnharmed ==
    [][overlap' \/ \A d \in Devices :
           LET item == [dkgResult |-> store[d].dkgResult, metadata |-> store[d].metadata]
           IN  Usable(item) /\ store'[d] = store[d] => Usable(item)']_vars

\* Backup and GetWalletFromBackup return when nothing fails, although they wait
\* for newClientDone (backup).
BackupEnds ==
    \A d \in Devices :
        pc[d] \in {"backup", "restore"} ~> pc[d] \notin {"backup", "restore"} \/ faults > 0

\* A backup is a new fully-functional share (Backup).
BackupUsable == \A b \in backups : Usable(b)
=============================================================================
