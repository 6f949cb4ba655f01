--------------------------- MODULE Wallets_proofs ---------------------------
(***************************************************************************)
(* Proofs about Wallets, for any devices of the two SDKs and any number of *)
(* shares, failures and crashes: as long as no set-up begins while a       *)
(* handler of an earlier one is running, the Wallet objects that the SDKs  *)
(* return can be used, and no step takes a wallet from a device that holds *)
(* one, although AddPeer writes back what the handler read before.         *)
(***************************************************************************)
EXTENDS Wallets, TLAPS

-----------------------------------------------------------------------------
(* The inductive invariant.                                                *)

\* Wallets u are there, and metadata m opens all of them, unless o.
Keyed(u, o, m) == o \/ (DOMAIN u # {} /\ \A w \in DOMAIN u : m = u[w].key)

\* Wallets u are there, and the server knows share p in all of them, unless o.
Known(u, o, p) == o \/ (DOMAIN u # {} /\ \A w \in DOMAIN u : p \in u[w].BKs)

\* The server knows the share of an item and the metadata opens the wallets, each
\* of them if it is there.
Works(u, o, item) ==
    /\ item.dkgResult \notin {None, Null} => Known(u, o, item.dkgResult)
    /\ item.metadata # None => Keyed(u, o, item.metadata)

Storing == {"store", "store2", "store3"}

\* A crash may leave a stored share without its metadata.
StoreInv == \A d \in Devices : Works(users, overlap, store[d])

WalletInv ==
    \A d \in Devices :
        wallet[d] # None => Works(users, overlap, wallet[d]) /\ wallet[d].dkgResult # Null

\* A result that is being stored; the second and third entry belong to a share.
ResInv ==
    \A d \in Devices :
        /\ pc[d] \in Storing => res[d] \in Item /\ Works(users, overlap, res[d])
        /\ pc[d] \in {"store2", "store3"} => res[d].dkgResult # Null

\* A device makes a wallet with the last peer, and the server stores it so.
DkgInv ==
    \A d \in Devices :
        /\ pc[d] \in {"dkg", "dkgstored"} => peers \in Peers
        /\ pc[d] = "dkgstored" => Keyed(users, overlap, peers) /\ Known(users, overlap, peers)

\* There is one handler at most, what it read is what the rows still hold, and it
\* belongs to the registration under way.
Alone   == \A g, h \in handlers : g = h
Alike   == \A v, w \in DOMAIN users : users[v] = users[w]
Current ==
    \A h \in handlers :
        IF h.row = None THEN DOMAIN users = {}
        ELSE DOMAIN users # {} /\ \A w \in DOMAIN users : users[w] = h.row
Begun ==
    session # None =>
        /\ ~session.tss => handlers = {}
        /\ session.tss => \A h \in handlers :
                              h.row # None => h.row.key = session.item.metadata

HandlerInv == overlap \/ (Alone /\ Alike /\ Current /\ Begun)

\* A registration accepts with an item that the server can work with; once the
\* new peer is stored, it is known under the metadata of that item.
SessionInv ==
    session # None =>
        /\ session.backup \/ session.acc = "run" => session.item \in Item
        /\ session.tss => session.acc # "none" /\ session.item \in Item
        /\ session.stored => session.tss
        /\ session.reg = "ok" => session.stored
        /\ session.stored => /\ Keyed(users, overlap, session.item.metadata)
                             /\ Known(users, overlap, session.peer)

-----------------------------------------------------------------------------
(* The types, part by part.                                                *)

StoredItem == [dkgResult : Peers \cup {Null, None}, address : BOOLEAN,
               metadata : Peers \cup {None}]

States == {"idle", "dkg", "dkgstored", "register", "accept", "backup", "restore",
           "store", "store2", "store3"}

UsersType(u) == \E ws \in SUBSET Peers : u \in [ws -> Row]

Types ==
    /\ UsersType(users)
    /\ peers \in 0..MaxPeers
    /\ store \in [Devices -> StoredItem]
    /\ wallet \in [Devices -> Item \cup {None}]
    /\ pc \in [Devices -> States]
    /\ res \in [Devices -> Item \cup {None}]
    /\ session \in Session \cup {None}
    /\ handlers \subseteq Handler
    /\ overlap \in BOOLEAN
    /\ backups \subseteq Item
    /\ faults \in 0..MaxFaults

LEMMA TypesOK == TypeOK <=> Types
  BY DEF TypeOK, Types, UsersType, StoredItem, States

IInv == Types /\ StoreInv /\ WalletInv /\ ResInv /\ DkgInv /\ SessionInv /\ HandlerInv

-----------------------------------------------------------------------------
(* What an unchanged database and pc preserve.                             *)

\* The handlers go on, whatever becomes of the calls of their registration.
LEMMA HandlerKept ==
    ASSUME HandlerInv, UNCHANGED <<users, overlap, handlers>>,
           \/ session' = None
           \/ /\ session # None /\ session'.tss = session.tss
              /\ session.tss => session'.item = session.item
    PROVE  HandlerInv'
  <1>1. CASE overlap
    BY <1>1 DEF HandlerInv
  <1>2. CASE ~overlap
    <2>1. Alone /\ Alike /\ Current /\ Begun
      BY <1>2 DEF HandlerInv
    <2>2. Alone' /\ Alike' /\ Current'
      BY <2>1 DEF Alone, Alike, Current
    <2>3. Begun'
      BY <2>1 DEF Begun
    <2>4. QED
      BY <2>2, <2>3 DEF HandlerInv
  <1>3. QED
    BY <1>1, <1>2

LEMMA HandlerSame ==
    ASSUME IInv, UNCHANGED <<users, overlap, handlers, session>>
    PROVE  HandlerInv'
  BY HandlerKept DEF IInv

LEMMA FaultType ==
    ASSUME faults \in 0..MaxFaults, UNCHANGED faults \/ Fault
    PROVE  faults' \in 0..MaxFaults
  BY WalletsAssumption DEF Fault

LEMMA GoesType ==
    ASSUME pc \in [Devices -> States], NEW d, NEW x \in States, Goes(d, x)
    PROVE  /\ pc' \in [Devices -> States]
           /\ \A e \in Devices : pc'[e] = IF e = d THEN x ELSE pc[e]
  BY DEF Goes

\* A device goes to a state in which it neither sets up nor stores.
LEMMA GoesQuiet ==
    ASSUME IInv, NEW d, NEW x \in {"idle", "accept"}, Goes(d, x),
           UNCHANGED <<users, peers, overlap>>, UNCHANGED res \/ res' = [res EXCEPT ![d] = None]
    PROVE  ResInv' /\ DkgInv' /\ pc' \in [Devices -> States]
                   /\ res' \in [Devices -> Item \cup {None}]
  <1>1. /\ pc' \in [Devices -> States]
        /\ \A e \in Devices : pc'[e] = IF e = d THEN x ELSE pc[e]
    BY GoesType DEF IInv, Types, States
  <1>2. /\ res' \in [Devices -> Item \cup {None}]
        /\ \A e \in Devices \ {d} : res'[e] = res[e]
    BY DEF IInv, Types
  <1>3. ResInv'
    BY <1>1, <1>2 DEF IInv, ResInv, Storing
  <1>4. DkgInv'
    BY <1>1 DEF IInv, DkgInv
  <1>5. QED
    BY <1>1, <1>2, <1>3, <1>4

\* A call of d returns a result to the SDK.
LEMMA GoesStore ==
    ASSUME IInv, NEW d \in Devices, NEW r \in Item, Result(d, r), Works(users, overlap, r),
           UNCHANGED <<users, peers, overlap>>
    PROVE  ResInv' /\ DkgInv' /\ pc' \in [Devices -> States]
                   /\ res' \in [Devices -> Item \cup {None}]
  <1>1. /\ pc' \in [Devices -> States]
        /\ \A e \in Devices : pc'[e] = IF e = d THEN "store" ELSE pc[e]
    BY GoesType DEF IInv, Types, States, Result
  <1>2. /\ res' \in [Devices -> Item \cup {None}]
        /\ \A e \in Devices : res'[e] = IF e = d THEN r ELSE res[e]
    BY DEF IInv, Types, Result
  <1>3. ResInv'
    BY <1>1, <1>2 DEF IInv, ResInv, Storing
  <1>4. DkgInv'
    BY <1>1 DEF IInv, DkgInv
  <1>5. QED
    BY <1>1, <1>2, <1>3, <1>4

-----------------------------------------------------------------------------
(* GetWallet.                                                              *)

LEMMA GetStoredStep ==
    ASSUME IInv, NEW d \in Devices, GetStoredWallet(d)
    PROVE  IInv'
  <1> DEFINE r == [dkgResult |-> store[d].dkgResult, metadata |-> store[d].metadata]
  <1>1. /\ UNCHANGED <<users, peers, store, pc, res, session, handlers, overlap, backups, faults>>
        /\ wallet' = [wallet EXCEPT ![d] = r]
        /\ store[d].dkgResult \notin {None, Null}
    BY DEF GetStoredWallet, Stored
  <1>2. r \in Item
    BY <1>1 DEF IInv, Types, StoredItem, Item
  <1> HIDE DEF r
  <1>3. Types'
    BY <1>1, <1>2 DEF IInv, Types
  <1>4. WalletInv'
    <2>1. Works(users, overlap, r) /\ r.dkgResult # Null
      BY <1>1 DEF IInv, StoreInv, Works, r
    <2>2. \A e \in Devices : wallet'[e] = IF e = d THEN r ELSE wallet[e]
      BY <1>1 DEF IInv, Types
    <2>3. QED
      BY <1>1, <2>1, <2>2 DEF IInv, WalletInv
  <1>5. HandlerInv'
    BY <1>1, HandlerSame
  <1>6. QED
    BY <1>1, <1>3, <1>4, <1>5 DEF IInv, StoreInv, ResInv, DkgInv, SessionInv

\* The wallets after a step open with what opened them before, and the server
\* knows the shares that it knew.
Grows(u, o, uu, oo) ==
    \A x : (Keyed(u, o, x) => Keyed(uu, oo, x)) /\ (Known(u, o, x) => Known(uu, oo, x))

LEMMA GrowsInv ==
    ASSUME IInv, Grows(users, overlap, users', overlap')
    PROVE  /\ UNCHANGED store => StoreInv'
           /\ UNCHANGED wallet => WalletInv'
           /\ UNCHANGED <<pc, res>> => ResInv'
  <1>1. ASSUME NEW r, Works(users, overlap, r)
        PROVE  Works(users', overlap', r)
    BY <1>1 DEF Works, Grows
  <1>2. QED
    BY <1>1 DEF IInv, Grows, StoreInv, WalletInv, ResInv

\* A set-up begins.
LEMMA SetUpGrows ==
    ASSUME Types, NoOther, UNCHANGED users
    PROVE  Grows(users, overlap, users', overlap') /\ overlap' \in BOOLEAN
  <1>1. overlap' \in BOOLEAN /\ (overlap => overlap')
    BY DEF NoOther, Types
  <1>2. QED
    BY <1>1 DEF Grows, Keyed, Known

LEMMA StartDkgStep ==
    ASSUME IInv, NEW d \in Devices, StartDkg(d)
    PROVE  IInv' /\ Grows(users, overlap, users', overlap')
  <1>1. /\ UNCHANGED <<users, store, wallet, res, session, backups, faults>>
        /\ peers' = peers + 1 /\ peers < MaxPeers
        /\ handlers' = handlers \cup {[peer |-> peers + 1, row |-> None]}
        /\ Goes(d, "dkg") /\ NoOther /\ users = <<>>
    BY DEF StartDkg, NoWalletStored
  <1>2. /\ pc' \in [Devices -> States]
        /\ \A e \in Devices : pc'[e] = IF e = d THEN "dkg" ELSE pc[e]
    BY <1>1, GoesType DEF IInv, Types, States
  <1>3. peers + 1 \in Peers /\ peers' \in Peers /\ peers' \in 0..MaxPeers
    BY <1>1, WalletsAssumption DEF IInv, Types, Peers
  <1>4. /\ Grows(users, overlap, users', overlap')
        /\ overlap' \in BOOLEAN
    BY <1>1, SetUpGrows DEF IInv
  <1>5. handlers' \subseteq Handler
    BY <1>1, <1>3 DEF IInv, Types, Handler
  <1>6. Types'
    BY <1>1, <1>2, <1>3, <1>4, <1>5 DEF IInv, Types
  <1>7. StoreInv' /\ WalletInv'
    BY <1>1, <1>4, GrowsInv
  <1>8. ResInv'
    <2>1. ASSUME NEW r, Works(users, overlap, r)
          PROVE  Works(users', overlap', r)
      BY <1>4, <2>1 DEF Works, Grows
    <2>2. QED
      BY <1>1, <1>2, <2>1 DEF IInv, ResInv, Storing
  <1>9. DkgInv'
    <2>1. \A e \in Devices : pc[e] # "dkgstored"
      BY <1>1 DEF NoOther
    <2>2. QED
      BY <1>2, <1>3, <2>1 DEF DkgInv
  <1>10. SessionInv'
    BY <1>1 DEF NoOther, SessionInv
  <1>11. HandlerInv'
    <2>1. CASE overlap'
      BY <2>1 DEF HandlerInv
    <2>2. CASE ~overlap'
      <3>1. handlers = {} /\ session' = None
        BY <1>1, <2>2 DEF NoOther
      <3>2. handlers' = {[peer |-> peers + 1, row |-> None]} /\ DOMAIN users' = {}
        BY <1>1, <3>1
      <3>3. Alone' /\ Alike' /\ Current' /\ Begun'
        BY <3>1, <3>2 DEF Alone, Alike, Current, Begun
      <3>4. QED
        BY <3>3 DEF HandlerInv
    <2>3. QED
      BY <2>1, <2>2
  <1>12. QED
    BY <1>4, <1>6, <1>7, <1>8, <1>9, <1>10, <1>11 DEF IInv

LEMMA DkgEndStep ==
    ASSUME IInv, NEW d \in Devices, DkgReturns(d) \/ DkgNil(d) \/ DkgFails(d)
    PROVE  IInv'
  <1>1. /\ UNCHANGED <<users, peers, store, wallet, session, handlers, overlap, backups>>
        /\ UNCHANGED faults \/ Fault
    BY DEF DkgReturns, DkgNil, DkgFails
  <1>2. ResInv' /\ DkgInv' /\ pc' \in [Devices -> States]
                /\ res' \in [Devices -> Item \cup {None}]
    <2>1. CASE DkgReturns(d)
      <3> DEFINE r == Share(peers, peers)
      <3>1. Result(d, r) /\ pc[d] = "dkgstored"
        BY <2>1 DEF DkgReturns
      <3>2. Keyed(users, overlap, peers) /\ Known(users, overlap, peers) /\ peers \in Peers
        BY <3>1 DEF IInv, DkgInv
      <3>3. r \in Item /\ Works(users, overlap, r)
        BY <3>2 DEF Share, Item, Works
      <3> HIDE DEF r
      <3>4. QED
        BY <1>1, <3>1, <3>3, GoesStore
    <2>2. CASE DkgNil(d)
      <3>1. Result(d, Nothing)
        BY <2>2 DEF DkgNil
      <3>2. Nothing \in Item /\ Works(users, overlap, Nothing)
        BY DEF Nothing, Item, Works
      <3>3. QED
        BY <1>1, <3>1, <3>2, GoesStore
    <2>3. CASE DkgFails(d)
      BY <1>1, <2>3, GoesQuiet DEF DkgFails
    <2>4. QED
      BY <2>1, <2>2, <2>3
  <1>3. faults' \in 0..MaxFaults
    BY <1>1, FaultType DEF IInv, Types
  <1>4. Types'
    BY <1>1, <1>2, <1>3 DEF IInv, Types
  <1>5. HandlerInv'
    BY <1>1, HandlerSame
  <1>6. QED
    BY <1>1, <1>2, <1>4, <1>5 DEF IInv, StoreInv, WalletInv, SessionInv

-----------------------------------------------------------------------------
(* A registration begins.                                                  *)

LEMMA UnlessCase ==
    ASSUME NEW s
    PROVE  Unless(s) = None \/ Unless(s) = s
  BY DEF Unless

\* NewSession, by whatever call.
LEMMA NewSessionStep ==
    ASSUME IInv, NEW d \in Devices, NEW backup \in BOOLEAN, NEW item \in Item \cup {None},
           backup => item \in Item,
           NEW x \in {"register", "backup", "restore"},
           NewSession(d, backup, item), Goes(d, x),
           UNCHANGED <<users, store, wallet, res, handlers, backups, faults>>
    PROVE  IInv' /\ Grows(users, overlap, users', overlap')
  <1>1. NoOther /\ peers' = peers + 1 /\ peers < MaxPeers
    BY DEF NewSession
  <1>2. /\ pc' \in [Devices -> States]
        /\ \A e \in Devices : pc'[e] = IF e = d THEN x ELSE pc[e]
    BY GoesType DEF IInv, Types, States
  <1>3. peers + 1 \in Peers /\ peers' \in 0..MaxPeers
    BY <1>1, WalletsAssumption DEF IInv, Types, Peers
  <1>4. session' \in Session
    BY <1>3 DEF NewSession, Session
  <1>5. /\ Grows(users, overlap, users', overlap')
        /\ overlap' \in BOOLEAN
    BY <1>1, SetUpGrows DEF IInv
  <1>6. Types'
    BY <1>2, <1>3, <1>4, <1>5 DEF IInv, Types
  <1>7. ResInv'
    <2>1. ASSUME NEW r, Works(users, overlap, r)
          PROVE  Works(users', overlap', r)
      BY <1>5, <2>1 DEF Works, Grows
    <2>2. QED
      BY <1>2, <2>1 DEF IInv, ResInv, Storing
  <1>8. DkgInv'
    <2>1. \A e \in Devices : pc[e] \notin {"dkg", "dkgstored"}
      BY <1>1 DEF NoOther
    <2>2. QED
      BY <1>2, <2>1 DEF DkgInv
  <1>9. SessionInv'
    BY DEF SessionInv, NewSession
  <1>10. HandlerInv'
    <2>1. CASE overlap'
      BY <2>1 DEF HandlerInv
    <2>2. CASE ~overlap'
      <3>1. handlers' = {} /\ ~overlap
        BY <1>1, <2>2 DEF NoOther
      <3>2. Alike
        BY <3>1 DEF IInv, HandlerInv
      <3>3. session'.tss = FALSE
        BY DEF NewSession
      <3>4. Alone' /\ Alike' /\ Current' /\ Begun'
        BY <3>1, <3>2, <3>3 DEF Alone, Alike, Current, Begun
      <3>5. QED
        BY <3>4 DEF HandlerInv
    <2>3. QED
      BY <2>1, <2>2
  <1>11. StoreInv' /\ WalletInv'
    BY <1>5, GrowsInv
  <1>12. QED
    BY <1>5, <1>6, <1>7, <1>8, <1>9, <1>10, <1>11 DEF IInv

LEMMA StartSessionStep ==
    ASSUME IInv, NEW d \in Devices, StartRegister(d) \/ StartBackup(d) \/ StartRestore(d)
    PROVE  IInv' /\ Grows(users, overlap, users', overlap')
  <1>1. CASE StartRegister(d)
    BY <1>1, NewSessionStep DEF StartRegister
  <1>2. CASE StartBackup(d)
    <2>1. wallet[d] \in Item
      BY <1>2 DEF StartBackup, IInv, Types
    <2>2. QED
      BY <1>2, <2>1, NewSessionStep DEF StartBackup
  <1>3. CASE StartRestore(d)
    <2>1. PICK b \in backups : NewSession(d, TRUE, b)
      BY <1>3 DEF StartRestore
    <2>2. b \in Item
      BY DEF IInv, Types
    <2>3. QED
      BY <1>3, <2>1, <2>2, NewSessionStep DEF StartRestore
  <1>4. QED
    BY <1>1, <1>2, <1>3

-----------------------------------------------------------------------------
(* The two calls of a registration.                                        *)

LEMMA StartAcceptStep ==
    ASSUME IInv, NEW d \in Devices, StartAccept(d)
    PROVE  IInv'
  <1>1. /\ UNCHANGED <<users, peers, store, wallet, res, handlers, overlap, backups, faults>>
        /\ session' = [session EXCEPT !.old = d, !.item = wallet[d], !.acc = "run"]
        /\ Goes(d, "accept") /\ session # None /\ wallet[d] # None
    BY DEF StartAccept
  <1>2. session \in Session /\ wallet[d] \in Item
    BY <1>1 DEF IInv, Types
  <1>3. session.acc = "none"
    BY DEF StartAccept
  <1>4. session' \in Session
    BY <1>1, <1>2 DEF Session
  <1>5. SessionInv'
    BY <1>1, <1>2, <1>3 DEF IInv, SessionInv, Session
  <1>6. /\ ResInv' /\ DkgInv' /\ pc' \in [Devices -> States]
        /\ res' \in [Devices -> Item \cup {None}]
    BY <1>1, GoesQuiet
  <1>7. HandlerInv'
    <2>1. session'.tss = session.tss /\ ~session.tss
      BY <1>1, <1>2, <1>3 DEF Session, IInv, SessionInv
    <2>2. QED
      BY <1>1, <2>1, HandlerKept DEF IInv
  <1>8. QED
    BY <1>1, <1>4, <1>5, <1>6, <1>7 DEF IInv, Types, StoreInv, WalletInv

\* Steps of backup() and of the server that only concern the session.
LEMMA SessionOnlyStep ==
    ASSUME IInv, StartBackupAccept \/ RegisterChecked
    PROVE  IInv'
  <1>1. /\ UNCHANGED <<users, peers, store, wallet, pc, res, handlers, overlap, backups, faults>>
        /\ session # None
    BY DEF StartBackupAccept, RegisterChecked
  <1>2. session \in Session
    BY <1>1 DEF IInv, Types
  <1>3. session' \in Session \cup {None} /\ SessionInv'
    <2>1. CASE StartBackupAccept
      <3>1. session' \in Session
        BY <1>2, <2>1 DEF StartBackupAccept, Session
      <3>2. SessionInv'
        BY <1>1, <1>2, <2>1 DEF StartBackupAccept, IInv, SessionInv, Session
      <3>3. QED
        BY <3>1, <3>2
    <2>2. CASE RegisterChecked
      <3>1. PICK g \in {"ret", "send"} : session' = Unless([session EXCEPT !.goroutine = g])
        BY <2>2 DEF RegisterChecked
      <3>2. session' = None \/ session' = [session EXCEPT !.goroutine = g]
        BY <3>1, UnlessCase
      <3>3. session' \in Session \cup {None}
        BY <1>2, <3>2 DEF Session
      <3>4. SessionInv'
        BY <1>1, <1>2, <3>2 DEF IInv, SessionInv, Session
      <3>5. QED
        BY <3>3, <3>4
    <2>3. QED
      BY <2>1, <2>2
  <1>4. HandlerInv'
    <2>1. \/ session' = None
          \/ session'.tss = session.tss /\ session'.item = session.item
      <3>1. CASE StartBackupAccept
        BY <1>2, <3>1 DEF StartBackupAccept, Session
      <3>2. CASE RegisterChecked
        <4>1. PICK g : session' = Unless([session EXCEPT !.goroutine = g])
          BY <3>2 DEF RegisterChecked
        <4>2. QED
          BY <1>2, <4>1, UnlessCase DEF Session
      <3>3. QED
        BY <3>1, <3>2
    <2>2. QED
      BY <1>1, <2>1, HandlerKept DEF IInv
  <1>5. QED
    BY <1>1, <1>3, <1>4 DEF IInv, Types, StoreInv, WalletInv, ResInv, DkgInv

\* The server reads the wallet and begins the add-share process.
LEMMA SessionStartedStep ==
    ASSUME IInv, SessionStarted
    PROVE  IInv'
  <1>1. /\ UNCHANGED <<users, peers, store, wallet, pc, res, overlap, backups, faults>>
        /\ session # None /\ session.acc = "run" /\ ~session.tss
        /\ session' = [session EXCEPT !.tss = TRUE]
    BY DEF SessionStarted
  <1>2. session \in Session /\ session.peer \in Peers
    BY <1>1 DEF IInv, Types, Session
  <1>3. PICK w \in DOMAIN users :
            /\ session.item.metadata = users[w].key
            /\ handlers' = handlers \cup {[peer |-> session.peer, row |-> users[w]]}
    BY DEF SessionStarted, Rows, RetrieveWallet
  <1>4. users[w] \in Row
    BY DEF IInv, Types, UsersType
  <1>5. handlers' \subseteq Handler
    BY <1>2, <1>3, <1>4 DEF IInv, Types, Handler
  <1>6. session' \in Session
    BY <1>1, <1>2 DEF Session
  <1>7. Types'
    BY <1>1, <1>5, <1>6 DEF IInv, Types
  <1>8. SessionInv'
    BY <1>1, <1>2 DEF IInv, SessionInv, Session
  <1>9. HandlerInv'
    <2>1. CASE overlap
      BY <1>1, <2>1 DEF HandlerInv
    <2>2. CASE ~overlap
      <3>1. handlers = {} /\ Alike
        BY <1>1, <2>2 DEF IInv, HandlerInv, Begun
      <3>2. handlers' = {[peer |-> session.peer, row |-> users[w]]}
        BY <1>3, <3>1
      <3>3. \A h \in handlers' : h.row = users[w]
        BY <3>2
      <3>4. session'.item = session.item /\ session'.tss
        BY <1>1, <1>2 DEF Session
      <3>5. Alone' /\ Alike'
        BY <1>1, <3>1, <3>2 DEF Alone, Alike
      <3>6. Current'
        <4>1. DOMAIN users # {} /\ \A v \in DOMAIN users : users[v] = users[w]
          BY <1>3, <3>1 DEF Alike
        <4>2. users[w] # None
          BY <1>4, RowAssumption
        <4>3. QED
          BY <1>1, <3>3, <4>1, <4>2 DEF Current
      <3>7. Begun'
        BY <1>3, <3>3, <3>4 DEF Begun
      <3>8. QED
        BY <3>5, <3>6, <3>7 DEF HandlerInv
    <2>3. QED
      BY <2>1, <2>2
  <1>10. QED
    BY <1>1, <1>7, <1>8, <1>9 DEF IInv, StoreInv, WalletInv, ResInv, DkgInv

\* Vault.AddPeer: every row is what the handler read, with one more share.
LEMMA AddPeerEffect ==
    ASSUME NEW h \in Handler, h.row # None, UsersType(users), AddPeer(h)
    PROVE  /\ UsersType(users') /\ h.row \in Row
           /\ DOMAIN users' = DOMAIN users
           /\ \A w \in DOMAIN users : /\ users'[w].key = h.row.key
                                     /\ users'[w].BKs = h.row.BKs \cup {h.peer}
           /\ \A v, w \in DOMAIN users : users'[v] = users'[w]
  <1>1. PICK ws \in SUBSET Peers : users \in [ws -> Row]
    BY DEF UsersType
  <1>2. h.row \in Row /\ h.peer \in Peers
    BY DEF Handler
  <1> DEFINE r == [h.row EXCEPT !.BKs = @ \cup {h.peer}]
  <1>3. r \in Row /\ r.key = h.row.key /\ r.BKs = h.row.BKs \cup {h.peer}
    BY <1>2 DEF Row
  <1>4. users' = [w \in ws |-> r] /\ DOMAIN users = ws
    BY <1>1 DEF AddPeer
  <1> HIDE DEF r
  <1>5. users' \in [ws -> Row]
    BY <1>3, <1>4
  <1>6. QED
    BY <1>2, <1>3, <1>4, <1>5 DEF UsersType

\* StoreWallet: one more row, for the new peer.
LEMMA StoreWalletEffect ==
    ASSUME NEW p \in Peers, UsersType(users), StoreWallet(p)
    PROVE  /\ UsersType(users')
           /\ DOMAIN users = {} => /\ DOMAIN users' = {p}
                                   /\ users'[p].key = p /\ users'[p].BKs = {p}
  <1>1. PICK ws \in SUBSET Peers : users \in [ws -> Row]
    BY DEF UsersType
  <1> DEFINE r == [wallet |-> p, key |-> p, BKs |-> {p}]
  <1>2. r \in Row /\ r.key = p /\ r.BKs = {p}
    BY DEF Row
  <1>3. /\ users' = [w \in ws \cup {p} |-> IF w = p THEN r ELSE users[w]]
        /\ DOMAIN users = ws
    BY <1>1 DEF StoreWallet
  <1> HIDE DEF r
  <1>4. users' \in [ws \cup {p} -> Row] /\ ws \cup {p} \in SUBSET Peers
    BY <1>1, <1>2, <1>3
  <1>5. QED
    BY <1>2, <1>3, <1>4 DEF UsersType

\* The invariants after a write of a handler, once the wallets are known to grow.
LEMMA WriteKeeps ==
    ASSUME IInv, Grows(users, overlap, users', overlap'), UsersType(users'),
           NEW h \in handlers, HandlerStores(h)
    PROVE  /\ UNCHANGED <<peers, store, wallet, res, overlap, backups, faults>>
           /\ handlers' = handlers \ {h}
           /\ StoreInv' /\ WalletInv'
           /\ overlap \/ Alike' => HandlerInv'
  <1>1. /\ UNCHANGED <<peers, store, wallet, res, overlap, backups, faults>>
        /\ handlers' = handlers \ {h}
    BY DEF HandlerStores
  <1>2. StoreInv' /\ WalletInv'
    BY <1>1, GrowsInv
  <1>3. CASE overlap
    BY <1>1, <1>2, <1>3 DEF HandlerInv
  <1>4. CASE ~overlap
    <2>1. handlers' = {}
      BY <1>1, <1>4 DEF IInv, HandlerInv, Alone
    <2>2. Alone' /\ Current' /\ Begun'
      BY <2>1 DEF Alone, Current, Begun
    <2>3. QED
      BY <1>1, <1>2, <1>4, <2>2 DEF HandlerInv
  <1>5. QED
    BY <1>3, <1>4

\* A handler of Dkg stores its wallet.
LEMMA DkgStoresStep ==
    ASSUME IInv, NEW h \in handlers, HandlerStores(h), h.row = None
    PROVE  IInv' /\ Grows(users, overlap, users', overlap')
  <1>1. /\ UNCHANGED <<peers, overlap, session, res>>
        /\ StoreWallet(h.peer)
        /\ pc' = [d \in Devices |->
                     IF pc[d] = "dkg" /\ h.peer = peers THEN "dkgstored" ELSE pc[d]]
    BY DEF HandlerStores
  <1>2. h \in Handler /\ h.peer \in Peers
    BY DEF IInv, Types, Handler
  <1>3. /\ UsersType(users')
        /\ DOMAIN users = {} => /\ DOMAIN users' = {h.peer}
                                /\ users'[h.peer].key = h.peer
                                /\ users'[h.peer].BKs = {h.peer}
    BY <1>1, <1>2, StoreWalletEffect DEF IInv, Types
  <1>4. ~overlap => DOMAIN users = {}
    BY DEF IInv, HandlerInv, Current
  <1>5. Grows(users, overlap, users', overlap')
    BY <1>1, <1>4 DEF Grows, Keyed, Known
  <1>6. Keyed(users', overlap', h.peer) /\ Known(users', overlap', h.peer)
    BY <1>1, <1>3, <1>4 DEF Keyed, Known
  <1>7. /\ UNCHANGED <<peers, store, wallet, res, overlap, backups, faults>>
        /\ handlers' = handlers \ {h}
        /\ StoreInv' /\ WalletInv'
        /\ overlap \/ Alike' => HandlerInv'
    BY <1>3, <1>5, WriteKeeps
  <1>8. HandlerInv'
    BY <1>3, <1>4, <1>7 DEF Alike
  <1>9. \A d \in Devices :
            pc'[d] = IF pc[d] = "dkg" /\ h.peer = peers THEN "dkgstored" ELSE pc[d]
    BY <1>1
  <1>10. pc' \in [Devices -> States]
    BY <1>1 DEF IInv, Types, States
  <1>11. Types'
    BY <1>1, <1>3, <1>7, <1>10 DEF IInv, Types
  <1>12. ResInv'
    <2>1. ASSUME NEW r, Works(users, overlap, r)
          PROVE  Works(users', overlap', r)
      BY <1>5, <2>1 DEF Works, Grows
    <2>2. QED
      BY <1>7, <1>9, <2>1 DEF IInv, ResInv, Storing
  <1>13. DkgInv'
    <2>1. Keyed(users, overlap, peers) => Keyed(users', overlap', peers)
      BY <1>5 DEF Grows
    <2>2. Known(users, overlap, peers) => Known(users', overlap', peers)
      BY <1>5 DEF Grows
    <2>3. QED
      BY <1>6, <1>7, <1>9, <2>1, <2>2 DEF IInv, DkgInv
  <1>14. SessionInv'
    BY <1>1, <1>5 DEF IInv, SessionInv, Grows
  <1>15. QED
    BY <1>5, <1>7, <1>8, <1>11, <1>12, <1>13, <1>14 DEF IInv

\* A handler of AcceptDevice stores the new peer.
LEMMA AddStoresStep ==
    ASSUME IInv, NEW h \in handlers, HandlerStores(h), h.row # None
    PROVE  IInv' /\ Grows(users, overlap, users', overlap')
  <1>1. /\ UNCHANGED <<peers, overlap, pc, res>>
        /\ AddPeer(h)
        /\ session' = IF session # None /\ session.tss /\ session.peer = h.peer
                      THEN [session EXCEPT !.stored = TRUE] ELSE session
    BY DEF HandlerStores
  <1>2. h \in Handler
    BY DEF IInv, Types
  <1>3. /\ UsersType(users') /\ h.row \in Row
        /\ DOMAIN users' = DOMAIN users
        /\ \A w \in DOMAIN users : /\ users'[w].key = h.row.key
                                  /\ users'[w].BKs = h.row.BKs \cup {h.peer}
        /\ \A v, w \in DOMAIN users : users'[v] = users'[w]
    BY <1>1, <1>2, AddPeerEffect DEF IInv, Types
  <1>4. ~overlap => DOMAIN users # {} /\ \A w \in DOMAIN users : users[w] = h.row
    BY DEF IInv, HandlerInv, Current
  <1>5. Grows(users, overlap, users', overlap')
    BY <1>1, <1>3, <1>4 DEF Grows, Keyed, Known
  <1>6. /\ UNCHANGED <<peers, store, wallet, res, overlap, backups, faults>>
        /\ handlers' = handlers \ {h}
        /\ StoreInv' /\ WalletInv'
        /\ overlap \/ Alike' => HandlerInv'
    BY <1>3, <1>5, WriteKeeps
  <1>7. HandlerInv'
    BY <1>3, <1>6 DEF Alike
  <1>8. session' \in Session \cup {None}
    BY <1>1 DEF IInv, Types, Session
  <1>9. Types'
    BY <1>1, <1>3, <1>6, <1>8 DEF IInv, Types
  <1>10. ResInv' /\ DkgInv'
    BY <1>1, <1>5, GrowsInv DEF IInv, DkgInv, Grows
  <1>11. SessionInv'
    <2>1. CASE UNCHANGED session
      BY <1>5, <2>1 DEF IInv, SessionInv, Grows
    <2>2. CASE ~UNCHANGED session
      <3>1. /\ session # None /\ session.tss /\ session.peer = h.peer
            /\ session' = [session EXCEPT !.stored = TRUE]
        BY <1>1, <2>2
      <3>2. session \in Session
        BY <3>1 DEF IInv, Types
      <3>3. ~overlap => h.row.key = session.item.metadata
        BY <3>1 DEF IInv, HandlerInv, Begun
      <3>4. Keyed(users', overlap', session.item.metadata) /\ Known(users', overlap', session.peer)
        BY <1>1, <1>3, <1>4, <3>1, <3>3 DEF Keyed, Known
      <3>5. QED
        BY <3>1, <3>2, <3>4 DEF IInv, SessionInv, Session
    <2>3. QED
      BY <2>1, <2>2
  <1>12. QED
    BY <1>5, <1>6, <1>7, <1>9, <1>10, <1>11 DEF IInv

\* A handler ends without a write.
LEMMA HandlerFailsStep ==
    ASSUME IInv, NEW h \in handlers, HandlerFails(h)
    PROVE  IInv'
  <1>1. /\ UNCHANGED <<users, peers, store, wallet, pc, res, session, overlap, backups>>
        /\ handlers' = handlers \ {h}
        /\ UNCHANGED faults \/ Fault
    BY DEF HandlerFails
  <1>2. faults' \in 0..MaxFaults
    BY <1>1, FaultType DEF IInv, Types
  <1>3. HandlerInv'
    <2>1. CASE overlap
      BY <1>1, <2>1 DEF HandlerInv
    <2>2. CASE ~overlap
      <3>1. Alone /\ Alike /\ Current /\ Begun
        BY <2>2 DEF IInv, HandlerInv
      <3>2. Alone' /\ Alike' /\ Current'
        BY <1>1, <3>1 DEF Alone, Alike, Current
      <3>3. Begun'
        BY <1>1, <3>1 DEF Begun
      <3>4. QED
        BY <3>2, <3>3 DEF HandlerInv
    <2>3. QED
      BY <2>1, <2>2
  <1>4. QED
    BY <1>1, <1>2, <1>3 DEF IInv, Types, StoreInv, WalletInv, ResInv, DkgInv, SessionInv

\* RegisterDevice returns.
LEMMA RegisterStep ==
    ASSUME IInv, RegisterDone \/ RegisterNil \/ RegisterFails
    PROVE  IInv'
  <1>1. PICK o \in {"ok", "nil", "err"} :
            RegisterReturns(o) /\ (o = "ok" => session.stored)
    BY DEF RegisterDone, RegisterNil, RegisterFails
  <1>2. /\ UNCHANGED <<users, peers, store, wallet, handlers, overlap, backups>>
        /\ session # None /\ session.reg = "run"
        /\ UNCHANGED faults \/ Fault
    BY <1>1 DEF RegisterReturns, RegisterDone, RegisterNil, RegisterFails
  <1>3. session \in Session
    BY <1>2 DEF IInv, Types
  <1>4. faults' \in 0..MaxFaults
    BY <1>2, FaultType DEF IInv, Types
  <1> DEFINE s == [session EXCEPT !.reg = o]
  <1>5. CASE session.backup
    <2>1. PICK e \in {"nil", "error"} :
              session' = [s EXCEPT !.goroutine = "check", !.err = e]
      BY <1>1, <1>5 DEF RegisterReturns
    <2>2. UNCHANGED <<pc, res>>
      BY <1>1, <1>5 DEF RegisterReturns
    <2>3. session' \in Session
      BY <1>3, <2>1 DEF Session
    <2>4. SessionInv'
      BY <1>1, <1>2, <1>3, <2>1 DEF IInv, SessionInv, Session
    <2>5. HandlerInv'
      <3>1. \/ session' = None
            \/ session'.tss = session.tss /\ session'.item = session.item
        BY <1>3, <2>1 DEF Session
      <3>2. QED
        BY <1>2, <3>1, HandlerKept DEF IInv
    <2>6. QED
      BY <1>2, <1>4, <2>2, <2>3, <2>4, <2>5
         DEF IInv, Types, StoreInv, WalletInv, ResInv, DkgInv
  <1>6. CASE ~session.backup
    <2>1. session' = None \/ session' = s
      BY <1>1, <1>6, UnlessCase DEF RegisterReturns
    <2>2. session' \in Session \cup {None}
      BY <1>3, <2>1 DEF Session
    <2>3. SessionInv'
      BY <1>1, <1>2, <1>3, <2>1 DEF IInv, SessionInv, Session
    <2>4. session.new \in Devices /\ session.peer \in Peers
      BY <1>3 DEF Session
    <2>5. /\ ResInv' /\ DkgInv' /\ pc' \in [Devices -> States]
          /\ res' \in [Devices -> Item \cup {None}]
      <3>1. CASE o = "ok"
        <4> DEFINE r == Share(session.peer, session.item.metadata)
        <4>1. Result(session.new, r)
          BY <1>1, <1>6, <3>1 DEF RegisterReturns
        <4>2. /\ session.item \in Item
              /\ Keyed(users, overlap, session.item.metadata) /\ Known(users, overlap, session.peer)
          BY <1>1, <1>2, <3>1 DEF IInv, SessionInv
        <4>3. r \in Item /\ Works(users, overlap, r)
          BY <2>4, <4>2 DEF Share, Item, Works
        <4> HIDE DEF r
        <4>4. QED
          BY <1>2, <2>4, <4>1, <4>3, GoesStore
      <3>2. CASE o = "nil"
        <4>1. Result(session.new, Nothing)
          BY <1>1, <1>6, <3>2 DEF RegisterReturns
        <4>2. Nothing \in Item /\ Works(users, overlap, Nothing)
          BY DEF Nothing, Item, Works
        <4>3. QED
          BY <1>2, <2>4, <4>1, <4>2, GoesStore
      <3>3. CASE o = "err"
        <4>1. Goes(session.new, "idle") /\ UNCHANGED res
          BY <1>1, <1>6, <3>3 DEF RegisterReturns
        <4>2. QED
          BY <1>2, <4>1, GoesQuiet
      <3>4. QED
        BY <3>1, <3>2, <3>3
    <2>6. HandlerInv'
      <3>1. \/ session' = None
            \/ session'.tss = session.tss /\ session'.item = session.item
        BY <1>3, <2>1 DEF Session
      <3>2. QED
        BY <1>2, <3>1, HandlerKept DEF IInv
    <2>7. QED
      BY <1>2, <1>4, <2>2, <2>3, <2>5, <2>6 DEF IInv, Types, StoreInv, WalletInv
  <1>7. QED
    BY <1>5, <1>6

\* AcceptDevice returns.
LEMMA AcceptStep ==
    ASSUME IInv, AcceptDone \/ AcceptNil \/ AcceptFails \/ AcceptRefused
    PROVE  IInv'
  <1>1. PICK o \in {"ok", "nil", "err"} : AcceptReturns(o)
    BY DEF AcceptDone, AcceptNil, AcceptFails, AcceptRefused
  <1>2. /\ UNCHANGED <<users, peers, store, wallet, res, handlers, overlap, backups>>
        /\ session # None /\ session.acc = "run"
        /\ UNCHANGED faults \/ Fault
    BY <1>1 DEF AcceptReturns, AcceptDone, AcceptNil, AcceptFails, AcceptRefused
  <1>3. session \in Session
    BY <1>2 DEF IInv, Types
  <1>4. faults' \in 0..MaxFaults
    BY <1>2, FaultType DEF IInv, Types
  <1> DEFINE s == [session EXCEPT !.acc = o]
  <1>5. CASE session.backup
    <2>1. PICK e \in {"nil", "error"} :
              session' = [s EXCEPT !.main = "check", !.err = e]
      BY <1>1, <1>5 DEF AcceptReturns
    <2>2. UNCHANGED pc
      BY <1>1, <1>5 DEF AcceptReturns
    <2>3. session' \in Session
      BY <1>3, <2>1 DEF Session
    <2>4. SessionInv'
      BY <1>2, <1>3, <2>1 DEF IInv, SessionInv, Session
    <2>5. HandlerInv'
      <3>1. \/ session' = None
            \/ session'.tss = session.tss /\ session'.item = session.item
        BY <1>3, <2>1 DEF Session
      <3>2. QED
        BY <1>2, <3>1, HandlerKept DEF IInv
    <2>6. QED
      BY <1>2, <1>4, <2>2, <2>3, <2>4, <2>5
         DEF IInv, Types, StoreInv, WalletInv, ResInv, DkgInv
  <1>6. CASE ~session.backup
    <2>1. session' = None \/ session' = s
      BY <1>1, <1>6, UnlessCase DEF AcceptReturns
    <2>2. session' \in Session \cup {None}
      BY <1>3, <2>1 DEF Session
    <2>3. SessionInv'
      BY <1>2, <1>3, <2>1 DEF IInv, SessionInv, Session
    <2>4. Goes(session.old, "idle")
      BY <1>1, <1>6 DEF AcceptReturns
    <2>5. /\ ResInv' /\ DkgInv' /\ pc' \in [Devices -> States]
          /\ res' \in [Devices -> Item \cup {None}]
      BY <1>2, <2>4, GoesQuiet
    <2>6. HandlerInv'
      <3>1. \/ session' = None
            \/ session'.tss = session.tss /\ session'.item = session.item
        BY <1>3, <2>1 DEF Session
      <3>2. QED
        BY <1>2, <3>1, HandlerKept DEF IInv
    <2>7. QED
      BY <1>2, <1>4, <2>2, <2>3, <2>5, <2>6 DEF IInv, Types, StoreInv, WalletInv
  <1>7. QED
    BY <1>5, <1>6

-----------------------------------------------------------------------------
(* backup().                                                               *)

LEMMA AcceptCheckedStep ==
    ASSUME IInv, AcceptChecked
    PROVE  IInv'
  <1>1. /\ UNCHANGED <<users, peers, store, wallet, res, handlers, overlap, backups, faults>>
        /\ session # None
    BY DEF AcceptChecked
  <1>2. session \in Session
    BY <1>1 DEF IInv, Types
  <1>3. PICK x \in {"ret", "wait"} : session' = None \/ session' = [session EXCEPT !.main = x]
    BY UnlessCase DEF AcceptChecked
  <1>4. session' \in Session \cup {None}
    BY <1>2, <1>3 DEF Session
  <1>5. SessionInv'
    BY <1>1, <1>2, <1>3 DEF IInv, SessionInv, Session
  <1>6. HandlerInv'
    <2>1. \/ session' = None
          \/ session'.tss = session.tss /\ session'.item = session.item
      BY <1>2, <1>3 DEF Session
    <2>2. QED
      BY <1>1, <2>1, HandlerKept DEF IInv
  <1>7. UNCHANGED pc \/ Goes(session.new, "idle")
    BY DEF AcceptChecked
  <1>8. CASE Goes(session.new, "idle")
    <2>1. /\ ResInv' /\ DkgInv' /\ pc' \in [Devices -> States]
          /\ res' \in [Devices -> Item \cup {None}]
      BY <1>1, <1>8, GoesQuiet
    <2>2. QED
      BY <1>1, <1>4, <1>5, <1>6, <2>1 DEF IInv, Types, StoreInv, WalletInv
  <1>9. CASE UNCHANGED pc
    BY <1>1, <1>4, <1>5, <1>6, <1>9 DEF IInv, Types, StoreInv, WalletInv, ResInv, DkgInv
  <1>10. QED
    BY <1>7, <1>8, <1>9

LEMMA BackupReturnsStep ==
    ASSUME IInv, BackupReturns
    PROVE  IInv'
  <1> DEFINE r == IF session.reg = "ok" THEN Share(session.peer, session.item.metadata)
                                        ELSE Nothing
  <1>1. /\ UNCHANGED <<users, peers, store, wallet, handlers, overlap, faults>>
        /\ session # None /\ session' = None
        /\ \/ backups' = backups \cup {r} /\ Goes(session.new, "idle") /\ UNCHANGED res
           \/ Result(session.new, r) /\ UNCHANGED backups
    BY DEF BackupReturns, BackupDone
  <1>2. session \in Session /\ session.new \in Devices /\ session.peer \in Peers
    BY <1>1 DEF IInv, Types, Session
  <1>3. r \in Item /\ Works(users, overlap, r)
    <2>1. CASE session.reg = "ok"
      <3>1. /\ session.item \in Item
            /\ Keyed(users, overlap, session.item.metadata) /\ Known(users, overlap, session.peer)
        BY <1>1, <2>1 DEF IInv, SessionInv
      <3>2. QED
        BY <1>2, <2>1, <3>1 DEF Share, Item, Works
    <2>2. CASE session.reg # "ok"
      BY <2>2 DEF Nothing, Item, Works
    <2>3. QED
      BY <2>1, <2>2
  <1> HIDE DEF r
  <1>4. /\ ResInv' /\ DkgInv' /\ pc' \in [Devices -> States]
        /\ res' \in [Devices -> Item \cup {None}]
    <2>1. CASE Result(session.new, r)
      BY <1>1, <1>2, <1>3, <2>1, GoesStore
    <2>2. CASE Goes(session.new, "idle") /\ UNCHANGED res
      BY <1>1, <2>2, GoesQuiet
    <2>3. QED
      BY <1>1, <2>1, <2>2
  <1>5. backups' \subseteq Item
    BY <1>1, <1>3 DEF IInv, Types
  <1>6. HandlerInv'
    BY <1>1, HandlerKept DEF IInv
  <1>7. QED
    BY <1>1, <1>4, <1>5, <1>6 DEF IInv, Types, StoreInv, WalletInv, SessionInv

-----------------------------------------------------------------------------
(* Storing a share, and crashes.                                           *)

\* A call that throws and stores nothing.
LEMMA ThrowsStep ==
    ASSUME IInv, NEW d \in Devices, NullResult(d) \/ ItemExists(d) \/ StoreFails(d)
    PROVE  IInv'
  <1>1. /\ UNCHANGED <<users, peers, store, wallet, session, handlers, overlap, backups>>
        /\ UNCHANGED faults \/ Fault
        /\ Throws(d)
    BY DEF NullResult, ItemExists, StoreFails
  <1>2. /\ ResInv' /\ DkgInv' /\ pc' \in [Devices -> States]
        /\ res' \in [Devices -> Item \cup {None}]
    BY <1>1, GoesQuiet DEF Throws
  <1>3. faults' \in 0..MaxFaults
    BY <1>1, FaultType DEF IInv, Types
  <1>4. HandlerInv'
    BY <1>1, HandlerSame
  <1>5. QED
    BY <1>1, <1>2, <1>3, <1>4 DEF IInv, Types, StoreInv, WalletInv, SessionInv

\* storeDkgResults, up to its last call of setItem.
LEMMA SetItemStep ==
    ASSUME IInv, NEW d \in Devices, SetDkgResult(d) \/ SetAddress(d)
    PROVE  IInv'
  <1>1. /\ UNCHANGED <<users, peers, wallet, res, session, handlers, overlap, backups, faults>>
        /\ pc[d] \in Storing
    BY DEF SetDkgResult, SetAddress, Storing
  <1>2. res[d] \in Item /\ Works(users, overlap, res[d])
    BY <1>1 DEF IInv, ResInv
  <1>3. store' \in [Devices -> StoredItem] /\ StoreInv'
    <2>1. CASE SetDkgResult(d)
      <3>1. /\ store' = [store EXCEPT ![d].dkgResult = res[d].dkgResult]
            /\ res[d].dkgResult # Null
        BY <2>1 DEF SetDkgResult
      <3>2. res[d].dkgResult # None => Known(users, overlap, res[d].dkgResult)
        BY <1>2, <3>1 DEF Works
      <3>3. store' \in [Devices -> StoredItem]
        BY <1>2, <3>1 DEF IInv, Types, StoredItem, Item
      <3>4. \A e \in Devices :
                /\ store'[e].dkgResult = IF e = d THEN res[d].dkgResult ELSE store[e].dkgResult
                /\ store'[e].metadata = store[e].metadata
        BY <3>1 DEF IInv, Types, StoredItem
      <3>5. QED
        BY <1>1, <3>2, <3>3, <3>4 DEF IInv, StoreInv, Works
    <2>2. CASE SetAddress(d)
      <3>1. store' = [store EXCEPT ![d].address = TRUE]
        BY <2>2 DEF SetAddress
      <3>2. store' \in [Devices -> StoredItem]
        BY <3>1 DEF IInv, Types, StoredItem
      <3>3. \A e \in Devices : /\ store'[e].dkgResult = store[e].dkgResult
                               /\ store'[e].metadata = store[e].metadata
        BY <3>1 DEF IInv, Types, StoredItem
      <3>4. QED
        BY <1>1, <3>2, <3>3 DEF IInv, StoreInv, Works
    <2>3. QED
      BY <2>1, <2>2
  <1>4. PICK x \in {"store2", "store3"} : Goes(d, x)
    BY DEF SetDkgResult, SetAddress
  <1>5. /\ pc' \in [Devices -> States]
        /\ \A e \in Devices : pc'[e] = IF e = d THEN x ELSE pc[e]
    BY <1>4, GoesType DEF IInv, Types, States
  <1>6. res[d].dkgResult # Null
    BY DEF SetDkgResult, SetAddress, IInv, ResInv
  <1>7. ResInv'
    BY <1>1, <1>2, <1>5, <1>6 DEF IInv, ResInv
  <1>8. DkgInv'
    BY <1>1, <1>5 DEF IInv, DkgInv
  <1>9. HandlerInv'
    BY <1>1, HandlerSame
  <1>10. QED
    BY <1>1, <1>3, <1>5, <1>7, <1>8, <1>9 DEF IInv, Types, WalletInv, SessionInv

\* The SDK returns the wallet that it stored.
LEMMA ReturnsWallet ==
    ASSUME IInv, NEW d \in Devices, pc[d] \in Storing, res[d].dkgResult # Null,
           UNCHANGED <<users, overlap>>, wallet' = [wallet EXCEPT ![d] = res[d]]
    PROVE  WalletInv' /\ wallet' \in [Devices -> Item \cup {None}]
  <1>1. res[d] \in Item /\ Works(users, overlap, res[d])
    BY DEF IInv, ResInv
  <1>2. \A e \in Devices : wallet'[e] = IF e = d THEN res[d] ELSE wallet[e]
    BY DEF IInv, Types
  <1>3. WalletInv'
    BY <1>1, <1>2 DEF IInv, WalletInv
  <1>4. QED
    BY <1>1, <1>3 DEF IInv, Types

LEMMA SetMetadataStep ==
    ASSUME IInv, NEW d \in Devices, SetMetadata(d)
    PROVE  IInv'
  <1>1. /\ UNCHANGED <<users, peers, session, handlers, overlap, backups, faults>>
        /\ pc[d] = "store3" /\ Throws(d)
        /\ store' = [store EXCEPT ![d].metadata = res[d].metadata]
        /\ wallet' = [wallet EXCEPT ![d] = res[d]]
    BY DEF SetMetadata, Returns
  <1>2. res[d] \in Item /\ Works(users, overlap, res[d]) /\ res[d].dkgResult # Null
    BY <1>1 DEF IInv, ResInv, Storing
  <1>3. WalletInv' /\ wallet' \in [Devices -> Item \cup {None}]
    BY <1>1, <1>2, ReturnsWallet DEF Storing
  <1>4. store' \in [Devices -> StoredItem]
    BY <1>1, <1>2 DEF IInv, Types, StoredItem, Item
  <1>5. StoreInv'
    <2>1. \A e \in Devices :
              /\ store'[e].dkgResult = store[e].dkgResult
              /\ store'[e].metadata = IF e = d THEN res[d].metadata ELSE store[e].metadata
      BY <1>1 DEF IInv, Types, StoredItem
    <2>2. QED
      BY <1>1, <1>2, <2>1 DEF IInv, StoreInv, Works
  <1>6. /\ ResInv' /\ DkgInv' /\ pc' \in [Devices -> States]
        /\ res' \in [Devices -> Item \cup {None}]
    BY <1>1, GoesQuiet DEF Throws
  <1>7. HandlerInv'
    BY <1>1, HandlerSame
  <1>8. QED
    BY <1>1, <1>3, <1>4, <1>5, <1>6, <1>7 DEF IInv, Types, SessionInv

LEMMA AddItemStep ==
    ASSUME IInv, NEW d \in Devices, AddItem(d)
    PROVE  IInv'
  <1> DEFINE r == [dkgResult |-> res[d].dkgResult, address |-> res[d].dkgResult # Null,
                   metadata |-> res[d].metadata]
  <1>1. /\ UNCHANGED <<users, peers, session, handlers, overlap, backups, faults>>
        /\ pc[d] = "store" /\ Throws(d)
        /\ store' = [store EXCEPT ![d] = r]
        /\ IF res[d].dkgResult # Null THEN wallet' = [wallet EXCEPT ![d] = res[d]]
                                      ELSE UNCHANGED wallet
    BY DEF AddItem, Returns
  <1>2. res[d] \in Item /\ Works(users, overlap, res[d])
    BY <1>1 DEF IInv, ResInv, Storing
  <1>3. WalletInv' /\ wallet' \in [Devices -> Item \cup {None}]
    <2>1. CASE res[d].dkgResult # Null
      BY <1>1, <2>1, ReturnsWallet DEF Storing
    <2>2. CASE res[d].dkgResult = Null
      BY <1>1, <2>2 DEF IInv, Types, WalletInv
    <2>3. QED
      BY <2>1, <2>2
  <1>4. r \in StoredItem
    BY <1>2 DEF StoredItem, Item
  <1>5. r.dkgResult = res[d].dkgResult /\ r.metadata = res[d].metadata
    OBVIOUS
  <1> HIDE DEF r
  <1>6. store' \in [Devices -> StoredItem]
    BY <1>1, <1>4 DEF IInv, Types
  <1>7. StoreInv'
    <2>1. \A e \in Devices : store'[e] = IF e = d THEN r ELSE store[e]
      BY <1>1 DEF IInv, Types
    <2>2. Works(users, overlap, r)
      BY <1>2, <1>5 DEF Works
    <2>3. QED
      BY <1>1, <2>1, <2>2 DEF IInv, StoreInv
  <1>8. /\ ResInv' /\ DkgInv' /\ pc' \in [Devices -> States]
        /\ res' \in [Devices -> Item \cup {None}]
    BY <1>1, GoesQuiet DEF Throws
  <1>9. HandlerInv'
    BY <1>1, HandlerSame
  <1>10. QED
    BY <1>1, <1>3, <1>6, <1>7, <1>8, <1>9 DEF IInv, Types, SessionInv

LEMMA CrashStep ==
    ASSUME IInv, NEW d \in Devices, Crash(d)
    PROVE  IInv'
  <1>1. /\ UNCHANGED <<users, peers, store, handlers, overlap, backups>>
        /\ Fault /\ Throws(d)
        /\ wallet' = [wallet EXCEPT ![d] = None]
    BY DEF Crash
  <1>2. WalletInv' /\ wallet' \in [Devices -> Item \cup {None}]
    BY <1>1 DEF IInv, Types, WalletInv
  <1>3. /\ ResInv' /\ DkgInv' /\ pc' \in [Devices -> States]
        /\ res' \in [Devices -> Item \cup {None}]
    BY <1>1, GoesQuiet DEF Throws
  <1>4. faults' \in 0..MaxFaults
    BY <1>1, FaultType DEF IInv, Types
  <1>5. session' \in Session \cup {None} /\ SessionInv' /\ HandlerInv'
    <2>1. CASE session' = None
      BY <1>1, <2>1, HandlerKept DEF SessionInv, IInv
    <2>2. CASE session' # None
      <3>1. session # None /\ session \in Session
        BY <2>2 DEF Crash, IInv, Types
      <3>2. session' = [session EXCEPT !.reg = IF pc[d] = "register" THEN "err" ELSE @,
                                       !.acc = IF pc[d] = "accept" THEN "err" ELSE @]
        BY <2>2, UnlessCase DEF Crash
      <3>3. session' \in Session
        BY <3>1, <3>2 DEF Session
      <3>4. PICK g \in {"err", session.reg} : session' =
                [session EXCEPT !.reg = g, !.acc = IF pc[d] = "accept" THEN "err" ELSE @]
        BY <3>2
      <3>5. /\ session'.item = session.item /\ session'.backup = session.backup
            /\ session'.tss = session.tss /\ session'.stored = session.stored
            /\ session'.peer = session.peer
            /\ session'.reg = "ok" => session.reg = "ok"
            /\ session'.acc \in {"err", session.acc}
        BY <3>1, <3>4 DEF Session
      <3>6. SessionInv
        BY DEF IInv
      <3>7. SessionInv'
        BY <1>1, <3>1, <3>5, <3>6 DEF SessionInv
      <3>8. HandlerInv'
        BY <1>1, <3>1, <3>5, HandlerKept DEF IInv
      <3>9. QED
        BY <3>3, <3>7, <3>8
    <2>3. QED
      BY <2>1, <2>2
  <1>6. QED
    BY <1>1, <1>2, <1>3, <1>4, <1>5 DEF IInv, Types, StoreInv

LEMMA RestartStep ==
    ASSUME IInv, NEW d \in Devices, Restart(d)
    PROVE  IInv'
  <1>1. /\ UNCHANGED <<users, peers, store, pc, res, session, handlers, overlap, backups, faults>>
        /\ wallet' = [wallet EXCEPT ![d] = None]
    BY DEF Restart
  <1>2. WalletInv' /\ wallet' \in [Devices -> Item \cup {None}]
    BY <1>1 DEF IInv, Types, WalletInv
  <1>3. HandlerInv'
    BY <1>1, HandlerSame
  <1>4. QED
    BY <1>1, <1>2, <1>3 DEF IInv, Types, StoreInv, ResInv, DkgInv, SessionInv

-----------------------------------------------------------------------------
(* The theorems.                                                           *)

LEMMA InitInvariant == Init => IInv
  <1> SUFFICES ASSUME Init
               PROVE  IInv
    OBVIOUS
  <1>1. UsersType(users)
    <2>1. users \in [{} -> Row] /\ {} \in SUBSET Peers
      BY DEF Init
    <2>2. QED
      BY <2>1 DEF UsersType
  <1>2. Types
    <2>1. Empty \in StoredItem
      BY DEF Empty, StoredItem
    <2>2. /\ store \in [Devices -> StoredItem] /\ wallet \in [Devices -> Item \cup {None}]
          /\ pc \in [Devices -> States] /\ res \in [Devices -> Item \cup {None}]
      BY <2>1 DEF Init, States
    <2>3. overlap \in BOOLEAN /\ handlers \subseteq Handler /\ backups \subseteq Item
      BY DEF Init
    <2>4. peers \in 0..MaxPeers /\ faults \in 0..MaxFaults
      BY WalletsAssumption DEF Init
    <2>5. QED
      BY <1>1, <2>2, <2>3, <2>4 DEF Init, Types
  <1>3. HandlerInv
    BY DEF Init, HandlerInv, Alone, Alike, Current, Begun
  <1>4. StoreInv /\ WalletInv /\ ResInv /\ DkgInv /\ SessionInv
    BY DEF Init, Empty, StoreInv, WalletInv, ResInv, DkgInv, SessionInv, Works, Storing
  <1>5. QED
    BY <1>2, <1>3, <1>4 DEF IInv

LEMMA Inductive ==
    ASSUME IInv, [Next]_vars
    PROVE  IInv' /\ Grows(users, overlap, users', overlap')
  <1>1. UNCHANGED <<users, overlap>> => Grows(users, overlap, users', overlap')
    BY DEF Grows
  <1>2. CASE UNCHANGED vars
    <2>1. HandlerInv'
      BY <1>2, HandlerSame DEF vars
    <2>2. QED
      BY <1>1, <1>2, <2>1 DEF vars, IInv, Types, StoreInv, WalletInv, ResInv, DkgInv, SessionInv
  <1>3. CASE Progress
    <2>1. CASE SessionStarted
      BY <1>1, <2>1, SessionStartedStep DEF SessionStarted
    <2>2. CASE StartBackupAccept \/ RegisterChecked
      BY <1>1, <2>2, SessionOnlyStep DEF StartBackupAccept, RegisterChecked
    <2>3. CASE RegisterDone
      BY <1>1, <2>3, RegisterStep DEF RegisterDone, RegisterReturns
    <2>4. CASE AcceptDone \/ AcceptRefused
      BY <1>1, <2>4, AcceptStep DEF AcceptDone, AcceptRefused, AcceptReturns
    <2>5. CASE AcceptChecked
      BY <1>1, <2>5, AcceptCheckedStep DEF AcceptChecked
    <2>6. CASE BackupReturns
      BY <1>1, <2>6, BackupReturnsStep DEF BackupReturns
    <2>7. ASSUME NEW h \in handlers, HandlerStores(h)
          PROVE  IInv' /\ Grows(users, overlap, users', overlap')
      BY <2>7, DkgStoresStep, AddStoresStep
    <2>8. QED
      BY <1>3, <2>1, <2>2, <2>3, <2>4, <2>5, <2>6, <2>7 DEF Progress
  <1>4. CASE RegisterNil \/ RegisterFails
    BY <1>1, <1>4, RegisterStep DEF RegisterNil, RegisterFails, RegisterReturns
  <1>5. CASE AcceptNil \/ AcceptFails
    BY <1>1, <1>5, AcceptStep DEF AcceptNil, AcceptFails, AcceptReturns
  <1>6. ASSUME NEW d \in Devices,
               \/ GetStoredWallet(d) \/ StartDkg(d) \/ DkgReturns(d) \/ DkgNil(d)
               \/ DkgFails(d) \/ StartRegister(d) \/ StartAccept(d) \/ StartBackup(d)
               \/ StartRestore(d)
        PROVE  IInv' /\ Grows(users, overlap, users', overlap')
    <2>1. CASE GetStoredWallet(d)
      BY <1>1, <2>1, GetStoredStep DEF GetStoredWallet
    <2>2. CASE StartDkg(d)
      BY <2>2, StartDkgStep
    <2>3. CASE DkgReturns(d) \/ DkgNil(d) \/ DkgFails(d)
      BY <1>1, <2>3, DkgEndStep DEF DkgReturns, DkgNil, DkgFails
    <2>4. CASE StartRegister(d) \/ StartBackup(d) \/ StartRestore(d)
      BY <2>4, StartSessionStep
    <2>5. CASE StartAccept(d)
      BY <1>1, <2>5, StartAcceptStep DEF StartAccept
    <2>6. QED
      BY <1>6, <2>1, <2>2, <2>3, <2>4, <2>5
  <1>7. ASSUME NEW d \in Devices,
               \/ NullResult(d) \/ SetDkgResult(d) \/ SetAddress(d) \/ SetMetadata(d)
               \/ AddItem(d) \/ ItemExists(d) \/ StoreFails(d) \/ Crash(d) \/ Restart(d)
        PROVE  IInv' /\ Grows(users, overlap, users', overlap')
    <2>1. CASE NullResult(d) \/ ItemExists(d) \/ StoreFails(d)
      BY <1>1, <2>1, ThrowsStep DEF NullResult, ItemExists, StoreFails
    <2>2. CASE SetDkgResult(d) \/ SetAddress(d)
      BY <1>1, <2>2, SetItemStep DEF SetDkgResult, SetAddress
    <2>3. CASE SetMetadata(d)
      BY <1>1, <2>3, SetMetadataStep DEF SetMetadata
    <2>4. CASE AddItem(d)
      BY <1>1, <2>4, AddItemStep DEF AddItem
    <2>5. CASE Crash(d)
      BY <1>1, <2>5, CrashStep DEF Crash
    <2>6. CASE Restart(d)
      BY <1>1, <2>6, RestartStep DEF Restart
    <2>7. QED
      BY <1>7, <2>1, <2>2, <2>3, <2>4, <2>5, <2>6
  <1>8. ASSUME NEW h \in handlers, HandlerFails(h)
        PROVE  IInv' /\ Grows(users, overlap, users', overlap')
    BY <1>1, <1>8, HandlerFailsStep DEF HandlerFails
  <1>9. QED
    BY <1>2, <1>3, <1>4, <1>5, <1>6, <1>7, <1>8 DEF Next

\* Usable in the terms of the invariant.
LEMMA UsableMeans ==
    ASSUME NEW item, ~overlap
    PROVE  Usable(item) <=> /\ Keyed(users, overlap, item.metadata)
                            /\ Known(users, overlap, item.dkgResult)
  BY DEF Usable, Rows, RetrieveWallet, Keyed, Known

\* The devices and the database stay within their types.
THEOREM TypeCorrect == Spec => []TypeOK
  <1>1. IInv /\ [Next]_vars => IInv'
    BY Inductive
  <1>2. IInv => TypeOK
    BY TypesOK DEF IInv
  <1>3. QED
    BY InitInvariant, <1>1, <1>2, PTL DEF Spec

\* Every Wallet object that GetWallet or GetWalletFromBackup returns can be used
\* with the server, unless its metadata was not stored or a set-up began while a
\* handler of an earlier one was running: for any devices of both SDKs, any
\* registrations, backups and restores, failures and crashes.
THEOREM WalletsUsable == Spec => []ReturnedUsable
  <1>1. IInv /\ [Next]_vars => IInv'
    BY Inductive
  <1>2. IInv => ReturnedUsable
    <2>1. SUFFICES ASSUME IInv, ~overlap, NEW d \in Devices, wallet[d] # None,
                          wallet[d].metadata # None
                   PROVE  Usable(wallet[d])
      BY DEF ReturnedUsable
    <2>2. /\ wallet[d] \in Item /\ Works(users, overlap, wallet[d])
          /\ wallet[d].dkgResult # Null
      BY <2>1 DEF IInv, Types, WalletInv
    <2>3. wallet[d].dkgResult # None
      BY <2>2, WalletsAssumption DEF Item, Peers, Null
    <2>4. QED
      BY <2>1, <2>2, <2>3, UsableMeans DEF Works
  <1>3. QED
    BY InitInvariant, <1>1, <1>2, PTL DEF Spec

\* As long as no set-up begins while a handler of an earlier one is running, no
\* step of any device, of a registration or of a handler that outlives its client
\* takes a wallet from a device that holds one: the row that AddPeer writes back is
\* the one that is there.
THEOREM NobodyHarmed == Spec => OthersUnharmed
  <1> DEFINE Held(d) == [dkgResult |-> store[d].dkgResult, metadata |-> store[d].metadata]
             Step == overlap' \/ \A d \in Devices :
                         Usable(Held(d)) /\ store'[d] = store[d] => Usable(Held(d))'
  <1>1. IInv /\ [Next]_vars => IInv'
    BY Inductive
  <1>2. IInv /\ [Next]_vars => [Step]_vars
    <2>1. SUFFICES ASSUME IInv, [Next]_vars, ~overlap', NEW d \in Devices,
                          Usable(Held(d)), store'[d] = store[d]
                   PROVE  Usable(Held(d))'
      OBVIOUS
    <2>2. Grows(users, overlap, users', overlap')
      BY <2>1, Inductive
    <2>3. /\ Keyed(users, overlap, store[d].metadata)
          /\ Known(users, overlap, store[d].dkgResult)
      BY <2>1 DEF Usable, Rows, RetrieveWallet, Keyed, Known
    <2>4. /\ Keyed(users', overlap', store'[d].metadata)
          /\ Known(users', overlap', store'[d].dkgResult)
      BY <2>1, <2>2, <2>3 DEF Grows
    <2>5. QED
      BY <2>1, <2>4 DEF Usable, Rows, RetrieveWallet, Keyed, Known
  <1>3. QED
    BY InitInvariant, <1>1, <1>2, PTL DEF Spec, OthersUnharmed
=============================================================================
