# Meemaw: a TLA+ verification project

Meemaw is a wallet service built on threshold signatures (TSS).  The key of a
wallet never exists in one place: the server keeps one share, every device of
the user one more, and any device together with the server can sign.  This
project models the protocols that create, extend and use these shares, checks
them with TLC on small instances and proves the central safety properties with
TLAPS for every value of the constants.

## 1. The system

| Component | Source | State it keeps | Operations |
|---|---|---|---|
| Wallet creation | `client/client.go` (`Dkg`), `server/tss_dkg.go` | one websocket, a reader, a `TssSend` and a main goroutine on each side, `errs` (capacity 2), `serverDone` | probe, dial, peer id, TSS messages, store, metadata, acknowledgement |
| Multi-device registration | `client/tss_add.go`, `server/tss_add.go` | two websockets (new and existing device), two handlers that meet through eight channels of capacity one in a cache keyed by the user, an adder shared by both handlers | `RegisterDevice`, `AcceptDevice`, `Backup`, `FromBackup`, the two handlers |
| Add-share services | `utils/tss/serviceAdd.go` | the protocol of the alice library for the three parties; the server relays between the devices | `Process`, `HandleMessage` |
| DKG and signer services | `utils/tss/serviceDkg.go`, `serviceSigner.go`, `tssManager.go` | a `done` channel, a result | `Process`, `Handle`, `OnStateChanged` |
| Peer manager | `utils/tss/peerManager.go` | the queue of outgoing messages under a mutex | `MustSend`, `GetNextMessageToSend*` |
| Websocket messages | `utils/ws/ws.go` | message types with a stage each | `TssSend`, `ProcessErrors` |
| Vault | `server/vault/wallet.go`, `server/database`, `server/sqlc` | tables users, wallets, devices; the server's share encrypted with a key only the client keeps (the "metadata") | `StoreWallet`, `AddPeer`, `RetrieveWallet`, `WalletExists` |
| Signing, export | `server/tss_sign.go`, `server/tss_recover.go`, `utils/tss/recovery.go` | access token, wallet | `SignHandler`, `ExportHandler`, `Sign`, `Export` |
| HTTP, authentication | `server/main.go`, `server/handlers.go`, `server/auth_providers.go` | one cache with the access tokens (2 minutes) and the channels of registrations (10 minutes) | middlewares, `AuthorizeHandler`, the auth providers |
| SDKs | `client/web`, `client/ios` | the wallet of the device (three entries of the local storage, one keychain item) | `GetWallet`, `GetWalletFromBackup`, `Backup`, `AcceptDevice`, signing |
| Transactions | `utils/tx/tx.go` | none | numbers from JSON, `Sign` |
| Configuration | `utils/config`, `server/cmd` | none | reading files |

**How they interact.** A client call opens a websocket to its handler.  On each
end a reader goroutine handles messages and talks to the main goroutine through
Go channels; `TssSend` polls the outgoing queue of the TSS service and writes to
the same socket.  A registration needs two clients and two handlers: the handler
of the new device publishes eight channels in a cache under the user's id, the
handler of the existing device fetches them.  Both handlers feed one `ServerAdd`,
which relays the messages between the two devices.  The row of the new device is
written by the handler of the *existing* device; the new device learns of it
through a chain of confirmations.

**What is hard.** Up to seven goroutines in four processes wait for each other;
a connection can be lost between any two steps; errors are collected in a
channel of capacity two that is looked at once; waits have no timeout; the vault
is read at the start of a process and written at its end; the cache is
overwritten by a second registration; the SDKs store a share only after the
server has confirmed it, in several writes.  The `hazards` of `PROJECT.json` list
these, each at its line, with the properties aimed at them.

**What correctness means, by component.**

- Registration: a call that reports success left a usable device behind; nothing
  incomplete is stored; a session without failures ends; a registered device
  stays usable when others register.
- Wallet creation: the share a client gets matches the only stored wallet, and
  the key to the stored share is delivered before the handler ends.
- Peer manager: every message is sent once, in order, to its peer.
- Tokens: one token authorises what its user may do, for a limited time.
- Add-share: every message of the process reaches its party, whoever is done
  first.
- SDKs: a wallet that is returned can be used, and nothing that happens on one
  device takes the wallet from another.
- Signing and recovery: the result is the signature, or the key, of the wallet,
  in the form its readers expect.

## 2. Modules

### `AddDevice`: registration of a new device

State, per connection (a registration in `Regs` or an accept call in `Accs`):
`client`, `clReader`, `clErrs`, `clDone` are the main goroutine, the reader, the
errors in `errs` and the closed `serverDone` of the client; `handler`,
`hdReader`, `hdErrs`, `hdDone` the same of the server's handler; `conn`, `up`,
`down` the websocket and the messages in flight.  Between the handlers:
`published` (whose channels are in the cache), `session` (whose channels an
accept handler fetched), `chan` (which of the eight channels hold a value),
`offered`, `existing`, `newId` (the peer ids passed through them), `device` (the
device that makes an accept call).  `tss`, `adder`, `original` are the add-share
process of each device and of the server, and the coefficients the server read
when it started.  `devices` and `bks` are the rows of the devices table and the
peers in the stored parameters.

One action per case of each reader's `switch` and per section of each main
between two blocking operations.  A receive on an unbuffered or empty channel is
a guard; a send to a channel of capacity one is a guard that it is empty.  A
handler's reader that blocks on an inter-handler channel in the middle of a
message has a state of its own (`awaitAdder`, `metadata`, ...), because the
messages behind it wait too.  A client whose start message cannot be decoded, or whose
adder cannot be created, has a reader that returned and a main that waits for
`startTss` for ever (`ClientReaderFails`).

Abstracted: the rounds of the add-share protocol (see `AddShare`).  Only who may finish, and
after whom, is kept: the new device after both old parties contributed, the old
parties after the verification message of the new device, and all of it only
while the connections and the readers that carry the messages exist.  The eight
keys of the cache are read and written in one step (see `ServerCache`).

### `ShareProtocol` and `AddShare`: the add-share process

`ShareProtocol` is the process as `AddDevice` uses it: the new party is done once
all three take part, the others after the new one, and all of them in the end.
`AddShare` is one session in full, from the creation of the server's adder to the
return of the four mains, without failures.  An *end* is a client or a handler:
`main[e]`, `reader[e]` and `sender[e]` are its goroutines, `stage[e]` the variable
that its reader and its main write without a lock, `toSend[e]` what its `TssSend`
has to send, `wire[e]` what is in flight to it.  `round[p]` and `handled[p]` are
the protocol of party `p`: five kinds of messages, each sent at the end of a round
and awaited by a later one (taken from the use of the alice library, external).
`AdderGenericHandle` puts a message for another party back into the queue: that
is the relay.  The refinement mapping reads `running` and `done` of
`ShareProtocol` off `round`; `ImplementsProcess` is its specification with its
fairness, so that every party that takes part is done in the end.

### `ServerCache`: tokens and channels

The way of a call from its bearer token over the auth provider, the access token
and the middlewares to its handler (`pc`), and the one cache of the server that
holds both the tokens (`tokens`) and the channels of each user (`channels`).  Each
`Set` and `Get` of a channel is a step.  An entry holds the time it has left;
`Tick` lets a unit of time pass, and an expired entry is as good as gone.  A
provider may answer with a user, with another body (`Garbled`, which `CustomAuth`
takes for a user id) or with a status other than 200.  The history variables
`vouched`, `latest`, `begun`, `joined` and `overlap` only record what the
properties speak of.

### `Wallets`: what the SDKs keep

The wallets in the database (`users`: the key that opens the row and the peers in
it), what each device has stored (`store`: the three entries of the web SDK, or
the item of the keychain), the `Wallet` object of the application (`wallet`), the
SDK call under way (`pc`, `res`) and the backups a user holds.  `Dkg`,
`RegisterDevice` and `AcceptDevice` appear by their outcomes: a result, an error,
or neither (`"nil"`), which `AddDevice` shows for a failed process.  `session` is a
registration under way; in `backup()` both calls run on one device, in two
goroutines that share the variable `err`, and its fields `goroutine`, `main` and
`err` are those.  Each write to the storage is a step, and a device may crash
between any two.

`handlers` are the handlers of the server that may still write to the database: of a
`Dkg`, or of a registration with the row it read when its adder was created.  A client
that fails, gives up or crashes leaves its handler running, which may write long after
(`HandlerStores`): `StoreWallet` of a wallet whose device has no share, or `AddPeer`,
which writes the row that was read *then*, with the new peer, over what every row of
the user holds *now*.  The user sets up one device at a time but cannot see the
handlers; the history variable `overlap` records that a set-up began while a handler of
an earlier one was running, which is where the code loses shares.  `Dkg` may also return
neither a result nor an error (`DkgNil`, `client.go:235`), which the iOS SDK stores as an
item without a share.

### `Signature`: arithmetic

The functions at the end of a request over a small curve: `PostProcess` (low S,
recovery id, padding) and the transaction made of its result, the interpolation
of `RecoverPrivateKey`, and `ParseBigInt`.  The curve is given by the x-coordinate
and the parity of y of each multiple of the base point, so the arithmetic of the
libraries (`RecoverCompact`, `Verify`, `types.Sender`, external) is that of the
group and the functions of the repository are checked against it for every key,
nonce and message.  A byte is a digit to a small base, and the precisions of
`float64`, `big.Float` and `uint64` are constants.

The signing process signs the whole message `z`; `Verify` and `RecoverCompact` read its
first 32 bytes `h`, which is the same unless `SignBytes` was given a longer one.  A
transaction is signed by its hash with the chain id (`z`), and a transaction whose `v`
holds no chain id is read with another hash (`z0`): that is what `EIP155Signer` makes of
chain id 0.  `ParseBigInt` works on texts, sequences of characters: the prefix decides
for hex, a point for `big.Float`, and what is left is read as decimals.  `Written` are
the texts and values that an application may pass for a number: hex with `0x` and with
`0X`, decimals, a point, an exponent with and without a point, two points, a number of
JSON, a null.  Signs (negative numbers, hence negative chain ids) and the underscores
that `SetString` allows in other bases are left out.

### `Dkg`: creation of a wallet

`main[c]` holds the main goroutine of both sides of call `c`, `reader`, `errs`,
`done`, `conn`, `toServer`, `toClient` as above.  Of the key generation the last
message of each side is modelled (`made`, `sent`, `got`), because the question
is what may overtake it.  `wallets` are the calls whose wallet is stored for the
user (all calls are of one user).

### `Requests`: signatures, exports and access tokens

`tokens` is the token cache (a call is admitted by its own fresh token).
`main[c]` holds the client's call and its handler; `receive` and `send` are
`tss.Receive` and `tss.Send` of both sides, the older pair of goroutines that
signing still uses; `expired` are the contexts that are over, `errs` the errors
`Sign` can read, `wire` the messages in flight to each side.  `Receive` has two
places, in `Read` and at the `select` of its loop, because a context that ends is
an error in one and silence in the other.  Of the signature the last message of
each side is modelled, as in `Dkg`.  `response` is the body that `Export` gets.
The handler's `time.Sleep(time.Second)` is a guard: the model assumes that a
second is enough for `Send`, which polls every 10 ms, to write its last message
(the mutant without the sleep breaks `RequestCompletes`).

`devMode` is the `DevMode` of the server's configuration, fixed in the initial state.
Outside dev mode both middlewares compare `r.URL.Scheme`, which `net/http` leaves empty
for the requests a server gets (`UrlScheme`, external): `identityMiddleware` refuses
every call (`SchemeRefused`), so none gets a token, and `authMiddleware` would refuse it
again.  `AddDevice`, `AddShare`, `Dkg`, `ServerCache` and `Wallets` therefore speak of dev
mode, the only mode in which their handlers are reached (a reverse proxy does not change
that: the scheme is not taken from a header).

### `PeerNetwork` and `PeerManager`: the transport of TSS messages

`PeerNetwork` says what the protocols of the alice library expect: the messages
of one party to another are handled once each, in order, and all of them.
`PeerManager` is the code: one queue per party (`outwardMessages`), `TssSend`
goroutines that take from it (`tssMsg` is what a goroutine holds between taking
and writing; on the server two of them share one queue), the websockets
(`wire`), and `AdderGenericHandle`, by which the server relays between the
devices.  `sent` and `handled` are those of `PeerNetwork`, so the refinement
mapping is the identity and `DeliversInOrder` is the specification of
`PeerNetwork`, with its fairness.  Connections do not fail in this module.

### The modules of proofs

`AddDevice_proofs`, `AddShare_proofs`, `Dkg_proofs`, `PeerManager_proofs`,
`Requests_proofs`, `ServerCache_proofs`, `Signature_proofs` and `Wallets_proofs` hold
the theorems of section 5.  Each is self-contained: those about connections begin
with the lemmas they need about sequences, what an append, a read and a
truncation can add to the messages in flight.

### External behaviour

The websocket library is modelled from its use.  On an open connection messages
are delivered in order.  Writing on a connection that is over fails or is lost
silently.  The successful paths call `cancel()` before `Close`: cancelling the
pending read may tear the connection down first, so the other side may see a
normal or a broken end (`FinalClose`).  `Drop` breaks a connection at any moment,
losing any suffix of what is in flight in both directions; it also stands for
the timeout of one minute.

## 3. Runs

| Run | Instance | Shows |
|---|---|---|
| `AddDevice_one` | 1 registration, 2 accepts of one device, 1 failure, fair | `RegisteredPersisted`, `AcceptedPersisted`, `StoredOnlyIfComplete`: success is reported only for a stored, complete registration; `AcceptedSessionCompletes`, `JoinedRegistrationCompletes`: without a failure the goroutines never deadlock, also when two accept handlers share the channels of the registration |
| `AddDevice_sequential` | 2 registrations one after the other, 2 accepts | `DevicesUsable`: a registered device stays in the stored parameters |
| `AddDevice_overlap` | 2 registrations that overlap, 2 accepts | *violated* `DevicesUsable`: the second `AddPeer` erases the coefficient of the first device |
| `AddShare_relay` | 1 session, fair | `ImplementsProcess`; `NothingTooLate`, `NothingLeftBehind`: no message is discarded by a stage check or stays in a queue; `AdderReady`: no reader meets a message before its adder; `StageNeverBack`: the two writers of `stage` never undo each other; `SessionEnds` |
| `ServerCache_channels` | 2 registrations and 1 accept, 3 channels | `SessionIsLatest`, `FoundWhilePublished`: an accept call gets the channels of one registration, the last one, for as long as they live; `AdmittedAsVouched`: a handler runs for the user the provider named, in time |
| `Wallets_devices` | a web and an iOS device, 5 shares, 2 failures or crashes, fair | `ReturnedUsable`: what the SDKs return works with the server; `OthersUnharmed`: no step, not even the late write of a handler whose client is gone, takes a stored wallet from a device; both unless a set-up began while a handler of an earlier one was running; `BackupEnds` without a failure |
| `Wallets_backup` | a web device, 2 failures | *violated* `BackupUsable`: a failed process gives a backup of nothing |
| `Dkg_sequential` | 2 calls one after the other, 2 failures, fair | `ReturnedIsUsable`, `NormalEndMeansDelivered`; `StoredIsDelivered` without a failure |
| `Dkg_early` | 1 call, no failure, fair | *violated* `StoredIsReturned`: the acknowledgement overtakes the last TSS message and `Dkg` hangs |
| `PeerManager_relay` | 2 devices and the server, 2 messages per pair | `DeliversInOrder`: the queues and the relay implement `PeerNetwork` |
| `Requests_faults` | 1 signature whose contexts may end, 1 export, 1 failure, dev mode on and off, fair | `RequestCompletes` without a failure; `SignatureReturned`: `Sign` returns the signature it has, however the connection ends; `NeverStranded`: as long as it waits for the end of the connection, that end is still to come and there is a `Receive` to see it; `SignedByBoth`: what it returns is a signature both sides took part in; `RefusedOnlyOnFault`: in dev mode contexts that end never make the server refuse or fail a request; outside dev mode every request is refused |
| `Signature_numbers` | a curve of order 13, two digits to base 4, every key, nonce, message and share | `SignatureRecovers`: a signature is low-S and leads back to the wallet; `TransactionFromWallet`: a transaction is from the wallet on its own chain only, and with chain id 0 from somebody else; `ExportedIsKey`: the key goes to the holder of a share only; `ParsedAsMeant`: a number is read exactly in hex and in decimals, otherwise as near as the form allows or as 0 |

Properties that say "without a failure" end in `\/ faults > 0`: the behaviours
with failures are in the same run, and satisfy them trivially once a failure
happened.  `AddDevice_one` has one device: when *two* devices accept the same
registration their handlers can take each other's messages and the registration
can hang (the hazard at `server/tss_add.go:456`).

The violated properties are quoted from documents or comments in the `findings`
of `PROJECT.json`.

**Other disagreements met while modelling.** The models contain them; each is
excluded from a property where it would break it.

- `RegisterDevice` and `AcceptDevice` return `nil` for both the result and the
  error when their process fails (`client/tss_add.go:293` and `:564`).
- Two calls of `Dkg` that overlap both pass `WalletExists` and both store a wallet
  (`server/tss_dkg.go:223`); with `OneAtATime = FALSE` the module `Dkg` shows it.
- A context that ends between two reads of `Receive` leaves `Sign` waiting with
  the signature in hand (`client/client.go:342`); `Requests` with `Prompt = FALSE`
  shows it.
- Outside dev mode every request is refused (`server/handlers.go:23` and `:126`), and
  `/export` is asked for `wss`; `docs/docs/server.md:33` says of dev mode: "Make sure to
  turn it off in production."
- A handler that outlives its client writes back what it read before, or stores a
  second wallet; when the next set-up has begun by then, the device it set up, or all
  others, can no longer be used (`server/tss_add.go:611`, `server/tss_dkg.go:223`).
  `Wallets` without the condition `overlap` shows it.
- `Dkg` returns neither a result nor an error when its process fails
  (`client/client.go:235`).
- A chain id that cannot be read becomes 0 (`tx.go:190`), and the transaction is signed
  for a hash that its readers do not use: it comes from an address that is not the
  wallet's, although `docs/docs/client/web.md:79` relies on the chain id.
- `Export` does not look at the status of the answer and returns the text of an
  error as the key (`client/client.go:413`).
- `GetWallet` of the web SDK returns a wallet without metadata after a write of
  the storage was cut short (`index.js:135`); the iOS SDK stores an item without a
  share and can then neither read nor replace it (`meemaw.swift:293`).
- `SignEthTransaction` of the wasm module drops the error of `Sign`: a transaction
  with `maxFeePerGas`, which the EIP-155 signer refuses, comes back empty
  (`wasm/main.go:254`).
- A JSON number in a transaction passes through `float64` and `int64`
  (`tx.go:169`): an amount above 2^53 is not read as it was written, and one above 2^63
  has no defined result.  Texts like `1e18` and `0X1f` are read as 0.

**Bounds.** `Regs`, `Accs`, `Calls` bound the calls of a behaviour: one of each
covers the interleavings inside a session, two the interference between
sessions; nothing in the code relates more than two.  `MaxFaults` bounds the
failures: with two, one failure can hit the handling of another.  `NChannels` is
three instead of eight: a first, a middle and a last channel are all that the
order of the accesses tells apart.  `TokenLife` and `ChannelLife` are 1 and 2
units: a token expires before a channel, as in the code, and both expire in
between two accesses.  `MaxPeers` is enough for each device to register, back up
and restore.  The curve of order 13 (`y^2 = x^3 + 3` over 19 elements) has points
on both sides of every branch, among them two whose x is above the order, which
the code does not handle and the properties leave out: on secp256k1 such a nonce
has a probability of about 2^-128.  `Float`, `Dotted` and `Word` are 3, 4 and 5
bits, in the order of 53, 64 and the 64 of an integer, and `MaxValue`, 150, is past all
of them; `MaxDigits`, 3, is enough for its texts.  `ChainIds` are 0 and two others.  `OneAtATime`
restricts the application to one registration (or wallet creation) at a time;
`AddDevice_overlap`, without it, shows what goes wrong otherwise.  `Prompt` keeps the end of a
context out of the moment between two reads of `Receive`; the
variable `slow`, fixed in the initial state, holds the calls whose contexts end at
all.  `MaxSends` bounds the messages of a pair of
parties: two show their order.  In `PeerManager_relay` the server has messages of
its own for one device only; with the relayed ones its queue then mixes both
senders and both receivers.  Deadlock checking is off:
behaviours end when every call has returned, and calls that wait without a
timeout after a failure really stay.

**Fairness.** Weak fairness of each goroutine: the Go scheduler runs whatever
can run.  The library's progress (a TSS party that has its messages goes on, a
message in flight arrives) is weakly fair too.  The deadline of a context is
fair in `Requests`, since time passes.  In `AddShare` every
goroutine and party is fair; `TssSend` may stop instead of sending once it may.  In
`Wallets` the steps that the code takes by itself once a call was made
(`Progress`) are fair.  Calls of the application (but those of
`Requests`), failures and the expiry of the cache are never fair.  `TssSend` and the main of
the same handler are separate goroutines, so no order between them is assumed;
that is what `Dkg_early` rests on.

## 4. Mutants

Every property of a passing run has a mutant of the model that breaks it: a
plausible bug (a check dropped, an error ignored, an acknowledgement sent early)
written just before the action it replaces.

## 5. Proofs

`AddDevice_proofs` proves for all sets `Regs`, `Accs`, `Owners`, any `MaxFaults`
and both values of `OneAtATime` (assumption `ConstantsAssumption`: the sets are
disjoint and do not contain `None`):

- `TypeCorrect`: `Spec => []TypeOK`;
- `StoresOnlyComplete`: `Spec => []StoredOnlyIfComplete`;
- `AcceptImpliesPersisted`: `Spec => []AcceptedPersisted`;
- `RegisterImpliesPersisted`: `Spec => []RegisteredPersisted`;
- `SequentialDevicesUsable`: `Spec => []DevicesUsable` when `OneAtATime` holds and
  `MaxFaults` is 0.  Without either it is false: `AddDevice_overlap` shows what
  overlapping registrations do to the wallet.

None of the properties is inductive: `RegisteredPersisted` speaks of a variable
that the new device sets long after the row is written by another process.  The
inductive invariant `IInv` has five named parts besides the types.  `FreshInv`: a
connection that was not accepted has no handler and no traffic.  `PairInv`: an
accept handler serves a registration that exists, peer ids are those of devices.
`NewIdInv`: from the moment the peer id of the new device is in flight to the
existing one, the accept handler holds the id of its own registration.  `TssInv`:
a registration has one adder at most, which is done only after the new device
is, and the handler writes only after the adder is done.  `ChainInv`: whatever
says that a device is done (a message in flight, a value in a channel, a closed
`serverDone`) was caused by the write; the properties follow from it.  The proof
has one lemma per group of actions, with a step per action and per disturbed
part of the invariant; lemmas about the queues (`SentAdds`, `ClosedAdds`,
`CutAdds`, ...) say once what an operation can add to what is in flight.

`SequentialDevicesUsable` rests on a second invariant, `SInv`, proved on top of
`IInv`.  `AddPeer` writes the wallet that the adder was created from, so the claim
is that nobody wrote the wallet in between.  `WalletInv`: as long as some handler has
or may get the adder of a registration (`Pending`), the wallet it was created from
is the stored one.  `OnceInv`: one accept handler at most has an adder, and none has
that of a stored registration.  `HealthyInv`: a registration that is not stored has
a call that has not returned, an open connection, no error reported and no end of the
connection in flight; so a pending registration is a running one.  `OneInv`: one
registration runs at a time.  Most steps leave adders and wallet alone (`Quiet`);
the four that do not (`RegisterDevice`, `RegisterDeviceMessage`,
`AcceptMetadataReceive`, `AcceptHandlerAddPeer`) have a lemma each.  `HealthyInv` has
its own frame (`Spares`), with a step per action.

`Dkg_proofs` proves for any set of calls, any `MaxFaults` and both values of
`OneAtATime` (assumption `DkgAssumption`):

- `TypeCorrect`: `Spec => []TypeOK`;
- `NormalEndDelivers`: `Spec => []NormalEndMeansDelivered`, also for calls that
  overlap;
- `ReturnsUsable`: `Spec => [](OneAtATime => ReturnedIsUsable)`.

The inductive invariant has three parts besides the types.  `ChainInv`: metadata
in flight, or received, exist only for a stored wallet, and an acknowledgement, a
closed `serverDone` of the server or a successful end only after the client
received them.  `TssInv`: a client that goes on and a handler that stores have
finished their key generation, and a handler stores once.  `OneInv`: with calls
one at a time there is one call in progress, and before it stores there is no
wallet.  `QueueSteps` says once for all actions what a step can add to the
messages in flight.

`ServerCache_proofs` proves for any calls, users, numbers of channels and
lifetimes (assumption `ServerCacheAssumption`):

- `TypeCorrect`: `Spec => []TypeOK`;
- `SessionsAreLatest`: `Spec => []SessionIsLatest`;
- `PublishedAreFound`: `Spec => []FoundWhilePublished`;
- `AdmitsAsVouched`: `Spec => AdmittedAsVouched`, an action property.

The assumption says of `None` that it is no call, no user and no entry of the
cache; TLC's values are never equal, the prover has to be told.  The parts of
the invariant follow the three questions.  `VouchInv`: the time a token has left
and the time since the provider vouched add up to `TokenLife`.  `LifeInv`: every
channel that a registration has set is there until `ChannelLife` after its first
`Set`, though another registration may have replaced it.  `SetInv` and `FetchInv`:
the channels behind a registration in the middle of its `Set`s are its own unless
another one overlapped, when none is in the middle they are those of the last
one, and so is what an accept call has fetched so far.  `CallInv` ties the place of
a call to the number of its next channel.

`PeerManager_proofs` proves for any clients, pairs of parties and number of
messages (assumption `PeersAssumption`):

- `TypeCorrect`: `Spec => []TypeOK`;
- `DeliversStepwise`: `Spec => Network!Init /\ [][Network!Next]_(Network!vars)`, the
  refinement of `PeerNetwork` without its fairness.

A message is at a *place*: the queue of a party, what a `TssSend` holds, or a link.
Places have ranks along the way from the sender over the server to the receiver.
The invariant says that a message is at a place on its way (`AtHome`), that of two
messages of a pair the one further on was sent first (`Ordered`), and that the
messages under way are exactly those sent and not yet handled (`Window`,
`Complete`).  So what a receiver handles is the next message of its pair.  The
proof covers what is delicate in the code: the scan of
`GetNextMessageToSendPeer` takes a message out of the middle of a queue that two
senders share, and the relay appends to the same queue.

`Wallets_proofs` proves for any devices of the two SDKs and any numbers of shares,
failures and crashes (assumptions `WalletsAssumption` and `RowAssumption`: `None` is no
device, no number and no row):

- `TypeCorrect`: `Spec => []TypeOK`;
- `WalletsUsable`: `Spec => []ReturnedUsable`;
- `NobodyHarmed`: `Spec => OthersUnharmed`, an action property.

Both say something as long as `overlap` is false.  `AddPeer` replaces the row by an older
one with a new peer, so the claim is that the older one is not out of date.  `HandlerInv`
says why: without an overlap there is one handler at most (`Alone`), all rows are alike
(`Alike`), the row that a handler of a registration holds is the one in the database,
and a handler of a `Dkg` runs before there is any wallet (`Current`), and a handler of a
registration belongs to the one under way, if there is one, and opened the row with its
metadata (`Begun`).  Then the write of a handler only adds (`Grows`), whoever is left to see
it.  The other parts say of whatever holds a share or metadata (a store, a `Wallet`
object, a result about to be stored, a registration) that the server knows the share in
every row and that the metadata opens every row (`StoreInv`, `WalletInv`, `ResInv`,
`SessionInv`, `DkgInv`).

`AddShare_proofs` proves for the session, whatever its three parties are called
(assumption `PartiesAssumption`: they differ) and however its goroutines interleave:

- `TypeCorrect`: `Spec => []TypeOK`;
- `AddersReady`: `Spec => []AdderReady`;
- `NoneTooLate`: `Spec => []NothingTooLate`;
- `NoneLeftBehind`: `Spec => []NothingLeftBehind`;
- `StageOnlyForward`: `Spec => StageNeverBack`, an action property;
- `ImplementsStepwise`: `Spec => Process!Init /\ [][Process!Next]_(Process!vars)`, the
  refinement of `ShareProtocol` without its fairness.

TLC covers the same session exhaustively; the proof says why it works.  `Net`: a TSS
message is on its way to its receiver (`Routed`), was sent by a round that its
sender has ended (`Caused`), and is in one place at most, in none once it is handled
(`Once`, `Sole`).  `RoundInv`: a party has all messages that its past rounds awaited.
`StartInv`: what starts a client is the first message on its wire.  `StageInv`: the
server has messages of a device only from a reader that is past its stage.
`DoneInv`: whatever belongs to the end of the session (a message, a channel, a
closed `serverDone`, a main or a sender that returned) exists only when every
process is done.  Then every message was handled, so that by `Sole` no queue holds
one.

`Requests_proofs` proves for any sets of signatures and exports and any `MaxFaults`
(assumption `RequestsAssumption`: no call is both):

- `TypeCorrect`: `Spec => []TypeOK`;
- `StrandedNever`: `Spec => []NeverStranded` (which says something when `Prompt` holds:
  without it `Sign` can be stranded, see section 3);
- `BothSigned`: `Spec => []SignedByBoth`, for both values of `Prompt`;
- `NoneRefused`: `Spec => []RefusedOnlyOnFault`, for both values of `Prompt`.

A step changes the state of its own call only (`Frame`), so the invariant is stated
call by call (`CallInv`) and has six parts.  `ConnInv`: the connection exists from
the dial to the return of the client, and is open only while the handler has not
come to close it.  `EndInv`: a connection that is over has its end in flight to the
client, unless a goroutine of the client left an error.  `ReadInv`: once `Receive` of
the client handled the last message, it either left an error or is still there with
its context running; it returns silently only at the select before that message.
`ProdInv`: outside dev mode no call gets past its first step.
`LastInv`: a last message that is in flight or was handled was sent by the other side,
which made it before, and a process is done only with both.  `CleanInv`: without a
failure, in dev mode, a call that has its token finds it in the cache, and nothing is refused.
`NeverStranded` needs four of them: the client that waits has its signature, hence
handled the last message, hence has a `Receive` to read the end of the connection,
which is in flight or still to be written by the handler.  `ConnInv` also
keeps the two kinds of calls apart: only a signature waits on `errs`.

`Signature_proofs` proves for every key, nonce, message and share, in every group that
satisfies `SignatureAssumption`:

- `TypeCorrect`: `Spec => []TypeOK`;
- `SignaturesRecover`: `Spec => []SignatureRecovers`;
- `TransactionsFromWallet`: `Spec => []TransactionFromWallet`;
- `ExportsTheKey`: `Spec => []ExportedIsKey`;
- `NumbersAsMeant`: `Spec => []ParsedAsMeant`.

The assumption says what secp256k1 and the formats give: the order `N` is prime (no two
numbers of the group have the product 0), two multiples of the base point have the same x
only when they are opposite, and then their parities differ, `Width` bytes hold a number
of the group, the x of the peers differ, a `float64` has no more bits
than an integer (`Float <= Word`), and `MaxDigits` digits hold the numbers that are
written.  `PowersAssumption` states the laws of the powers of `Base`, 2, 10 and 16 that are
used, because the provers know nothing of exponents.  TLC evaluates both on the curve of
`Signature_numbers`.

`SigInv` is the five properties and `RawInv`: what the signing process leaves is a
signature of its message (`SignedBy`: `k * s` is `z + X[k] * d` modulo `N`).  The
operations leave from `idle` and do not disturb one another, so the weight is in the
lemmas.  `Cong` is congruence modulo `N`; `InverseExists` has an inverse of every number
because multiplication by it is injective on a finite set; `KeyOf` and `RecoversOwn` are
the interpolation of `RecoverPrivateKey`: a share that is not on the line gives another
key, which the comparison with the public key refuses.  `LowS` shows that negating `s` is
negating the nonce, `Recovers` and `OtherRecovers` what the two recovery ids lead to.
`SetBytesOf` has the bytes of a number read back as it: `SetBytes` is a recursive
function, and since no induction theorem can be used, the first index at which it
differed from the quotients of the number is shown not to exist (`SmallestOf`, from the
well-foundedness of the naturals).  The same argument, for any base, has the digits of a
text in hex or in decimals read back as the number (`ParsedAsMeant`); the lemmas about
`Truncated` bound what the rounding to a precision can add or take, also for a number past
it, and the other forms are shown to fail the test of their branch.  For chain id 0 the
proof of `TransactionFromWallet` goes the other way: the same `r` and `s` with another
hash lead to another key, because the hash enters `RecoverCompact` linearly.

Only model-checked are the liveness properties (`AcceptedSessionCompletes`,
`JoinedRegistrationCompletes`, `StoredIsDelivered`, `RequestCompletes`,
`SignatureReturned`, `SessionEnds`, `BackupEnds`) and the fairness of
`DeliversInOrder` and `ImplementsProcess`: fairness and `ENABLED` are beyond the
prover.  For `SignatureReturned` the theorem `StrandedNever` has the safety half:
`Sign` never waits for an error that cannot come.

## 6. Not modelled, and what is left

Every invariant and action property that a passing run checks is a theorem; the
refinements are proved step by step.

Left out for good:

- the arithmetic inside the protocols of the alice library and inside the curves,
  AES and the layout of messages: libraries, used through their results;
- `RpcHandler` (a debug proxy), `ServeWasm`, `IdentifyHandler`, CORS headers, the
  loading of the wasm module: no state;
- the queries that no code calls, and the constructors of `tx.go` that no code
  calls;
- the methods of the iOS SDK that hash a message before signing it for the Web3
  library: no state, and the hash is the library's;
- configuration and start-up: sequential input and output before the first
  request.  `LoadSchema` creates the tables without a transaction (the hazard at
  `server/cmd/main.go:79`).
