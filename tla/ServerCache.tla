----------------------------- MODULE ServerCache -----------------------------
(***************************************************************************)
(* The in-memory cache of the server, which holds the access tokens of the *)
(* calls and, per user, the eight channels through which the handlers of a *)
(* registration and of an accept call meet; and the way of a call from its *)
(* bearer token to its handler.                                            *)
(* Sources: server/handlers.go, server/auth_providers.go, server/main.go   *)
(* and, for the channels, server/tss_add.go.  The cache is                 *)
(* patrickmn/go-cache, the auth provider a service of the application.     *)
(*                                                                         *)
(* AddDevice publishes and fetches the channels in one step; here every    *)
(* Set and Get is a step.  Time is counted in units of which an access     *)
(* token lives TokenLife and a channel ChannelLife (2 and 10 minutes); an  *)
(* entry holds the time it has left.                                       *)
(***************************************************************************)
EXTENDS Naturals

CONSTANTS
    Registers, Accepts,  \* calls of RegisterDevice and of AcceptDevice
    Users,               \* the users of the auth provider
    AuthConfigs,         \* what _getAuthConfig may return
    NChannels,           \* the number of channels of a registration: eight
    TokenLife, ChannelLife,
    None

Calls == Registers \cup Accepts

\* The keys of the channels of a user, in the order in which they are set and
\* fetched: newclientpeeridch, existingclientpeeridch, useragentch, metadatach,
\* adderch, existingdevicetssdonech, newdevicedonech, existingdevicedonech.
Channels == 1..NChannels

\* The user id made of a body that a provider should not have sent.
Garbled == "garbled"
UserIds == Users \cup {Garbled}

AuthConfig == [AuthType : {"supabase", "custom", "other"}, complete : BOOLEAN]

ASSUME ServerCacheAssumption ==
    /\ Registers \cap Accepts = {}
    /\ AuthConfigs \subseteq AuthConfig
    /\ NChannels \in Nat \ {0}
    /\ TokenLife \in Nat
    /\ ChannelLife \in Nat
    /\ None \notin Calls \cup UserIds
    /\ None \notin [reg : Registers, left : Nat]

VARIABLES
    tokens,      \* tokens[c]: the entry of the access token of call c, or None
    channels,    \* channels[u][i]: the entry of the i-th channel of u, or None
    pc,          \* pc[c]: how far the call is
    userId,      \* userId[c]: the user in the context of the request
    next,        \* next[c]: the next channel its handler sets or fetches
    got,         \* got[a][i]: the registration whose i-th channel a fetched
    \* history
    vouched,     \* vouched[c]: the time since the auth provider answered
    latest,      \* latest[u]: the last registration of u that set all channels
    begun,       \* begun[r]: the time since r set its first channel
    joined,      \* joined[a]: latest when a had fetched its channels
    overlap      \* calls that set or fetched channels while another set some

cacheVars   == <<tokens, channels>>
callVars    == <<pc, userId, next, got>>
historyVars == <<vouched, latest, begun, joined, overlap>>
vars        == <<cacheVars, callVars, historyVars>>

\* The type invariant: the states that the cache and the calls can be in.
TypeOK ==
    /\ tokens   \in [Calls -> [userId : UserIds, left : 0..TokenLife] \cup {None}]
    /\ channels \in [UserIds -> [Channels ->
                        [reg : Registers, left : 0..ChannelLife] \cup {None}]]
    /\ pc       \in [Calls -> {"idle", "identified", "token", "admitted",
                               "serving", "refused"}]
    /\ userId   \in [Calls -> UserIds \cup {None}]
    /\ next     \in [Calls -> 1..NChannels + 1]
    /\ got      \in [Accepts -> [Channels -> Registers \cup {None}]]
    /\ vouched  \in [Calls -> 0..TokenLife + 1]
    /\ latest   \in [UserIds -> Registers \cup {None}]
    /\ begun    \in [Registers -> 0..ChannelLife + 1]
    /\ joined   \in [Accepts -> Registers \cup {None}]
    /\ overlap  \subseteq Calls

Init ==
    /\ tokens   = [c \in Calls |-> None]
    /\ channels = [u \in UserIds |-> [i \in Channels |-> None]]
    /\ pc       = [c \in Calls |-> "idle"]
    /\ userId   = [c \in Calls |-> None]
    /\ next     = [c \in Calls |-> 1]
    /\ got      = [a \in Accepts |-> [i \in Channels |-> None]]
    /\ vouched  = [c \in Calls |-> 0]
    /\ latest   = [u \in UserIds |-> None]
    /\ begun    = [r \in Registers |-> 0]
    /\ joined   = [a \in Accepts |-> None]
    /\ overlap  = {}

-----------------------------------------------------------------------------
(* go-cache and time.                                                      *)

\* Mutant of Aged: an expired entry stays until the janitor comes.
AgedUncollected(entry) ==
    CASE entry = None   -> None
      [] entry.left = 0 -> entry
      [] OTHER          -> [entry EXCEPT !.left = @ - 1]

\* Mutant of Aged: nothing expires.
AgedForEver(entry) ==
    IF entry = None THEN None ELSE [entry EXCEPT !.left = @ - 1]

\* The entry when one unit has passed.  Get does not return an expired entry,
\* so one that the janitor still has to delete is as good as gone.
Aged(entry) ==
    CASE entry = None   -> None
      [] entry.left = 0 -> None
      [] OTHER          -> [entry EXCEPT !.left = @ - 1]

\* A time that only counts up to the bound after which nothing depends on it.
Later(time, bound) == IF time <= bound THEN time + 1 ELSE time

\* One unit passes.  Between the answer of the auth provider and the Set of the
\* token there is no wait.
Tick ==
    /\ \A c \in Calls : pc[c] # "identified"
    /\ tokens' = [c \in Calls |-> Aged(tokens[c])]
    /\ channels' = [u \in UserIds |-> [i \in Channels |-> Aged(channels[u][i])]]
    /\ vouched' = [c \in Calls |-> IF pc[c] = "token"
                                   THEN Later(vouched[c], TokenLife) ELSE vouched[c]]
    /\ begun' = [r \in Registers |-> IF next[r] > 1
                                     THEN Later(begun[r], ChannelLife) ELSE 0]
    /\ UNCHANGED <<callVars, latest, joined, overlap>>

-----------------------------------------------------------------------------
(* From the bearer token to the handler.                                   *)

Goes(c, state) == pc' = [pc EXCEPT ![c] = state]

\* A refused call leaves everything else as it is.
Refuse(c) ==
    /\ Goes(c, "refused")
    /\ UNCHANGED <<cacheVars, userId, next, got, historyVars>>

\* What a provider may answer: a user, another body, or a status other than 200.
Answers == UserIds \cup {"status"}

\* Supabase wants a uuid; which of the errors it was is lost.
Supabase(answer) == IF answer \in Users THEN answer ELSE None

\* CustomAuth takes whatever body it gets for the user id.
CustomAuth(answer) == IF answer = "status" THEN None ELSE answer

\* None stands for an error.
authProviders(config, answer) ==
    CASE ~config.complete             -> None
      [] config.AuthType = "supabase" -> Supabase(answer)
      [] config.AuthType = "custom"   -> CustomAuth(answer)
      [] OTHER                        -> None

\* identityMiddleware asks the provider who the user is.
Identity(c) ==
    /\ pc[c] = "idle"
    /\ \E config \in AuthConfigs, answer \in Answers :
          /\ authProviders(config, answer) # None
          /\ userId' = [userId EXCEPT ![c] = authProviders(config, answer)]
    /\ Goes(c, "identified")
    /\ UNCHANGED <<cacheVars, next, got, historyVars>>

\* It is not https outside of dev mode, there is no bearer token, or
\* authProviders returns an error.
IdentityRefused(c) == pc[c] = "idle" /\ Refuse(c)

\* AuthorizeHandler, with the metadata that headerMiddleware found.
AuthorizeHandler(c) ==
    /\ pc[c] = "identified"
    /\ tokens' = [tokens EXCEPT ![c] = [userId |-> userId[c], left |-> TokenLife]]
    /\ Goes(c, "token")
    /\ UNCHANGED <<channels, userId, next, got, historyVars>>

\* The request has no metadata header.
NoMetadata(c) == pc[c] = "identified" /\ Refuse(c)

\* authMiddleware finds the token: the handler of the route runs.
Admit(c) ==
    /\ pc[c] = "token"
    /\ tokens[c] # None
    /\ userId' = [userId EXCEPT ![c] = tokens[c].userId]
    /\ Goes(c, "admitted")
    /\ UNCHANGED <<cacheVars, next, got, historyVars>>

\* It is not wss outside of dev mode, or the token is no longer there.
AdmitRefused(c) == pc[c] = "token" /\ Refuse(c)

\* The websocket is not accepted.  RegisterDeviceHandler has then set none of
\* its channels, AcceptDeviceHandler has fetched all of them.
HandlerFails(c) ==
    /\ pc[c] = "admitted"
    /\ next[c] = (IF c \in Accepts THEN NChannels + 1 ELSE 1)
    /\ Refuse(c)

-----------------------------------------------------------------------------
(* The channels of a user.                                                 *)

\* Call c of user u has begun to set or fetch channels and is not through.
Midway(c, u) ==
    pc[c] = "admitted" /\ userId[c] = u /\ next[c] \in 2..NChannels

\* Mutant of Entry: the default expiration of the cache.
EntryDefaultExpiration(r) == [reg |-> r, left |-> TokenLife]

\* Mutant of Entry: a channel that is already there is used again.
EntryReused(r) ==
    LET old == channels[userId[r]][next[r]]
    IN  [reg |-> IF old = None THEN r ELSE old.reg, left |-> ChannelLife]

Entry(r) == [reg |-> r, left |-> ChannelLife]

\* RegisterDeviceHandler sets its next channel.
Publish(r) ==
    LET u == userId[r]
        others == {c \in Calls \ {r} : Midway(c, u)}
    IN  /\ pc[r] = "admitted"
        /\ next[r] \in Channels
        /\ channels' = [channels EXCEPT ![u][next[r]] = Entry(r)]
        /\ next' = [next EXCEPT ![r] = @ + 1]
        /\ overlap' = overlap \cup others
                      \cup (IF others \cap Registers = {} THEN {} ELSE {r})
        /\ IF next[r] = NChannels
           THEN Goes(r, "serving") /\ latest' = [latest EXCEPT ![u] = r]
           ELSE UNCHANGED <<pc, latest>>
        /\ UNCHANGED <<tokens, userId, got, vouched, begun, joined>>

\* GetInterHandlersChannels fetches its next channel.
Fetch(a) ==
    LET u == userId[a]
    IN  /\ pc[a] = "admitted"
        /\ next[a] \in Channels
        /\ channels[u][next[a]] # None
        /\ got' = [got EXCEPT ![a][next[a]] = channels[u][next[a]].reg]
        /\ next' = [next EXCEPT ![a] = @ + 1]
        /\ joined' = [joined EXCEPT ![a] = IF next[a] = NChannels
                                           THEN latest[u] ELSE None]
        /\ overlap' = IF \E r \in Registers : Midway(r, u)
                      THEN overlap \cup {a} ELSE overlap
        /\ UNCHANGED <<cacheVars, pc, userId, vouched, latest, begun>>

\* It does not find the channel.
ChannelNotFound(a) ==
    /\ pc[a] = "admitted"
    /\ next[a] \in Channels
    /\ channels[userId[a]][next[a]] = None
    /\ Refuse(a)

\* It has them all: AcceptDeviceHandler accepts the websocket.
AcceptWebsocket(a) ==
    /\ pc[a] = "admitted"
    /\ next[a] = NChannels + 1
    /\ Goes(a, "serving")
    /\ UNCHANGED <<cacheVars, userId, next, got, historyVars>>

-----------------------------------------------------------------------------
Next ==
    \/ \E c \in Calls : \/ Identity(c) \/ IdentityRefused(c)
                        \/ AuthorizeHandler(c) \/ NoMetadata(c)
                        \/ Admit(c) \/ AdmitRefused(c)
                        \/ HandlerFails(c)
    \/ \E r \in Registers : Publish(r)
    \/ \E a \in Accepts : Fetch(a) \/ ChannelNotFound(a) \/ AcceptWebsocket(a)
    \/ Tick

Spec == Init /\ [][Next]_vars

-----------------------------------------------------------------------------
(* Properties.                                                             *)

\* An accept call that met no registration in the middle of its Sets works on
\* the channels of one registration, the last one of its user, if that one met
\* no other either (RegisterDeviceHandler, GetInterHandlersChannels).
SessionIsLatest ==
    \A a \in Accepts :
        pc[a] = "serving" /\ a \notin overlap /\ joined[a] \notin overlap =>
            joined[a] # None /\ \A i \in Channels : got[a][i] = joined[a]

\* A registration can be accepted for as long as the code promises: until
\* ChannelLife after its handler began to set its channels, an accept call of
\* the same user finds each of them, or that of a registration that followed.
FoundWhilePublished ==
    \A a \in Accepts :
        pc[a] = "admitted" /\ next[a] \in Channels =>
            LET u == userId[a]
            IN  latest[u] # None /\ begun[latest[u]] <= ChannelLife =>
                    channels[u][next[a]] # None

\* A handler only runs for the user whom the auth provider named for the call,
\* and at most TokenLife after it did (identityMiddleware, AuthorizeHandler,
\* authMiddleware).
AdmittedAsVouched ==
    [][\A c \in Calls : pc[c] # "admitted" /\ pc'[c] = "admitted" =>
           userId'[c] = userId[c] /\ vouched[c] <= TokenLife]_vars
=============================================================================
