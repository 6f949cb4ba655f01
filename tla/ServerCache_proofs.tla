------------------------- MODULE ServerCache_proofs -------------------------
(***************************************************************************)
(* Proofs about ServerCache, for any number of registrations, accept calls,*)
(* users and channels, and any lifetimes of tokens and channels.           *)
(***************************************************************************)
EXTENDS ServerCache, TLAPS

-----------------------------------------------------------------------------
(* The inductive invariant.                                                *)

\* How far the handlers are: whoever has a place among the channels was admitted
\* for a user, a registration is served once all its channels are set and an
\* accept call once all are fetched.
CallInv ==
    /\ \A c \in Calls :
          pc[c] \in {"identified", "token", "admitted", "serving"} => userId[c] \in UserIds
    /\ \A c \in Calls : pc[c] \in {"idle", "identified", "token"} => next[c] = 1
    /\ \A r \in Registers :
          /\ next[r] > 1 => pc[r] \in {"admitted", "serving"}
          /\ pc[r] = "admitted" => next[r] \in Channels
    /\ \A a \in Accepts : pc[a] = "serving" => next[a] = NChannels + 1
    /\ \A u \in UserIds :
          latest[u] # None => /\ userId[latest[u]] = u
                              /\ next[latest[u]] = NChannels + 1

\* A token is that of the user the provider named, and its life is counted from
\* that answer.
VouchInv ==
    \A c \in Calls :
        /\ pc[c] \in {"idle", "identified"} => vouched[c] = 0
        /\ pc[c] = "token" /\ tokens[c] # None =>
              /\ tokens[c].userId = userId[c]
              /\ tokens[c].left + vouched[c] = TokenLife

\* The channels that a registration has set are there until ChannelLife after the
\* first one, though another registration may have replaced them.
LifeInv ==
    \A r \in Registers :
        /\ next[r] = 1 => begun[r] = 0
        /\ \A i \in Channels :
              i < next[r] /\ begun[r] <= ChannelLife =>
                  /\ channels[userId[r]][i] # None
                  /\ channels[userId[r]][i].left + begun[r] >= ChannelLife

\* A registration of user u is in the middle of its Sets.
Setting(u) == \E r \in Registers : Midway(r, u)

\* The entry of the i-th channel of u is one of registration r, or expired.
IsOf(u, i, r) == channels[u][i] = None \/ channels[u][i].reg = r

\* A registration that meets no other finds its own channels behind it; when none
\* is in the middle of its Sets, the channels are those of the last one.
SetInv ==
    \A u \in UserIds :
        /\ \A r \in Registers : Midway(r, u) /\ r \notin overlap =>
              \A i \in Channels : i < next[r] => IsOf(u, i, r)
        /\ ~Setting(u) /\ latest[u] \notin overlap =>
              \A i \in Channels : IsOf(u, i, latest[u])
        /\ \A i \in Channels : channels[u][i] # None => latest[u] # None \/ Setting(u)

\* What an accept call that met no registration in the middle of its Sets has
\* fetched so far is of the last one.
FetchInv ==
    \A a \in Accepts :
        /\ \A u \in UserIds : Midway(a, u) /\ a \notin overlap =>
              /\ ~Setting(u)
              /\ latest[u] # None
              /\ latest[u] \notin overlap =>
                    \A i \in Channels : i < next[a] => got[a][i] = latest[u]
        /\ next[a] = NChannels + 1 /\ a \notin overlap /\ joined[a] \notin overlap =>
              joined[a] # None /\ \A i \in Channels : got[a][i] = joined[a]

IInv == TypeOK /\ CallInv /\ VouchInv /\ LifeInv /\ SetInv /\ FetchInv

-----------------------------------------------------------------------------
(* The initial state and the type invariant.                               *)

LEMMA InitInv == Init => IInv
  <1> SUFFICES ASSUME Init PROVE IInv
    OBVIOUS
  <1> USE ServerCacheAssumption DEF Init, Calls, Channels
  <1>1. TypeOK
    BY DEF TypeOK
  <1>2. CallInv /\ VouchInv /\ LifeInv
    BY DEF CallInv, VouchInv, LifeInv
  <1>3. SetInv /\ FetchInv
    BY DEF SetInv, FetchInv, Midway, Setting, IsOf
  <1>4. QED
    BY <1>1, <1>2, <1>3 DEF IInv

Token   == [userId : UserIds, left : 0..TokenLife]
Channel == [reg : Registers, left : 0..ChannelLife]

\* An entry that ages keeps its type and content, and has a unit less to live.
LEMMA AgedToken ==
    ASSUME NEW e \in Token \cup {None}
    PROVE  /\ Aged(e) \in Token \cup {None}
           /\ Aged(e) # None => /\ e # None
                                /\ Aged(e).userId = e.userId
                                /\ Aged(e).left = e.left - 1
  BY ServerCacheAssumption DEF Aged, Token

LEMMA AgedChannel ==
    ASSUME NEW e \in Channel \cup {None}
    PROVE  /\ Aged(e) \in Channel \cup {None}
           /\ Aged(e) # None => /\ e # None
                                /\ Aged(e).reg = e.reg
           /\ e # None /\ e.left > 0 => /\ Aged(e) # None
                                        /\ Aged(e).left = e.left - 1
  BY ServerCacheAssumption DEF Aged, Channel

LEMMA LaterType ==
    ASSUME NEW L \in Nat, NEW t \in 0..L + 1
    PROVE  Later(t, L) \in 0..L + 1
  BY DEF Later

LEMMA TypeStep ==
    ASSUME TypeOK, CallInv, [Next]_vars
    PROVE  TypeOK'
  <1> USE ServerCacheAssumption DEF TypeOK, cacheVars, callVars, historyVars
  <1>1. CASE UNCHANGED vars
    BY <1>1 DEF vars
  <1>2. ASSUME NEW c \in Calls,
               \/ IdentityRefused(c) \/ NoMetadata(c) \/ AdmitRefused(c) \/ HandlerFails(c)
               \/ ChannelNotFound(c)
        PROVE  TypeOK'
    BY <1>2 DEF IdentityRefused, NoMetadata, AdmitRefused, HandlerFails, ChannelNotFound,
                Refuse, Goes
  <1>3. ASSUME NEW c \in Calls, Identity(c)
        PROVE  TypeOK'
    <2>1. PICK config \in AuthConfigs, answer \in Answers :
              /\ authProviders(config, answer) # None
              /\ userId' = [userId EXCEPT ![c] = authProviders(config, answer)]
      BY <1>3 DEF Identity
    <2>2. authProviders(config, answer) \in UserIds
      BY <2>1 DEF authProviders, Supabase, CustomAuth, Answers, UserIds
    <2>3. QED
      BY <1>3, <2>1, <2>2 DEF Identity, Goes
  <1>4. ASSUME NEW c \in Calls, AuthorizeHandler(c)
        PROVE  TypeOK'
    <2>1. userId[c] \in UserIds /\ TokenLife \in 0..TokenLife
      BY <1>4 DEF AuthorizeHandler, CallInv
    <2>2. QED
      BY <1>4, <2>1 DEF AuthorizeHandler, Goes
  <1>5. ASSUME NEW c \in Calls, Admit(c)
        PROVE  TypeOK'
    BY <1>5 DEF Admit, Goes
  <1>6. ASSUME NEW r \in Registers, Publish(r)
        PROVE  TypeOK'
    <2>1. r \in Calls /\ userId[r] \in UserIds /\ next[r] \in Channels
      BY <1>6 DEF Publish, CallInv, Calls
    <2>2. Entry(r) \in [reg : Registers, left : 0..ChannelLife]
      BY DEF Entry
    <2>3. channels' \in [UserIds -> [Channels ->
                             [reg : Registers, left : 0..ChannelLife] \cup {None}]]
      BY <1>6, <2>1, <2>2 DEF Publish
    <2>4. next' \in [Calls -> 1..NChannels + 1]
      BY <1>6, <2>1 DEF Publish, Channels
    <2>5. overlap' \subseteq Calls
      BY <1>6, <2>1 DEF Publish
    <2>6. pc' \in [Calls -> {"idle", "identified", "token", "admitted", "serving", "refused"}]
      BY <1>6, <2>1 DEF Publish, Goes
    <2>7. latest' \in [UserIds -> Registers \cup {None}]
      BY <1>6, <2>1 DEF Publish
    <2>8. QED
      BY <1>6, <2>3, <2>4, <2>5, <2>6, <2>7 DEF Publish
  <1>7. ASSUME NEW a \in Accepts, Fetch(a)
        PROVE  TypeOK'
    <2>1. a \in Calls /\ userId[a] \in UserIds /\ next[a] \in Channels
      BY <1>7 DEF Fetch, CallInv, Calls
    <2>2. channels[userId[a]][next[a]].reg \in Registers
      BY <1>7, <2>1 DEF Fetch
    <2>3. got' \in [Accepts -> [Channels -> Registers \cup {None}]]
      BY <1>7, <2>1, <2>2 DEF Fetch
    <2>4. next' \in [Calls -> 1..NChannels + 1]
      BY <1>7, <2>1 DEF Fetch, Channels
    <2>5. overlap' \subseteq Calls
      BY <1>7, <2>1 DEF Fetch
    <2>6. joined' \in [Accepts -> Registers \cup {None}]
      BY <1>7, <2>1 DEF Fetch
    <2>7. QED
      BY <1>7, <2>3, <2>4, <2>5, <2>6 DEF Fetch
  <1>8. ASSUME NEW a \in Accepts, AcceptWebsocket(a)
        PROVE  TypeOK'
    BY <1>8 DEF AcceptWebsocket, Goes, Calls
  <1>9. CASE Tick
    <2>1. tokens' \in [Calls -> [userId : UserIds, left : 0..TokenLife] \cup {None}]
      <3>1. \A c \in Calls : Aged(tokens[c]) \in Token \cup {None}
        BY AgedToken DEF Token
      <3>2. QED
        BY <1>9, <3>1 DEF Tick, Token
    <2>2. channels' \in [UserIds -> [Channels ->
                             [reg : Registers, left : 0..ChannelLife] \cup {None}]]
      <3>1. \A u \in UserIds, i \in Channels : Aged(channels[u][i]) \in Channel \cup {None}
        BY AgedChannel DEF Channel
      <3>2. QED
        BY <1>9, <3>1 DEF Tick, Channel
    <2>3. vouched' \in [Calls -> 0..TokenLife + 1]
      <3>1. \A c \in Calls : Later(vouched[c], TokenLife) \in 0..TokenLife + 1
        BY LaterType
      <3>2. QED
        BY <1>9, <3>1 DEF Tick
    <2>4. begun' \in [Registers -> 0..ChannelLife + 1]
      <3>1. \A r \in Registers : Later(begun[r], ChannelLife) \in 0..ChannelLife + 1
        BY LaterType
      <3>2. QED
        BY <1>9, <3>1 DEF Tick
    <2>5. QED
      BY <1>9, <2>1, <2>2, <2>3, <2>4 DEF Tick
  <1>10. QED
    BY <1>1, <1>2, <1>3, <1>4, <1>5, <1>6, <1>7, <1>8, <1>9 DEF Next, Calls

-----------------------------------------------------------------------------
(* The parts of the invariant.                                             *)

\* The steps of a call on its way to the handler or out of it: they leave the
\* channels and all that is known of them alone.
Walk(c) ==
    \/ Identity(c) \/ IdentityRefused(c) \/ AuthorizeHandler(c) \/ NoMetadata(c)
    \/ Admit(c) \/ AdmitRefused(c) \/ HandlerFails(c)
    \/ c \in Accepts /\ (ChannelNotFound(c) \/ AcceptWebsocket(c))

LEMMA Steps ==
    ASSUME [Next]_vars
    PROVE  \/ UNCHANGED vars
           \/ \E c \in Calls : Walk(c)
           \/ \E r \in Registers : Publish(r)
           \/ \E a \in Accepts : Fetch(a)
           \/ Tick
  BY DEF Next, Walk, Calls

Walked(c) ==
    /\ UNCHANGED <<channels, next, got, historyVars>>
    /\ \A d \in Calls \ {c} : pc'[d] = pc[d] /\ userId'[d] = userId[d]
    /\ pc[c] \in {"idle", "identified", "token", "admitted"}
    /\ pc'[c] = "admitted" => pc[c] = "token"
    /\ pc'[c] = "serving" => pc[c] = "admitted" /\ c \in Accepts /\ next[c] = NChannels + 1
    /\ pc[c] = "admitted" => /\ pc'[c] \in {"serving", "refused"}
                             /\ userId'[c] = userId[c]
                             /\ c \in Registers => next[c] = 1
    /\ pc[c] # "admitted" => pc'[c] \in {"identified", "token", "admitted", "refused"}

LEMMA WalkEffect ==
    ASSUME NEW c \in Calls, Walk(c), TypeOK, CallInv
    PROVE  Walked(c)
  BY ServerCacheAssumption
     DEF Walked, Walk, Identity, IdentityRefused, AuthorizeHandler, NoMetadata, Admit, AdmitRefused,
         HandlerFails, ChannelNotFound, AcceptWebsocket, Refuse, Goes, TypeOK, cacheVars,
         historyVars

LEMMA CallStep ==
    ASSUME TypeOK, CallInv, [Next]_vars
    PROVE  CallInv'
  <1> USE ServerCacheAssumption DEF CallInv
  <1>0. TypeOK'
    BY TypeStep
  <1>1. CASE UNCHANGED vars
    BY <1>1 DEF vars, cacheVars, callVars, historyVars
  <1>2. ASSUME NEW c \in Calls, Walk(c)
        PROVE  CallInv'
    <2>1. userId'[c] \in UserIds \/ pc'[c] = "refused"
      BY <1>2, <1>0 DEF Walk, Identity, IdentityRefused, AuthorizeHandler, NoMetadata, Admit,
            AdmitRefused, HandlerFails, ChannelNotFound, AcceptWebsocket, Refuse, Goes, TypeOK,
            Answers, authProviders, Supabase, CustomAuth, UserIds
    <2>2. Walked(c)
      BY <1>2, WalkEffect
    <2>3. /\ \A u \in UserIds : latest[u] # None => latest[u] \in Registers
          /\ \A d \in Calls : next[d] \in 1..NChannels + 1
      BY DEF TypeOK
    <2>4. \A u \in UserIds : latest[u] # None => userId'[latest[u]] = userId[latest[u]]
      BY <2>2, <2>3 DEF Walked, Calls
    <2>5. QED
      BY <2>1, <2>2, <2>3, <2>4 DEF Walked, Calls, historyVars, Channels
  <1>3. ASSUME NEW r \in Registers, Publish(r)
        PROVE  CallInv'
    <2>1. \A d \in Calls \ {r} : pc'[d] = pc[d] /\ next'[d] = next[d]
      BY <1>3 DEF Publish, Goes, TypeOK
    <2>2. /\ r \in Calls /\ UNCHANGED userId /\ userId[r] \in UserIds
          /\ next[r] \in Channels /\ next'[r] = next[r] + 1
          /\ pc'[r] = IF next[r] = NChannels THEN "serving" ELSE "admitted"
      BY <1>3 DEF Publish, Goes, TypeOK, Calls
    <2>3. \A u \in UserIds : latest'[u] # latest[u] =>
              latest'[u] = r /\ u = userId[r] /\ next[r] = NChannels
      BY <1>3, <2>2 DEF Publish, TypeOK
    <2>4. /\ \A u \in UserIds : latest[u] # None => latest[u] \in Registers
          /\ \A d \in Calls : next[d] \in 1..NChannels + 1
          /\ r \notin Accepts
      BY DEF TypeOK
    <2>5. \A u \in UserIds : latest[u] # None => latest[u] # r
      BY <2>2, <2>4 DEF Channels
    <2>6. \A u \in UserIds : latest'[u] # None => /\ userId[latest'[u]] = u
                                                 /\ next'[latest'[u]] = NChannels + 1
      BY <2>1, <2>2, <2>3, <2>4, <2>5 DEF Calls
    <2>7. QED
      BY <2>1, <2>2, <2>4, <2>6 DEF Calls, Channels
  <1>4. ASSUME NEW a \in Accepts, Fetch(a)
        PROVE  CallInv'
    BY <1>4 DEF Fetch, TypeOK, Calls, Channels, cacheVars
  <1>5. CASE Tick
    BY <1>5 DEF Tick, callVars
  <1>6. QED
    BY <1>1, <1>2, <1>3, <1>4, <1>5, Steps

LEMMA VouchStep ==
    ASSUME TypeOK, CallInv, VouchInv, [Next]_vars
    PROVE  VouchInv'
  <1> USE ServerCacheAssumption DEF VouchInv
  <1>1. CASE UNCHANGED vars
    BY <1>1 DEF vars, cacheVars, callVars, historyVars
  <1>2. ASSUME NEW c \in Calls, Walk(c)
        PROVE  VouchInv'
    BY <1>2 DEF Walk, Identity, IdentityRefused, AuthorizeHandler, NoMetadata, Admit,
            AdmitRefused, HandlerFails, ChannelNotFound, AcceptWebsocket, Refuse, Goes, TypeOK,
            cacheVars, historyVars
  <1>3. ASSUME NEW r \in Registers, Publish(r)
        PROVE  VouchInv'
    BY <1>3 DEF Publish, Goes, TypeOK, Calls
  <1>4. ASSUME NEW a \in Accepts, Fetch(a)
        PROVE  VouchInv'
    BY <1>4 DEF Fetch, TypeOK, cacheVars
  <1>5. CASE Tick
    <2>1. ASSUME NEW c \in Calls
          PROVE  /\ pc'[c] \in {"idle", "identified"} => vouched'[c] = 0
                 /\ pc'[c] = "token" /\ tokens'[c] # None =>
                       /\ tokens'[c].userId = userId'[c]
                       /\ tokens'[c].left + vouched'[c] = TokenLife
      <3>1. /\ tokens'[c] = Aged(tokens[c]) /\ UNCHANGED <<pc, userId>>
            /\ vouched'[c] = IF pc[c] = "token" THEN Later(vouched[c], TokenLife)
                                                ELSE vouched[c]
        BY <1>5 DEF Tick, callVars
      <3>2. tokens[c] \in Token \cup {None} /\ vouched[c] \in Nat
        BY DEF TypeOK, Token
      <3>3. Aged(tokens[c]) # None => /\ tokens[c] # None
                                      /\ Aged(tokens[c]).userId = tokens[c].userId
                                      /\ Aged(tokens[c]).left = tokens[c].left - 1
        BY <3>2, AgedToken
      <3>4. tokens[c] # None => tokens[c].left \in Nat
        BY <3>2 DEF Token
      <3>5. QED
        BY <3>1, <3>2, <3>3, <3>4 DEF Later
    <2>2. QED
      BY <2>1
  <1>6. QED
    BY <1>1, <1>2, <1>3, <1>4, <1>5, Steps

LEMMA LifeStep ==
    ASSUME TypeOK, CallInv, LifeInv, [Next]_vars
    PROVE  LifeInv'
  <1> USE ServerCacheAssumption DEF LifeInv
  <1>1. CASE UNCHANGED vars
    BY <1>1 DEF vars, cacheVars, callVars, historyVars
  <1>2. ASSUME NEW c \in Calls, Walk(c)
        PROVE  LifeInv'
    <2>1. \A r \in Registers : next[r] > 1 => userId'[r] = userId[r]
      <3>1. Walked(c)
        BY <1>2, WalkEffect
      <3>2. QED
        BY <3>1 DEF Walked, CallInv, Calls
    <2>2. UNCHANGED <<channels, next, begun>>
      BY <1>2, WalkEffect DEF Walked, historyVars
    <2>3. \A r \in Registers : next[r] \in Nat
      BY DEF TypeOK, Calls
    <2>4. QED
      BY <2>1, <2>2, <2>3 DEF Channels
  <1>3. ASSUME NEW r \in Registers, Publish(r)
        PROVE  LifeInv'
    <2>1. /\ r \in Calls /\ UNCHANGED <<userId, begun>> /\ userId[r] \in UserIds
          /\ next[r] \in Channels /\ next'[r] = next[r] + 1
          /\ \A d \in Calls \ {r} : next'[d] = next[d]
      BY <1>3 DEF Publish, TypeOK, Calls, CallInv
    <2>2. \A u \in UserIds, i \in Channels :
              channels'[u][i] = IF u = userId[r] /\ i = next[r] THEN Entry(r)
                                                               ELSE channels[u][i]
      BY <1>3, <2>1 DEF Publish, TypeOK
    <2>3. Entry(r) # None /\ Entry(r).left = ChannelLife
      BY DEF Entry
    <2>4. \A s \in Registers : next[s] > 1 => userId[s] \in UserIds
      BY DEF CallInv, Calls
    <2>5. \A s \in Registers : begun[s] \in Nat /\ next[s] \in Nat /\ s \in Calls
      BY DEF TypeOK, Calls
    <2>6. QED
      BY <2>1, <2>2, <2>3, <2>4, <2>5 DEF Channels
  <1>4. ASSUME NEW a \in Accepts, Fetch(a)
        PROVE  LifeInv'
    BY <1>4 DEF Fetch, TypeOK, cacheVars, Calls
  <1>5. CASE Tick
    <2>1. ASSUME NEW r \in Registers
          PROVE  /\ next'[r] = 1 => begun'[r] = 0
                 /\ \A i \in Channels :
                       i < next'[r] /\ begun'[r] <= ChannelLife =>
                           /\ channels'[userId'[r]][i] # None
                           /\ channels'[userId'[r]][i].left + begun'[r] >= ChannelLife
      <3>1. /\ UNCHANGED <<next, userId>>
            /\ begun'[r] = IF next[r] > 1 THEN Later(begun[r], ChannelLife) ELSE 0
            /\ \A u \in UserIds, i \in Channels : channels'[u][i] = Aged(channels[u][i])
        BY <1>5 DEF Tick, callVars
      <3>2. next[r] \in 1..NChannels + 1 /\ begun[r] \in Nat
        BY DEF TypeOK, Calls
      <3>3. ASSUME NEW i \in Channels, i < next[r], begun'[r] <= ChannelLife
            PROVE  /\ channels'[userId[r]][i] # None
                   /\ channels'[userId[r]][i].left + begun'[r] >= ChannelLife
        <4>1. userId[r] \in UserIds
          BY <3>2, <3>3 DEF CallInv, Calls, Channels
        <4>2. begun[r] < ChannelLife /\ begun'[r] = begun[r] + 1
          BY <3>1, <3>2, <3>3 DEF Later, Channels
        <4>3. /\ channels[userId[r]][i] # None
              /\ channels[userId[r]][i].left + begun[r] >= ChannelLife
          BY <3>3, <4>2, <3>2
        <4>4. channels[userId[r]][i] \in Channel
          BY <4>1, <4>3 DEF TypeOK, Channel
        <4>5. channels[userId[r]][i].left \in Nat
          BY <4>4 DEF Channel
        <4>6. /\ Aged(channels[userId[r]][i]) # None
              /\ Aged(channels[userId[r]][i]).left = channels[userId[r]][i].left - 1
          BY <4>2, <4>3, <4>4, <4>5, <3>2, AgedChannel
        <4>7. QED
          BY <3>1, <3>2, <4>1, <4>2, <4>3, <4>5, <4>6
      <3>4. QED
        BY <3>1, <3>2, <3>3
    <2>2. QED
      BY <2>1
  <1>6. QED
    BY <1>1, <1>2, <1>3, <1>4, <1>5, Steps

-----------------------------------------------------------------------------
(* Who is in the middle of its channels.                                   *)

\* No call enters or, but for an accept call, leaves the middle on its way.
LEMMA WalkMidway ==
    ASSUME NEW c \in Calls, Walk(c), TypeOK, CallInv
    PROVE  /\ \A d \in Calls, u \in UserIds : Midway(d, u)' => Midway(d, u)
           /\ \A r \in Registers, u \in UserIds : Midway(r, u)' <=> Midway(r, u)
           /\ \A u \in UserIds : Setting(u)' <=> Setting(u)
  <1>1. Walked(c)
    BY WalkEffect
  <1>2. \A d \in Calls : next[d] \in Nat
    BY DEF TypeOK
  <1>3. \A d \in Calls, u \in UserIds : Midway(d, u)' => Midway(d, u)
    BY <1>1, <1>2 DEF Walked, Midway, CallInv
  <1>4. \A r \in Registers, u \in UserIds : Midway(r, u)' <=> Midway(r, u)
    BY <1>1, <1>2, <1>3 DEF Walked, Midway, CallInv, Calls
  <1>5. QED
    BY <1>3, <1>4 DEF Setting

\* A Set takes its registration through the middle and leaves the others there;
\* those of the same user are marked.
Set(r) ==
    /\ r \in Calls /\ userId[r] \in UserIds /\ next[r] \in Channels
    /\ next'[r] = next[r] + 1
    /\ overlap \subseteq overlap'
    /\ \A d \in Calls \ {r}, u \in UserIds :
          /\ next'[d] = next[d]
          /\ Midway(d, u)' <=> Midway(d, u)
          /\ Midway(d, u) /\ u = userId[r] => d \in overlap'
    /\ \A u \in UserIds :
          /\ Midway(r, u) <=> u = userId[r] /\ next[r] > 1
          /\ Midway(r, u)' <=> u = userId[r] /\ next[r] < NChannels
          /\ u # userId[r] => /\ channels'[u] = channels[u]
                              /\ latest'[u] = latest[u]
                              /\ Setting(u)' <=> Setting(u)
    /\ \A i \in Channels :
          channels'[userId[r]][i] = IF i = next[r] THEN Entry(r) ELSE channels[userId[r]][i]
    /\ latest'[userId[r]] = IF next[r] = NChannels THEN r ELSE latest[userId[r]]

LEMMA PublishSets ==
    ASSUME NEW r \in Registers, Publish(r), TypeOK, CallInv
    PROVE  Set(r)
  <1> USE ServerCacheAssumption
  <1>1. r \in Calls /\ userId[r] \in UserIds /\ next[r] \in Channels /\ pc[r] = "admitted"
    BY DEF Publish, CallInv, Calls
  <1>2. /\ next'[r] = next[r] + 1
        /\ \A d \in Calls \ {r} : next'[d] = next[d] /\ pc'[d] = pc[d]
        /\ pc'[r] = IF next[r] = NChannels THEN "serving" ELSE "admitted"
        /\ UNCHANGED userId
    BY <1>1 DEF Publish, TypeOK, Goes
  <1>3. \A d \in Calls : next[d] \in Nat
    BY DEF TypeOK
  <1>4. \A d \in Calls \ {r}, u \in UserIds : Midway(d, u)' <=> Midway(d, u)
    BY <1>2 DEF Midway
  <1>5. \A u \in UserIds :
          /\ Midway(r, u) <=> u = userId[r] /\ next[r] > 1
          /\ Midway(r, u)' <=> u = userId[r] /\ next[r] < NChannels
    BY <1>1, <1>2, <1>3 DEF Midway, Channels
  <1>6. \A u \in UserIds : u # userId[r] => (Setting(u)' <=> Setting(u))
    BY <1>4, <1>5 DEF Setting, Calls
  <1>7. /\ overlap \subseteq overlap'
        /\ \A d \in Calls \ {r} : Midway(d, userId[r]) => d \in overlap'
    BY DEF Publish
  <1>8. /\ \A u \in UserIds : u # userId[r] => channels'[u] = channels[u]
        /\ \A i \in Channels :
          channels'[userId[r]][i] = IF i = next[r] THEN Entry(r) ELSE channels[userId[r]][i]
    BY <1>1 DEF Publish, TypeOK
  <1>9. /\ \A u \in UserIds : u # userId[r] => latest'[u] = latest[u]
        /\ latest'[userId[r]] = IF next[r] = NChannels THEN r ELSE latest[userId[r]]
    BY <1>1 DEF Publish, TypeOK
  <1>10. QED
    BY <1>1, <1>2, <1>4, <1>5, <1>6, <1>7, <1>8, <1>9 DEF Set

LEMMA SetStep ==
    ASSUME TypeOK, CallInv, SetInv, [Next]_vars
    PROVE  SetInv'
  <1> USE ServerCacheAssumption
  <1>1. CASE UNCHANGED vars
    BY <1>1 DEF vars, cacheVars, callVars, historyVars, SetInv, Midway, Setting, IsOf
  <1>2. ASSUME NEW c \in Calls, Walk(c)
        PROVE  SetInv'
    <2>1. UNCHANGED <<channels, next, latest, overlap>>
      BY <1>2, WalkEffect DEF Walked, historyVars
    <2>2. \A u \in UserIds : /\ \A r \in Registers : Midway(r, u)' <=> Midway(r, u)
                             /\ Setting(u)' <=> Setting(u)
      BY <1>2, WalkMidway
    <2>3. QED
      BY <2>1, <2>2 DEF SetInv, IsOf
  <1>3. ASSUME NEW r \in Registers, Publish(r)
        PROVE  SetInv'
    <2>1. Set(r)
      BY <1>3, PublishSets
    <2>2. Entry(r).reg = r
      BY DEF Entry
    <2>3. r # None /\ next[r] \in Nat /\ \A s \in Registers : s \in Calls
      BY DEF TypeOK, Calls
    <2>4. ASSUME NEW u \in UserIds, NEW s \in Registers, Midway(s, u)', s \notin overlap',
                 NEW i \in Channels, i < next'[s]
          PROVE  IsOf(u, i, s)'
      <3>1. CASE u # userId[r]
        BY <2>1, <2>3, <2>4, <3>1 DEF Set, SetInv, IsOf
      <3>2. CASE u = userId[r]
        <4>1. s = r
          BY <2>1, <2>3, <2>4, <3>2 DEF Set
        <4>2. CASE i = next[r]
          BY <2>1, <2>2, <3>2, <4>1, <4>2 DEF Set, IsOf
        <4>3. CASE i < next[r]
          <5>1. Midway(r, u) /\ r \notin overlap
            BY <2>1, <2>4, <3>2, <4>1, <4>3 DEF Set, Channels
          <5>2. IsOf(u, i, r)
            BY <5>1, <4>3 DEF SetInv
          <5>3. QED
            BY <2>1, <3>2, <4>1, <4>3, <5>2 DEF Set, IsOf, Channels
        <4>4. QED
          BY <2>1, <2>3, <2>4, <4>1, <4>2, <4>3 DEF Set, Channels
      <3>3. QED
        BY <3>1, <3>2
    <2>5. ASSUME NEW u \in UserIds, ~Setting(u)', latest'[u] \notin overlap', NEW i \in Channels
          PROVE  IsOf(u, i, latest[u])'
      <3>1. CASE u # userId[r]
        BY <2>1, <2>5, <3>1 DEF Set, SetInv, IsOf
      <3>2. CASE u = userId[r]
        <4>1. next[r] = NChannels /\ latest'[u] = r
          BY <2>1, <2>5, <3>2 DEF Set, Setting, Channels
        <4>2. CASE i = NChannels
          BY <2>1, <2>2, <3>2, <4>1, <4>2 DEF Set, IsOf
        <4>3. CASE i < NChannels
          <5>1. Midway(r, u) /\ r \notin overlap
            BY <2>1, <2>5, <3>2, <4>1, <4>3 DEF Set, Channels
          <5>2. IsOf(u, i, r)
            BY <5>1, <4>1, <4>3 DEF SetInv
          <5>3. QED
            BY <2>1, <3>2, <4>1, <4>3, <5>2 DEF Set, IsOf, Channels
        <4>4. QED
          BY <4>2, <4>3 DEF Channels
      <3>3. QED
        BY <3>1, <3>2
    <2>6. ASSUME NEW u \in UserIds, NEW i \in Channels, channels'[u][i] # None
          PROVE  latest'[u] # None \/ Setting(u)'
      <3>1. CASE u # userId[r]
        BY <2>1, <2>6, <3>1 DEF Set, SetInv
      <3>2. CASE u = userId[r]
        BY <2>1, <2>3, <3>2 DEF Set, Setting, Channels
      <3>3. QED
        BY <3>1, <3>2
    <2>7. QED
      BY <2>4, <2>5, <2>6 DEF SetInv
  <1>4. ASSUME NEW a \in Accepts, Fetch(a)
        PROVE  SetInv'
    <2>1. /\ UNCHANGED <<channels, latest>> /\ overlap \subseteq overlap'
          /\ \A r \in Registers : next'[r] = next[r]
      BY <1>4 DEF Fetch, TypeOK, Calls, cacheVars
    <2>2. \A r \in Registers, u \in UserIds : Midway(r, u)' <=> Midway(r, u)
      BY <1>4, <2>1 DEF Fetch, Midway
    <2>3. \A u \in UserIds : Setting(u)' <=> Setting(u)
      BY <2>2 DEF Setting
    <2>4. QED
      BY <2>1, <2>2, <2>3 DEF SetInv, IsOf
  <1>5. CASE Tick
    <2>1. /\ UNCHANGED <<pc, userId, next, latest, overlap>>
          /\ \A u \in UserIds, i \in Channels : channels'[u][i] = Aged(channels[u][i])
      BY <1>5 DEF Tick, callVars
    <2>2. \A u \in UserIds, i \in Channels : channels[u][i] \in Channel \cup {None}
      BY DEF TypeOK, Channel
    <2>3. \A u \in UserIds, i \in Channels :
              channels'[u][i] # None => /\ channels[u][i] # None
                                        /\ channels'[u][i].reg = channels[u][i].reg
      BY <2>1, <2>2, AgedChannel
    <2>4. \A u \in UserIds : /\ \A r \in Registers : Midway(r, u)' <=> Midway(r, u)
                             /\ Setting(u)' <=> Setting(u)
      BY <2>1 DEF Midway, Setting
    <2>5. QED
      BY <2>1, <2>3, <2>4 DEF SetInv, IsOf
  <1>6. QED
    BY <1>1, <1>2, <1>3, <1>4, <1>5, Steps

LEMMA FetchStep ==
    ASSUME TypeOK, CallInv, SetInv, FetchInv, [Next]_vars
    PROVE  FetchInv'
  <1> USE ServerCacheAssumption
  <1>1. CASE UNCHANGED vars
    BY <1>1 DEF vars, cacheVars, callVars, historyVars, FetchInv, Midway, Setting
  <1>2. ASSUME NEW c \in Calls, Walk(c)
        PROVE  FetchInv'
    <2>1. UNCHANGED <<next, got, latest, joined, overlap>>
      BY <1>2, WalkEffect DEF Walked, historyVars
    <2>2. \A u \in UserIds : /\ \A a \in Accepts : Midway(a, u)' => Midway(a, u)
                             /\ Setting(u)' <=> Setting(u)
      BY <1>2, WalkMidway DEF Calls
    <2>3. QED
      BY <2>1, <2>2 DEF FetchInv
  <1>3. ASSUME NEW r \in Registers, Publish(r)
        PROVE  FetchInv'
    <2>1. Set(r)
      BY <1>3, PublishSets
    <2>2. UNCHANGED <<got, joined>> /\ \A a \in Accepts : a \in Calls \ {r}
      BY <1>3 DEF Publish, Calls
    <2>3. ASSUME NEW a \in Accepts, NEW u \in UserIds, Midway(a, u)', a \notin overlap'
          PROVE  Midway(a, u) /\ a \notin overlap /\ u # userId[r]
      BY <2>1, <2>2, <2>3 DEF Set
    <2>4. \A a \in Accepts : next'[a] = next[a]
      BY <2>1, <2>2 DEF Set
    <2>5. QED
      BY <2>1, <2>2, <2>3, <2>4 DEF Set, FetchInv
  <1>4. ASSUME NEW a \in Accepts, Fetch(a)
        PROVE  FetchInv'
    <2> DEFINE u == userId[a]
               k == next[a]
    <2>1. /\ a \in Calls /\ u \in UserIds /\ k \in Channels /\ pc[a] = "admitted"
          /\ UNCHANGED <<channels, latest, pc, userId>> /\ overlap \subseteq overlap'
          /\ next'[a] = k + 1
          /\ \A d \in Calls \ {a} : next'[d] = next[d]
          /\ channels[u][k] # None
          /\ Setting(u) => a \in overlap'
      BY <1>4 DEF Fetch, TypeOK, Calls, cacheVars, CallInv, Setting
    <2>2. /\ \A b \in Accepts \ {a} : got'[b] = got[b] /\ joined'[b] = joined[b]
          /\ \A i \in Channels : got'[a][i] = IF i = k THEN channels[u][k].reg ELSE got[a][i]
          /\ joined'[a] = IF k = NChannels THEN latest[u] ELSE None
      BY <1>4, <2>1 DEF Fetch, TypeOK
    <2>3. /\ \A d \in Calls \ {a}, v \in UserIds : Midway(d, v)' <=> Midway(d, v)
          /\ \A v \in UserIds : Setting(v)' <=> Setting(v)
      <3>1. \A d \in Calls \ {a}, v \in UserIds : Midway(d, v)' <=> Midway(d, v)
        BY <2>1 DEF Midway
      <3>2. \A r \in Registers : r \in Calls \ {a}
        BY DEF Calls
      <3>3. QED
        BY <3>1, <3>2 DEF Setting
    \* What a has fetched, this channel included.
    <2>4. a \notin overlap' => /\ ~Setting(u)
                               /\ latest[u] # None
                               /\ latest[u] \notin overlap' =>
                                     \A i \in Channels : i < k + 1 => got'[a][i] = latest[u]
      <3>1. SUFFICES ASSUME a \notin overlap'
                     PROVE  /\ ~Setting(u)
                            /\ latest[u] # None
                            /\ latest[u] \notin overlap' =>
                                  \A i \in Channels : i < k + 1 => got'[a][i] = latest[u]
        OBVIOUS
      <3>2. ~Setting(u) /\ latest[u] # None
        BY <2>1, <3>1 DEF SetInv
      <3>3. ASSUME latest[u] \notin overlap', NEW i \in Channels, i < k + 1
            PROVE  got'[a][i] = latest[u]
        <4>1. latest[u] \notin overlap /\ a \notin overlap
          BY <2>1, <3>1, <3>3
        <4>2. CASE i = k
          BY <2>1, <2>2, <3>2, <4>1, <4>2 DEF SetInv, IsOf
        <4>3. CASE i < k
          <5>1. Midway(a, u)
            BY <2>1, <4>3 DEF Midway, Channels
          <5>2. got[a][i] = latest[u]
            BY <2>1, <4>1, <4>3, <5>1 DEF FetchInv
          <5>3. QED
            BY <2>2, <4>3, <5>2 DEF Channels
        <4>4. QED
          BY <2>1, <3>3, <4>2, <4>3 DEF Channels
      <3>4. QED
        BY <3>2, <3>3
    <2>5. ASSUME NEW b \in Accepts, NEW v \in UserIds, Midway(b, v)', b \notin overlap'
          PROVE  /\ ~Setting(v)'
                 /\ latest'[v] # None
                 /\ latest'[v] \notin overlap' =>
                       \A i \in Channels : i < next'[b] => got'[b][i] = latest'[v]
      <3>1. CASE b = a
        <4>1. v = u
          BY <2>1, <2>5, <3>1 DEF Midway
        <4>2. QED
          BY <2>1, <2>3, <2>4, <2>5, <3>1, <4>1
      <3>2. CASE b # a
        <4>1. b \in Calls \ {a} /\ Midway(b, v) /\ b \notin overlap
          BY <2>1, <2>3, <2>5, <3>2 DEF Calls
        <4>2. QED
          BY <2>1, <2>2, <2>3, <3>2, <4>1 DEF FetchInv
      <3>3. QED
        BY <3>1, <3>2
    <2>6. ASSUME NEW b \in Accepts, next'[b] = NChannels + 1, b \notin overlap',
                 joined'[b] \notin overlap'
          PROVE  joined'[b] # None /\ \A i \in Channels : got'[b][i] = joined'[b]
      <3>1. CASE b = a
        <4>1. k = NChannels /\ joined'[a] = latest[u]
          BY <2>1, <2>2, <2>6, <3>1 DEF Channels
        <4>2. \A i \in Channels : i < k + 1
          BY <4>1 DEF Channels
        <4>3. QED
          BY <2>4, <2>6, <3>1, <4>1, <4>2
      <3>2. CASE b # a
        <4>1. b \in Calls \ {a}
          BY <3>2 DEF Calls
        <4>2. QED
          BY <2>1, <2>2, <2>6, <3>2, <4>1 DEF FetchInv
      <3>3. QED
        BY <3>1, <3>2
    <2>7. QED
      BY <2>5, <2>6 DEF FetchInv
  <1>5. CASE Tick
    <2>1. UNCHANGED <<pc, userId, next, got, latest, joined, overlap>>
      BY <1>5 DEF Tick, callVars
    <2>2. QED
      BY <2>1 DEF FetchInv, Midway, Setting
  <1>6. QED
    BY <1>1, <1>2, <1>3, <1>4, <1>5, Steps

-----------------------------------------------------------------------------
(* The theorems.                                                           *)

LEMMA Inductive == Spec => []IInv
  <1>1. Init => IInv
    BY InitInv
  <1>2. IInv /\ [Next]_vars => IInv'
    BY TypeStep, CallStep, VouchStep, LifeStep, SetStep, FetchStep DEF IInv
  <1>3. QED
    BY <1>1, <1>2, PTL DEF Spec

\* The cache and the calls keep their types, whatever the number of calls, users
\* and channels.
THEOREM TypeCorrect == Spec => []TypeOK
  <1>1. IInv => TypeOK
    BY DEF IInv
  <1>2. QED
    BY <1>1, Inductive, PTL

\* GetInterHandlersChannels gives an accept call the channels of one registration,
\* the last of its user, unless it ran in the middle of the Sets of one.
THEOREM SessionsAreLatest == Spec => []SessionIsLatest
  <1>1. IInv => SessionIsLatest
    BY DEF IInv, SessionIsLatest, FetchInv, CallInv
  <1>2. QED
    BY <1>1, Inductive, PTL

\* No channel of a registration is missing for an accept call before ChannelLife
\* has passed since RegisterDeviceHandler set the first one.
THEOREM PublishedAreFound == Spec => []FoundWhilePublished
  <1>1. ASSUME IInv
        PROVE  FoundWhilePublished
    <2>1. ASSUME NEW a \in Accepts, pc[a] = "admitted", next[a] \in Channels,
                 latest[userId[a]] # None, begun[latest[userId[a]]] <= ChannelLife
          PROVE  channels[userId[a]][next[a]] # None
      <3>1. userId[a] \in UserIds
        BY <1>1, <2>1 DEF IInv, CallInv, Calls
      <3>2. latest[userId[a]] \in Registers
        BY <1>1, <2>1, <3>1 DEF IInv, TypeOK
      <3>3. /\ userId[latest[userId[a]]] = userId[a]
            /\ next[latest[userId[a]]] = NChannels + 1
        BY <1>1, <2>1, <3>1 DEF IInv, CallInv
      <3>4. next[a] < NChannels + 1
        BY <2>1, ServerCacheAssumption DEF Channels
      <3>5. QED
        BY <1>1, <2>1, <3>2, <3>3, <3>4 DEF IInv, LifeInv
    <2>2. QED
      BY <2>1 DEF FoundWhilePublished
  <1>2. QED
    BY <1>1, Inductive, PTL

\* authMiddleware admits a call only for the user that identityMiddleware found,
\* and not later than TokenLife after that.
THEOREM AdmitsAsVouched == Spec => AdmittedAsVouched
  <1>1. ASSUME IInv, [Next]_vars
        PROVE  \A c \in Calls : pc[c] # "admitted" /\ pc'[c] = "admitted" =>
                   userId'[c] = userId[c] /\ vouched[c] <= TokenLife
    <2>1. SUFFICES ASSUME NEW c \in Calls, pc[c] # "admitted", pc'[c] = "admitted"
                   PROVE  userId'[c] = userId[c] /\ vouched[c] <= TokenLife
      OBVIOUS
    <2>2. Admit(c)
      <3>1. TypeOK
        BY <1>1 DEF IInv
      <3>2. QED
        <4>1. pc \in [Calls -> {"idle", "identified", "token", "admitted", "serving",
                                "refused"}]
          BY <3>1 DEF TypeOK
        <4>2. CASE UNCHANGED pc
          BY <2>1, <4>2
        <4>3. CASE \E e \in Calls : Admit(e)
          <5>1. PICK e \in Calls : Admit(e)
            BY <4>3
          <5>2. c = e
            BY <2>1, <4>1, <5>1 DEF Admit, Goes
          <5>3. QED
            BY <5>1, <5>2
        <4>4. CASE \E e \in Calls, state \in {"identified", "token", "serving", "refused"} :
                      Goes(e, state)
          BY <2>1, <4>1, <4>4 DEF Goes
        <4>5. QED
          <5>1. CASE UNCHANGED vars
            BY <4>2, <5>1 DEF vars, callVars
          <5>2. CASE \E e \in Calls : Walk(e)
            <6>1. PICK e \in Calls : Walk(e)
              BY <5>2
            <6>2. \/ Admit(e)
                  \/ \E state \in {"identified", "token", "serving", "refused"} :
                        Goes(e, state)
              BY <6>1 DEF Walk, Identity, IdentityRefused, AuthorizeHandler, NoMetadata,
                 AdmitRefused, HandlerFails, ChannelNotFound, AcceptWebsocket, Refuse
            <6>3. QED
              BY <4>3, <4>4, <6>2
          <5>3. CASE \E r \in Registers : Publish(r)
            BY <4>2, <4>4, <5>3 DEF Publish, Calls
          <5>4. CASE \E a \in Accepts : Fetch(a)
            BY <4>2, <5>4 DEF Fetch
          <5>5. CASE Tick
            BY <4>2, <5>5 DEF Tick, callVars
          <5>6. QED
            BY <1>1, <5>1, <5>2, <5>3, <5>4, <5>5, Steps
    <2>3. pc[c] = "token" /\ tokens[c] # None /\ userId'[c] = tokens[c].userId
      BY <1>1, <2>2 DEF Admit, IInv, TypeOK
    <2>4. tokens[c] \in Token /\ vouched[c] \in Nat
      BY <1>1, <2>3 DEF IInv, TypeOK, Token
    <2>5. tokens[c].left \in Nat
      BY <2>4 DEF Token
    <2>6. tokens[c].userId = userId[c] /\ tokens[c].left + vouched[c] = TokenLife
      BY <1>1, <2>3 DEF IInv, VouchInv
    <2>7. QED
      BY <2>3, <2>4, <2>5, <2>6, ServerCacheAssumption
  <1>2. QED
    BY <1>1, Inductive, PTL DEF Spec, AdmittedAsVouched
=============================================================================
