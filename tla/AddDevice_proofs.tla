--------------------------- MODULE AddDevice_proofs ---------------------------
(***************************************************************************)
(* Proofs about AddDevice, for any sets of registrations, accept calls and *)
(* devices, any number of failures and overlapping registrations; only the *)
(* last theorem, about the stored wallet, is for registrations that follow *)
(* each other without failures.                                            *)
(***************************************************************************)
EXTENDS AddDevice, TLAPS

-----------------------------------------------------------------------------
(* The messages in the queues of the connections.                          *)

\* Message m is in flight in queue q.
In(m, q) == \E i \in 1..Len(q) : q[i] = m

\* Appending, taking the head and cutting a sequence: what was written on a
\* connection is read from it, and nothing else.
LEMMA InAppend ==
    ASSUME NEW M, NEW q \in Seq(M), NEW m \in M, NEW x \in M,
           In(x, Append(q, m))
    PROVE  In(x, q) \/ x = m
  <1>1. PICK i \in 1..Len(Append(q, m)) : Append(q, m)[i] = x
    BY DEF In
  <1>2. i \in 1..(Len(q) + 1) /\ Len(q) \in Nat
    BY <1>1
  <1>3. CASE i = Len(q) + 1
    BY <1>1, <1>3
  <1>4. CASE i \in 1..Len(q)
    BY <1>1, <1>4 DEF In
  <1>5. QED
    BY <1>2, <1>3, <1>4

LEMMA InTail ==
    ASSUME NEW M, NEW q \in Seq(M), q # <<>>, NEW x \in M, In(x, Tail(q))
    PROVE  In(x, q)
  <1>1. PICK i \in 1..Len(Tail(q)) : Tail(q)[i] = x
    BY DEF In
  <1>2. i + 1 \in 1..Len(q) /\ q[i + 1] = x
    BY <1>1
  <1>3. QED
    BY <1>2 DEF In

LEMMA InHead ==
    ASSUME NEW M, NEW q \in Seq(M), q # <<>>
    PROVE  In(Head(q), q)
  <1>1. 1 \in 1..Len(q) /\ q[1] = Head(q)
    OBVIOUS
  <1>2. QED
    BY <1>1 DEF In

LEMMA InSub ==
    ASSUME NEW M, NEW q \in Seq(M), NEW x \in M, NEW k \in 0..Len(q),
           In(x, SubSeq(q, 1, k))
    PROVE  In(x, q)
  <1>1. PICK i \in 1..Len(SubSeq(q, 1, k)) : SubSeq(q, 1, k)[i] = x
    BY DEF In
  <1>2. i \in 1..Len(q) /\ q[i] = x
    BY <1>1
  <1>3. QED
    BY <1>2 DEF In

\* Concatenation, for messages written before a connection is closed.
LEMMA InConcat ==
    ASSUME NEW M, NEW q \in Seq(M), NEW ms \in Seq(M), NEW x \in M,
           In(x, q \o ms)
    PROVE  In(x, q) \/ In(x, ms)
  <1>1. PICK i \in 1..Len(q \o ms) : (q \o ms)[i] = x
    BY DEF In
  <1>2. CASE i <= Len(q)
    BY <1>1, <1>2 DEF In
  <1>3. CASE i > Len(q)
    <2>1. i - Len(q) \in 1..Len(ms) /\ ms[i - Len(q)] = x
      BY <1>1, <1>3
    <2>2. QED
      BY <2>1 DEF In
  <1>4. QED
    BY <1>2, <1>3

\* Queues of messages M, one for each connection of K.
QueuesOf(K, M) == [K -> Seq(M)]

\* qq has no message that q did not have, but those of S on connection c.
Adds(K, M, q, qq, c, S) ==
    \A d \in K, x \in M : In(x, qq[d]) => In(x, q[d]) \/ (d = c /\ x \in S)

\* A read only removes the message it returns.
LEMMA TailAdds ==
    ASSUME NEW K, NEW M, NEW q \in QueuesOf(K, M), NEW c \in K, q[c] # <<>>
    PROVE  /\ [q EXCEPT ![c] = Tail(@)] \in QueuesOf(K, M)
           /\ Adds(K, M, q, [q EXCEPT ![c] = Tail(@)], c, {})
           /\ In(Head(q[c]), q[c])
           /\ Head(q[c]) \in M
  <1>1. \A d \in K : q[d] \in Seq(M)
    BY DEF QueuesOf
  <1>2. ASSUME NEW d \in K, NEW x \in M, In(x, [q EXCEPT ![c] = Tail(@)][d])
        PROVE  In(x, q[d])
    <2>1. CASE d = c
      <3>1. In(x, Tail(q[c]))
        BY <1>2, <2>1 DEF QueuesOf
      <3>2. QED
        BY <3>1, <2>1, <1>1, InTail
    <2>2. CASE d # c
      BY <1>2, <2>2 DEF QueuesOf
    <2>3. QED
      BY <2>1, <2>2
  <1>3. Head(q[c]) \in M /\ Tail(q[c]) \in Seq(M)
    BY <1>1
  <1>4. In(Head(q[c]), q[c])
    BY <1>1, InHead
  <1>5. QED
    BY <1>2, <1>3, <1>4 DEF QueuesOf, Adds

\* A connection that breaks only loses messages.
LEMMA CutAdds ==
    ASSUME NEW K, NEW M, NEW q \in QueuesOf(K, M), NEW c \in K, NEW m \in M,
           NEW i \in 0..Len(q[c])
    PROVE  /\ [q EXCEPT ![c] = Append(SubSeq(@, 1, i), m)] \in QueuesOf(K, M)
           /\ Adds(K, M, q, [q EXCEPT ![c] = Append(SubSeq(@, 1, i), m)], c, {m})
  <1>1. q[c] \in Seq(M) /\ SubSeq(q[c], 1, i) \in Seq(M)
    BY DEF QueuesOf
  <1>2. Append(SubSeq(q[c], 1, i), m) \in Seq(M)
    BY <1>1
  <1>3. ASSUME NEW d \in K, NEW x \in M,
               In(x, [q EXCEPT ![c] = Append(SubSeq(@, 1, i), m)][d])
        PROVE  In(x, q[d]) \/ (d = c /\ x = m)
    <2>1. CASE d = c
      <3>1. In(x, Append(SubSeq(q[c], 1, i), m))
        BY <1>3, <2>1 DEF QueuesOf
      <3>2. In(x, SubSeq(q[c], 1, i)) \/ x = m
        BY <3>1, <1>1, InAppend
      <3>3. In(x, SubSeq(q[c], 1, i)) => In(x, q[c])
        BY <1>1, InSub
      <3>4. QED
        BY <2>1, <3>2, <3>3
    <2>2. CASE d # c
      BY <1>3, <2>2 DEF QueuesOf
    <2>3. QED
      BY <2>1, <2>2
  <1>4. QED
    BY <1>2, <1>3 DEF QueuesOf, Adds

-----------------------------------------------------------------------------
Msgs == MsgTypes \cup Endings

-----------------------------------------------------------------------------
(* Operators the model is built from.                                      *)

\* The message types, as a set: the domain of the stages of utils/ws/ws.go.
LEMMA MsgTypesAre ==
    MsgTypes = {"peer", "device", "pubkey", "metadata", "metadataAck",
                "tssDone", "storedClient", "existingDeviceDone",
                "newDeviceDone"}
  BY DEF MsgTypes, MsgStage

\* Writing on a connection and closing it keep the queues well typed.
LEMMA QueueTypes ==
    ASSUME NEW q \in [Conns -> Seq(Msgs)], NEW c \in Conns,
           NEW m \in Msgs, NEW ms \in Seq(Msgs)
    PROVE  /\ Sent(q, c, m) \in [Conns -> Seq(Msgs)]
           /\ Closed(q, c, ms, m) \in [Conns -> Seq(Msgs)]
           /\ [q EXCEPT ![c] = Append(@, m)] \in [Conns -> Seq(Msgs)]
           /\ q[c] # <<>> => /\ Head(q[c]) \in Msgs
                             /\ [q EXCEPT ![c] = Tail(@)] \in [Conns -> Seq(Msgs)]
  <1>1. q[c] \in Seq(Msgs)
    OBVIOUS
  <1>2. Append(q[c], m) \in Seq(Msgs)
    BY <1>1
  <1>3. (q[c] \o ms) \o <<m>> \in Seq(Msgs)
    BY <1>1
  <1>4. q[c] # <<>> => Head(q[c]) \in Msgs /\ Tail(q[c]) \in Seq(Msgs)
    BY <1>1
  <1>5. QED
    BY <1>2, <1>3, <1>4 DEF Sent, Closed

\* The same for a connection that breaks.
LEMMA CutTypes ==
    ASSUME NEW q \in [Conns -> Seq(Msgs)], NEW c \in Conns,
           NEW i \in 0..Len(q[c])
    PROVE  [q EXCEPT ![c] = Append(SubSeq(@, 1, i), "broken")]
              \in [Conns -> Seq(Msgs)]
  <1>1. q[c] \in Seq(Msgs)
    OBVIOUS
  <1>2. SubSeq(q[c], 1, i) \in Seq(Msgs)
    BY <1>1
  <1>3. Append(SubSeq(q[c], 1, i), "broken") \in Seq(Msgs)
    BY <1>2 DEF Msgs, Endings
  <1>4. QED
    BY <1>3

-----------------------------------------------------------------------------
(* The inductive invariant.                                                *)

\* A connection that was not accepted has no handler and no traffic.
FreshInv ==
    \A c \in Conns : conn[c] = "none" =>
        /\ client[c] \in {"idle", "dial", "err"}
        /\ handler[c] = "none"
        /\ hdReader[c] = "off"
        /\ c \notin clDone
        /\ \A m \in Msgs : ~In(m, up[c]) /\ ~In(m, down[c])

\* An accept handler serves the registration whose channels it fetched, and
\* the peer ids it exchanges are those of real devices.
PairInv ==
    /\ \A a \in Accs :
          /\ client[a] # "idle" => device[a] \in Devices
          /\ handler[a] # "none" => client[a] # "idle" /\ session[a] \in Regs
          /\ hdReader[a] # "off" => handler[a] # "none"
    /\ \A r \in Regs :
          /\ "existingClientPeerIdCh" \in chan[r] => offered[r] \in Devices
          /\ "adderCh" \in chan[r] => existing[r] \in Devices
          /\ handler[r] = "publish" => hdReader[r] = "off"

\* The peer id an accept handler stores is the one of its registration: it
\* was received before the metadata that starts the process.
NewIdInv ==
    \A a \in Accs :
        \/ In("peer", down[a])
        \/ In("metadata", up[a])
        \/ hdReader[a] \in {"metadata", "awaitAdder"}
        \/ handler[a] \in {"tss", "store"}
        => newId[a] = session[a] /\ session[a] \in Regs

\* A registration has at most one adder, and an accept handler stores the new
\* peer when that adder and, before it, the new device are done.
TssInv ==
    /\ \A c \in Conns : client[c] \in {"idle", "dial", "wait"} => tss[c] = "off"
    /\ \A r \in Regs :
          /\ "adderCh" \in chan[r] => adder[r] = "off"
          /\ /\ handler[r] \in {"none", "publish", "wait"}
             /\ hdReader[r] # "ret"
             => adder[r] = "off" /\ "adderCh" \notin chan[r]
          /\ adder[r] = "done" => tss[r] = "done"
          /\ r \in devices => tss[r] = "done"
    /\ \A a \in Accs :
          /\ handler[a] \in {"tss", "store"} => existing[session[a]] \in Devices
          /\ handler[a] = "store" => adder[session[a]] = "done"

\* The confirmations: whatever says that a device is done was caused by the
\* write of AddPeer.
Confirmed(r) ==
    /\ r \in devices
    /\ \E a \in Accs : session[a] = r /\ a \in clDone

ChainInv ==
    /\ \A a \in Accs :
          /\ \/ handler[a] \in {"stored", "newDone"}
             \/ In("newDeviceDone", down[a])
             \/ a \in clDone
             => session[a] \in devices
          /\ \/ In("existingDeviceDone", up[a])
             \/ hdReader[a] = "existingDeviceDone"
             => a \in clDone
    /\ \A r \in Regs :
          \/ "existingDeviceDoneCh" \in chan[r]
          \/ In("existingDeviceDone", down[r])
          \/ r \in clDone
          => Confirmed(r)
    /\ \A c \in Conns : client[c] = "ok" => c \in clDone

IInv == TypeOK /\ FreshInv /\ PairInv /\ NewIdInv /\ TssInv /\ ChainInv

-----------------------------------------------------------------------------
(* What the operations on connections add to the queues.                   *)

QueueType == QueuesOf(Conns, Msgs)

\* qq has no message that q did not have, but those of S on connection c.
AddsOnly(q, qq, c, S) == Adds(Conns, Msgs, q, qq, c, S)

\* A write adds its message.
LEMMA SentAdds ==
    ASSUME NEW q \in QueueType, NEW c \in Conns, NEW m \in Msgs
    PROVE  AddsOnly(q, Sent(q, c, m), c, {m})
  <1> SUFFICES ASSUME NEW d \in Conns, NEW x \in Msgs, In(x, Sent(q, c, m)[d])
               PROVE  In(x, q[d]) \/ (d = c /\ x = m)
    BY DEF AddsOnly, Adds
  <1>1. q[d] \in Seq(Msgs)
    BY DEF QueueType, QueuesOf
  <1>2. Sent(q, c, m)[d] = q[d] \/ (d = c /\ Sent(q, c, m)[d] = Append(q[d], m))
    BY DEF Sent, QueueType, QueuesOf
  <1>3. In(x, Append(q[d], m)) => In(x, q[d]) \/ x = m
    BY <1>1, InAppend
  <1>4. QED
    BY <1>2, <1>3

\* Close adds the messages written before it and the ending.
LEMMA ClosedAdds ==
    ASSUME NEW q \in QueueType, NEW c \in Conns, NEW ms \in Seq(Msgs),
           NEW e \in Msgs, NEW S, e \in S, \A x \in Msgs : In(x, ms) => x \in S
    PROVE  AddsOnly(q, Closed(q, c, ms, e), c, S)
  <1> SUFFICES ASSUME NEW d \in Conns, NEW x \in Msgs,
                      In(x, Closed(q, c, ms, e)[d])
               PROVE  In(x, q[d]) \/ (d = c /\ x \in S)
    BY DEF AddsOnly, Adds
  <1>1. q[d] \in Seq(Msgs) /\ q[d] \o ms \in Seq(Msgs)
    BY DEF QueueType, QueuesOf
  <1>2. \/ Closed(q, c, ms, e)[d] = q[d]
        \/ d = c /\ Closed(q, c, ms, e)[d] = (q[d] \o ms) \o <<e>>
    BY DEF Closed, QueueType, QueuesOf
  <1>3. In(x, (q[d] \o ms) \o <<e>>) => In(x, q[d]) \/ In(x, ms) \/ x = e
    <2> DEFINE w == q[d] \o ms
    <2>1. In(x, w \o <<e>>) => In(x, w) \/ x = e
      <3> HIDE DEF w
      <3>1. w \in Seq(Msgs)
        BY <1>1 DEF w
      <3>2. w \o <<e>> = Append(w, e)
        BY <3>1
      <3>3. QED
        BY <3>1, <3>2, InAppend
    <2>2. In(x, w) => In(x, q[d]) \/ In(x, ms)
      BY <1>1, InConcat
    <2>3. QED
      BY <2>1, <2>2
  <1>4. QED
    BY <1>2, <1>3

-----------------------------------------------------------------------------
(* Effects of the operations the actions are built from.                   *)

\* TypeOK speaks of the queues by their type.
LEMMA TypedQueues == TypeOK => up \in QueueType /\ down \in QueueType
  BY DEF TypeOK, QueueType, QueuesOf, Msgs

LEMMA EndingsAreMsgs == Endings \subseteq Msgs /\ MsgTypes \subseteq Msgs
  BY DEF Msgs

\* Ending a connection changes neither the others nor one that never began.
LEMMA OverEffect ==
    ASSUME TypeOK, NEW c \in Conns, conn' = Over(c)
    PROVE  /\ conn' \in [Conns -> {"none", "open", "over"}]
           /\ \A d \in Conns : conn'[d] = "none" <=> conn[d] = "none"
  BY DEF TypeOK, Over

LEMMA ReceivesEffect ==
    ASSUME TypeOK, NEW c \in Conns, NEW m \in Msgs, Receives(c, m)
    PROVE  /\ down' \in QueueType
           /\ AddsOnly(down, down', c, {})
           /\ In(m, down[c])
  <1>1. down \in QueueType
    BY TypedQueues
  <1>2. down[c] # <<>> /\ Head(down[c]) = m /\ down' = [down EXCEPT ![c] = Tail(@)]
    BY DEF Receives
  <1>3. down' \in QueueType
    BY <1>1, <1>2, QueueTypes DEF QueueType, QueuesOf
  <1>4. QED
    BY <1>1, <1>2, <1>3, TailAdds DEF QueueType, AddsOnly

LEMMA ReplyEffect ==
    ASSUME TypeOK, NEW c \in Conns, NEW m \in MsgTypes,
           NEW done, Reply(c, m, done)
    PROVE  /\ up' \in QueueType
           /\ AddsOnly(up, up', c, {m})
           /\ clReader' \in [Conns -> ReaderStates]
           /\ clErrs' \in [Conns -> SUBSET {"reader", "sender"}]
           /\ clDone' = clDone \cup done \/ (clDone' = clDone /\ up' = up)
  <1>1. up \in QueueType /\ m \in Msgs
    BY TypedQueues, EndingsAreMsgs
  <1>2. up' = Sent(up, c, m)
    BY DEF Reply
  <1>3. up' \in QueueType
    BY <1>1, <1>2, QueueTypes DEF QueueType, QueuesOf
  <1>4. AddsOnly(up, up', c, {m})
    BY <1>1, <1>2, SentAdds
  <1>5. /\ clReader' \in [Conns -> ReaderStates]
        /\ clErrs' \in [Conns -> SUBSET {"reader", "sender"}]
    <2>1. CASE UNCHANGED <<clReader, clErrs>>
      BY <2>1 DEF TypeOK
    <2>2. CASE /\ clReader' = [clReader EXCEPT ![c] = "ret"]
               /\ clErrs' = [clErrs EXCEPT ![c] = @ \cup {"reader"}]
      BY <2>2 DEF TypeOK, ReaderStates
    <2>3. QED
      BY <2>1, <2>2 DEF Reply
  <1>6. clDone' = clDone \cup done \/ (clDone' = clDone /\ up' = up)
    BY DEF Reply, WriteResults, Sent
  <1>7. QED
    BY <1>3, <1>4, <1>5, <1>6

LEMMA ClientReturnsEffect ==
    ASSUME TypeOK, NEW c \in Conns, NEW res \in Returned, NEW e \in Endings,
           ClientReturns(c, res, e)
    PROVE  /\ client' = [client EXCEPT ![c] = res]
           /\ up' \in QueueType
           /\ AddsOnly(up, up', c, Endings)
           /\ conn' \in [Conns -> {"none", "open", "over"}]
           /\ \A d \in Conns : conn'[d] = "none" <=> conn[d] = "none"
  <1>1. up \in QueueType /\ e \in Msgs /\ <<>> \in Seq(Msgs)
    BY TypedQueues, EndingsAreMsgs
  <1>2. up' = Closed(up, c, <<>>, e) /\ conn' = Over(c)
        /\ client' = [client EXCEPT ![c] = res]
    BY DEF ClientReturns
  <1>3. up' \in QueueType
    BY <1>1, <1>2, QueueTypes DEF QueueType, QueuesOf
  <1>4. \A x \in Msgs : ~In(x, <<>>)
    BY DEF In
  <1>5. AddsOnly(up, up', c, Endings)
    BY <1>1, <1>2, <1>4, ClosedAdds
  <1>6. QED
    BY <1>2, <1>3, <1>5, OverEffect

LEMMA HandlerReturnsEffect ==
    ASSUME TypeOK, NEW c \in Conns, NEW e \in Endings,
           NEW ms \in {<<>>, <<"existingDeviceDone">>},
           HandlerReturns(c, ms, e)
    PROVE  /\ handler' = [handler EXCEPT ![c] = "ret"]
           /\ down' \in QueueType
           /\ AddsOnly(down, down', c,
                       IF ms = <<>> THEN Endings
                       ELSE Endings \cup {"existingDeviceDone"})
           /\ conn' \in [Conns -> {"none", "open", "over"}]
           /\ \A d \in Conns : conn'[d] = "none" <=> conn[d] = "none"
  <1> DEFINE S == IF ms = <<>> THEN Endings
                  ELSE Endings \cup {"existingDeviceDone"}
  <1>1. down \in QueueType /\ e \in Msgs /\ ms \in Seq(Msgs)
    <2>1. "existingDeviceDone" \in Msgs
      BY EndingsAreMsgs, MsgTypesAre
    <2>2. <<"existingDeviceDone">> \in Seq(Msgs) /\ <<>> \in Seq(Msgs)
      BY <2>1
    <2>3. QED
      BY <2>2, TypedQueues, EndingsAreMsgs
  <1>2. /\ down' = Closed(down, c, ms, e) /\ conn' = Over(c)
        /\ handler' = [handler EXCEPT ![c] = "ret"]
    BY DEF HandlerReturns
  <1>3. down' \in QueueType
    BY <1>1, <1>2, QueueTypes DEF QueueType, QueuesOf
  <1>4. e \in S /\ \A x \in Msgs : In(x, ms) => x \in S
    <2>1. CASE ms = <<>>
      BY <2>1 DEF In
    <2>2. CASE ms = <<"existingDeviceDone">>
      <3>1. ms # <<>> /\ Len(ms) = 1 /\ ms[1] = "existingDeviceDone"
        BY <2>2
      <3>2. \A x \in Msgs : In(x, ms) => x = "existingDeviceDone"
        BY <3>1 DEF In
      <3>3. QED
        BY <3>1, <3>2
    <2>3. QED
      BY <2>1, <2>2
  <1>5. AddsOnly(down, down', c, S)
    <2> HIDE DEF S
    <2>1. QED
      BY <1>1, <1>2, <1>4, ClosedAdds
  <1>6. QED
    BY <1>2, <1>3, <1>5, OverEffect

LEMMA HandlerRepliesEffect ==
    ASSUME TypeOK, NEW c \in Conns, NEW m \in MsgTypes, HandlerReplies(c, m)
    PROVE  /\ down' \in QueueType
           /\ AddsOnly(down, down', c, {m})
           /\ \/ hdReader' = [hdReader EXCEPT ![c] = "read"]
              \/ hdReader' = [hdReader EXCEPT ![c] = "ret"]
           /\ hdErrs' \in [Conns -> SUBSET {"reader", "sender"}]
  <1>1. down \in QueueType /\ m \in Msgs
    BY TypedQueues, EndingsAreMsgs
  <1>2. down' = Sent(down, c, m)
    BY DEF HandlerReplies
  <1>3. down' \in QueueType
    BY <1>1, <1>2, QueueTypes DEF QueueType, QueuesOf
  <1>4. AddsOnly(down, down', c, {m})
    BY <1>1, <1>2, SentAdds
  <1>5. /\ \/ hdReader' = [hdReader EXCEPT ![c] = "read"]
           \/ hdReader' = [hdReader EXCEPT ![c] = "ret"]
        /\ hdErrs' \in [Conns -> SUBSET {"reader", "sender"}]
    <2>1. CASE hdReader' = [hdReader EXCEPT ![c] = "read"] /\ UNCHANGED hdErrs
      BY <2>1 DEF TypeOK
    <2>2. CASE /\ hdReader' = [hdReader EXCEPT ![c] = "ret"]
               /\ hdErrs' = [hdErrs EXCEPT ![c] = @ \cup {"reader"}]
      BY <2>2 DEF TypeOK
    <2>3. QED
      BY <2>1, <2>2 DEF HandlerReplies
  <1>6. QED
    BY <1>3, <1>4, <1>5

\* A main that writes m and goes to state st, or fails to.
LEMMA HandlerWriteEffect ==
    ASSUME TypeOK, NEW c \in Conns, NEW m \in MsgTypes, NEW st \in HandlerStates,
           \E ok \in WriteResults(c) :
              IF ok THEN /\ handler' = [handler EXCEPT ![c] = st]
                         /\ down' = Sent(down, c, m)
                         /\ UNCHANGED conn
                    ELSE HandlerWriteFails(c)
    PROVE  /\ \/ handler' = [handler EXCEPT ![c] = st]
              \/ handler' = [handler EXCEPT ![c] = "ret"]
              \/ handler' = [handler EXCEPT ![c] = "stuck"]
           /\ down' \in QueueType
           /\ AddsOnly(down, down', c, {m} \cup Endings)
           /\ conn' \in [Conns -> {"none", "open", "over"}]
           /\ \A d \in Conns : conn'[d] = "none" <=> conn[d] = "none"
  <1>1. down \in QueueType /\ m \in Msgs
    BY TypedQueues, EndingsAreMsgs
  <1>2. CASE /\ handler' = [handler EXCEPT ![c] = st]
             /\ down' = Sent(down, c, m)
             /\ UNCHANGED conn
    <2>1. down' \in QueueType
      BY <1>1, <1>2, QueueTypes DEF QueueType, QueuesOf
    <2>2. AddsOnly(down, down', c, {m})
      BY <1>1, <1>2, SentAdds
    <2>3. QED
      BY <1>2, <2>1, <2>2 DEF AddsOnly, Adds, TypeOK
  <1>3. CASE HandlerReturns(c, <<>>, "broken")
    BY <1>3, HandlerReturnsEffect DEF AddsOnly, Adds, Endings
  <1>4. CASE handler' = [handler EXCEPT ![c] = "stuck"] /\ UNCHANGED <<down, conn>>
    BY <1>1, <1>4 DEF AddsOnly, Adds, TypeOK
  <1>5. QED
    BY <1>2, <1>3, <1>4 DEF HandlerWriteFails
\* A write, in either direction.
LEMMA SentEffect ==
    ASSUME TypeOK, NEW c \in Conns, NEW m \in MsgTypes
    PROVE  /\ Sent(up, c, m) \in QueueType
           /\ AddsOnly(up, Sent(up, c, m), c, {m})
  BY TypedQueues, EndingsAreMsgs, QueueTypes, SentAdds DEF QueueType, QueuesOf

\* A main that goes on without touching its connection.
LEMMA HandlerKeepsEffect ==
    ASSUME TypeOK, NEW c \in Conns, UNCHANGED <<down, conn>>
    PROVE  /\ down' \in QueueType
           /\ \A S : AddsOnly(down, down', c, S)
           /\ conn' \in [Conns -> {"none", "open", "over"}]
           /\ \A d \in Conns : conn'[d] = "none" <=> conn[d] = "none"
  BY TypedQueues DEF AddsOnly, Adds, TypeOK

\* A handler's reader takes a message that was in flight.
LEMMA HandlerReadsEffect ==
    ASSUME TypeOK, NEW c \in Conns, HandlerReads(c)
    PROVE  /\ up' \in QueueType
           /\ AddsOnly(up, up', c, {})
           /\ \E m \in Msgs : In(m, up[c])
           /\ \E st \in {"read", "ret"} \cup MsgTypes :
                 /\ hdReader' = [hdReader EXCEPT ![c] = st]
                 /\ st \in MsgTypes => In(st, up[c])
           /\ hdErrs' \in [Conns -> SUBSET {"reader", "sender"}]
  <1> DEFINE m == Head(up[c])
  <1>1. up \in QueueType /\ up[c] # <<>> /\ up' = [up EXCEPT ![c] = Tail(@)]
    BY TypedQueues DEF HandlerReads
  <1>2. up' \in QueueType
    BY <1>1, QueueTypes, EndingsAreMsgs, MsgTypesAre DEF QueueType, QueuesOf
  <1>3. AddsOnly(up, up', c, {}) /\ In(m, up[c]) /\ m \in Msgs
    BY <1>1, TailAdds DEF QueueType, AddsOnly
  <1>4. \E st \in {"read", "ret"} \cup MsgTypes :
           /\ hdReader' = [hdReader EXCEPT ![c] = st]
           /\ st \in MsgTypes => In(st, up[c])
    <2>1. CASE m \in Endings
      <3>1. hdReader' = [hdReader EXCEPT ![c] = "ret"]
        BY <2>1 DEF HandlerReads
      <3>2. "ret" \notin MsgTypes
        BY MsgTypesAre
      <3>3. QED
        BY <3>1, <3>2
    <2>2. CASE m \notin Endings /\ Stage(c) > MsgStage[m]
      BY <2>2, MsgTypesAre DEF HandlerReads
    <2>3. CASE m \notin Endings /\ ~(Stage(c) > MsgStage[m])
      BY <2>3, <1>3 DEF HandlerReads, Msgs
    <2>4. QED
      BY <2>1, <2>2, <2>3
  <1>5. hdErrs' \in [Conns -> SUBSET {"reader", "sender"}]
    BY DEF HandlerReads, TypeOK
  <1>6. QED
    BY <1>2, <1>3, <1>4, <1>5

\* A broken connection loses messages in both directions.
LEMMA DropEffect ==
    ASSUME TypeOK, NEW c \in Conns, Drop(c)
    PROVE  /\ up' \in QueueType /\ AddsOnly(up, up', c, {"broken"})
           /\ down' \in QueueType /\ AddsOnly(down, down', c, {"broken"})
  <1>1. up \in QueueType /\ down \in QueueType
    BY TypedQueues
  <1>2. PICK i \in 0..Len(up[c]), j \in 0..Len(down[c]) :
           /\ up'   = [up   EXCEPT ![c] = Append(SubSeq(@, 1, i), "broken")]
           /\ down' = [down EXCEPT ![c] = Append(SubSeq(@, 1, j), "broken")]
    BY DEF Drop
  <1>3. up' \in QueueType /\ down' \in QueueType
    BY <1>1, <1>2, CutTypes DEF QueueType, QueuesOf
  <1>4. QED
    BY <1>1, <1>2, <1>3, CutAdds, EndingsAreMsgs
       DEF QueueType, AddsOnly, Endings

\* The messages the invariant speaks of.
LEMMA InvariantMsgs ==
    /\ "peer" \in Msgs /\ "metadata" \in Msgs /\ "newDeviceDone" \in Msgs
    /\ "existingDeviceDone" \in Msgs
  BY MsgTypesAre, EndingsAreMsgs

\* The connections are those of the two kinds of calls.
LEMMA ConnsSplit ==
    /\ \A r \in Regs : r \in Conns /\ r \notin Accs
    /\ \A a \in Accs : a \in Conns /\ a \notin Regs
    /\ \A c \in Conns : c \in Regs \/ c \in Accs
  BY ConstantsAssumption DEF Conns

\* The types of the control state and of the state of the sessions.
LEMMA StateTypes ==
    IInv => /\ \A r \in Regs : r \in Conns /\ r \notin Accs
            /\ \A a \in Accs : a \in Conns /\ a \notin Regs
            /\ \A c \in Conns : c \in Regs \/ c \in Accs
            /\ client \in [Conns -> ClientStates]
            /\ handler \in [Conns -> HandlerStates]
            /\ hdReader \in [Conns -> ReaderStates \cup MsgTypes \cup Waits]
            /\ conn \in [Conns -> {"none", "open", "over"}]
            /\ tss \in [Conns -> TssStates]
            /\ session \in [Accs -> Regs \cup {None}]
            /\ newId \in [Accs -> Regs \cup {None}]
            /\ device \in [Accs -> Devices \cup {None}]
            /\ chan \in [Regs -> SUBSET Chans]
            /\ offered \in [Regs -> Devices \cup {None}]
            /\ existing \in [Regs -> Devices \cup {None}]
            /\ adder \in [Regs -> TssStates]
            /\ published \in Regs \cup {None}
            /\ bks \in SUBSET Devices
  BY ConnsSplit DEF IInv, TypeOK

-----------------------------------------------------------------------------
(* Every step keeps the invariant.                                         *)

\* The application calls RegisterDevice.
LEMMA RegisterDeviceKeeps ==
    ASSUME IInv, NEW r \in Regs,
           RegisterDevice(r)
    PROVE  IInv'
  <1> USE DEF IInv, clVars, hdVars, netVars, pairVars, tssVars, dbVars
  <1>0. r \in Conns
    BY DEF Conns
  <1>1. CASE RegisterDevice(r)
    <2>1. NewIdInv'
      BY <1>1 DEF NewIdInv, RegisterDevice
    <2>2. TypeOK'
      BY <1>0, <1>1 DEF TypeOK, RegisterDevice, ClientStates
    <2>3. FreshInv'
      BY <1>0, <1>1, StateTypes DEF FreshInv, RegisterDevice, AddsOnly, Adds
    <2>4. PairInv'
      BY <1>0, <1>1, StateTypes DEF PairInv, RegisterDevice
    <2>5. TssInv'
      BY <1>0, <1>1, StateTypes DEF TssInv, RegisterDevice
    <2>6. ChainInv'
      BY <1>0, <1>1, StateTypes DEF ChainInv, RegisterDevice, AddsOnly, Adds,
         Confirmed
    <2>7. QED
      BY <2>1, <2>2, <2>3, <2>4, <2>5, <2>6
  <1>2. QED
    BY <1>1

\* The application calls AcceptDevice.
LEMMA AcceptDeviceKeeps ==
    ASSUME IInv, NEW a \in Accs, NEW d \in Devices,
           AcceptDevice(a, d)
    PROVE  IInv'
  <1> USE DEF IInv, clVars, hdVars, netVars, pairVars, tssVars, dbVars
  <1>0. a \in Conns
    BY DEF Conns
  <1>1. CASE AcceptDevice(a, d)
    <2>1. NewIdInv'
      BY <1>1 DEF NewIdInv, AcceptDevice
    <2>2. TypeOK'
      BY <1>0, <1>1 DEF TypeOK, AcceptDevice, ClientStates
    <2>3. FreshInv'
      BY <1>0, <1>1, StateTypes DEF FreshInv, AcceptDevice, AddsOnly, Adds
    <2>4. PairInv'
      BY <1>0, <1>1, StateTypes DEF PairInv, AcceptDevice
    <2>5. TssInv'
      BY <1>0, <1>1, StateTypes DEF TssInv, AcceptDevice
    <2>6. ChainInv'
      BY <1>0, <1>1, StateTypes DEF ChainInv, AcceptDevice, AddsOnly, Adds,
         Confirmed
    <2>7. QED
      BY <2>1, <2>2, <2>3, <2>4, <2>5, <2>6
  <1>2. QED
    BY <1>1

\* The steps both clients take.
LEMMA ClientStepsKeep ==
    ASSUME IInv, NEW c \in Conns,
           \/ SendPeerId(c)
           \/ ClientPeer(c)
           \/ ClientStart(c)
           \/ ClientReadEnds(c)
           \/ ClientTssFailed(c)
           \/ ClientErrors(c)
           \/ ClientServerDone(c)
    PROVE  IInv'
  <1> USE DEF IInv, clVars, hdVars, netVars, pairVars, tssVars, dbVars
  <1>1. CASE SendPeerId(c)
    <2>1. /\ up' \in QueueType /\ AddsOnly(up, up', c, {"peer"})
      BY <1>1, SentEffect, MsgTypesAre DEF SendPeerId
    <2>2. \/ /\ client' = [client EXCEPT ![c] = "wait"]
             /\ clReader' = [clReader EXCEPT ![c] = "read"]
          \/ client' = [client EXCEPT ![c] = "err"] /\ UNCHANGED clReader
      BY <1>1 DEF SendPeerId
    <2>3. /\ client[c] = "dial" /\ conn[c] # "none"
          /\ UNCHANGED <<clErrs, clDone, hdVars, conn, down, pairVars, tssVars,
                         dbVars, faults>>
      BY <1>1 DEF SendPeerId
    <2>4. TypeOK'
      BY <2>1, <2>2, <2>3 DEF TypeOK, ClientStates, ReaderStates, QueueType, QueuesOf,
         Msgs
    <2>5. FreshInv'
      BY <2>1, <2>2, <2>3, StateTypes, InvariantMsgs DEF FreshInv, AddsOnly, Adds,
         Endings
    <2>6. PairInv'
      BY <2>1, <2>2, <2>3, StateTypes DEF PairInv
    <2>7. NewIdInv'
      BY <2>1, <2>2, <2>3, StateTypes, InvariantMsgs DEF NewIdInv, AddsOnly, Adds,
         Endings
    <2>8. TssInv'
      BY <2>1, <2>2, <2>3, StateTypes DEF TssInv
    <2>9. ChainInv'
      BY <2>1, <2>2, <2>3, StateTypes, InvariantMsgs DEF ChainInv, AddsOnly, Adds,
         Confirmed, Endings
    <2>10. QED
      BY <2>4, <2>5, <2>6, <2>7, <2>8, <2>9
  <1>2. CASE ClientPeer(c)
    <2>1. /\ down' \in QueueType /\ AddsOnly(down, down', c, {})
          /\ In("peer", down[c])
      BY <1>2, ReceivesEffect, EndingsAreMsgs, MsgTypesAre DEF ClientPeer
    <2>2. /\ up' \in QueueType /\ AddsOnly(up, up', c, {IF c \in Regs THEN "device" ELSE "metadata"})
          /\ clReader' \in [Conns -> ReaderStates]
          /\ clErrs' \in [Conns -> SUBSET {"reader", "sender"}]
          /\ clDone' = clDone \cup {} \/ (clDone' = clDone /\ up' = up)
      BY <1>2, ReplyEffect, MsgTypesAre, ConnsSplit DEF ClientPeer
    <2>3. PairInv' /\ TssInv'
      BY <1>2 DEF PairInv, TssInv, ClientPeer
    <2>4. TypeOK'
      BY <1>2, <2>1, <2>2 DEF TypeOK, ClientPeer, Receives, ReaderStates,
         QueueType, QueuesOf, Msgs
    <2>5. FreshInv'
      BY <1>2, <2>1, <2>2, StateTypes, InvariantMsgs DEF FreshInv,
         ClientPeer, Receives, AddsOnly, Adds, Endings
    <2>6. NewIdInv'
      BY <1>2, <2>1, <2>2, StateTypes, InvariantMsgs DEF NewIdInv,
         ClientPeer, Receives, AddsOnly, Adds, Endings
    <2>7. ChainInv'
      BY <1>2, <2>1, <2>2, StateTypes, InvariantMsgs DEF ChainInv,
         ClientPeer, Receives, AddsOnly, Adds, Confirmed, Endings
    <2>8. QED
      BY <2>3, <2>4, <2>5, <2>6, <2>7
  <1>3. CASE ClientStart(c)
    <2>1. /\ down' \in QueueType /\ AddsOnly(down, down', c, {})
          /\ In(IF c \in Regs THEN "pubkey" ELSE "metadataAck", down[c])
      BY <1>3, ReceivesEffect, EndingsAreMsgs, MsgTypesAre DEF ClientStart, StartMessage
    <2>2. TypeOK'
      BY <1>3, <2>1 DEF TypeOK, ClientStart, StartMessage, Receives, ClientStates,
         TssStates, QueueType, QueuesOf, Msgs
    <2>3. FreshInv'
      BY <1>3, <2>1, StateTypes, InvariantMsgs DEF FreshInv, ClientStart, StartMessage,
         Receives, AddsOnly, Adds, Endings
    <2>4. PairInv'
      BY <1>3, <2>1, StateTypes DEF PairInv, ClientStart, StartMessage, Receives
    <2>5. NewIdInv'
      BY <1>3, <2>1, StateTypes, InvariantMsgs DEF NewIdInv, ClientStart, StartMessage,
         Receives, AddsOnly, Adds, Endings
    <2>6. TssInv'
      BY <1>3, <2>1, StateTypes DEF TssInv, ClientStart, StartMessage, Receives
    <2>7. ChainInv'
      BY <1>3, <2>1, StateTypes, InvariantMsgs DEF ChainInv, ClientStart, StartMessage,
         Receives, AddsOnly, Adds, Confirmed, Endings
    <2>8. QED
      BY <2>2, <2>3, <2>4, <2>5, <2>6, <2>7
  <1>4. CASE ClientReadEnds(c)
    <2>1. /\ down' \in QueueType /\ AddsOnly(down, down', c, {})
          /\ \E m \in Msgs : In(m, down[c])
      BY <1>4, ReceivesEffect, EndingsAreMsgs DEF ClientReadEnds
    <2>2. clErrs' \in [Conns -> SUBSET {"reader", "sender"}]
      BY <1>4 DEF ClientReadEnds, TypeOK
    <2>3. PairInv' /\ TssInv'
      BY <1>4 DEF PairInv, TssInv, ClientReadEnds
    <2>4. TypeOK'
      BY <1>4, <2>1, <2>2 DEF TypeOK, ClientReadEnds, Receives, ReaderStates,
         QueueType, QueuesOf, Msgs
    <2>5. FreshInv'
      BY <1>4, <2>1, <2>2, StateTypes, InvariantMsgs DEF FreshInv,
         ClientReadEnds, Receives, AddsOnly, Adds, Endings
    <2>6. NewIdInv'
      BY <1>4, <2>1, <2>2, StateTypes, InvariantMsgs DEF NewIdInv,
         ClientReadEnds, Receives, AddsOnly, Adds, Endings
    <2>7. ChainInv'
      BY <1>4, <2>1, <2>2, StateTypes, InvariantMsgs DEF ChainInv,
         ClientReadEnds, Receives, AddsOnly, Adds, Confirmed, Endings
    <2>8. QED
      BY <2>3, <2>4, <2>5, <2>6, <2>7
  <1>5. CASE ClientTssFailed(c)
    <2>1. /\ \/ client' = [client EXCEPT ![c] = "stuck"]
             \/ client' = [client EXCEPT ![c] = "nil"]
          /\ up' \in QueueType /\ AddsOnly(up, up', c, Endings)
          /\ conn' \in [Conns -> {"none", "open", "over"}]
          /\ \A d \in Conns : conn'[d] = "none" <=> conn[d] = "none"
      BY <1>5, ClientReturnsEffect, TypedQueues DEF ClientTssFailed, TypeOK,
         Returned, Endings, AddsOnly, Adds
    <2>2. /\ client[c] = "tss"
          /\ UNCHANGED <<clReader, clErrs, clDone, hdVars, down, pairVars, tssVars,
                         dbVars, faults>>
      BY <1>5 DEF ClientTssFailed
    <2>3. TypeOK'
      BY <2>1, <2>2 DEF TypeOK, ClientStates, QueueType, QueuesOf, Msgs
    <2>4. FreshInv'
      BY <2>1, <2>2, StateTypes, InvariantMsgs DEF FreshInv, AddsOnly, Adds,
         Endings
    <2>5. PairInv'
      BY <2>1, <2>2, StateTypes DEF PairInv
    <2>6. NewIdInv'
      BY <2>1, <2>2, StateTypes, InvariantMsgs DEF NewIdInv, AddsOnly, Adds,
         Endings
    <2>7. TssInv'
      BY <2>1, <2>2, StateTypes DEF TssInv
    <2>8. ChainInv'
      BY <2>1, <2>2, StateTypes, InvariantMsgs DEF ChainInv, AddsOnly, Adds,
         Confirmed, Endings
    <2>9. QED
      BY <2>3, <2>4, <2>5, <2>6, <2>7, <2>8
  <1>6. CASE ClientErrors(c)
    <2>1. /\ client' = [client EXCEPT ![c] = "err"]
          /\ up' \in QueueType /\ AddsOnly(up, up', c, Endings)
          /\ conn' \in [Conns -> {"none", "open", "over"}]
          /\ \A d \in Conns : conn'[d] = "none" <=> conn[d] = "none"
      BY <1>6, ClientReturnsEffect DEF ClientErrors, Returned, Endings,
         FinalClose
    <2>2. TypeOK'
      BY <1>6, <2>1 DEF TypeOK, ClientErrors, ClientStates, QueueType, QueuesOf, Msgs
    <2>3. FreshInv'
      BY <1>6, <2>1, StateTypes, InvariantMsgs DEF FreshInv, ClientErrors,
         AddsOnly, Adds, Endings
    <2>4. PairInv'
      BY <1>6, <2>1, StateTypes DEF PairInv, ClientErrors
    <2>5. NewIdInv'
      BY <1>6, <2>1, StateTypes, InvariantMsgs DEF NewIdInv, ClientErrors,
         AddsOnly, Adds, Endings
    <2>6. TssInv'
      BY <1>6, <2>1, StateTypes DEF TssInv, ClientErrors
    <2>7. ChainInv'
      BY <1>6, <2>1, StateTypes, InvariantMsgs DEF ChainInv, ClientErrors,
         AddsOnly, Adds, Confirmed, Endings
    <2>8. QED
      BY <2>2, <2>3, <2>4, <2>5, <2>6, <2>7
  <1>7. CASE ClientServerDone(c)
    <2>1. /\ client' = [client EXCEPT ![c] = "ok"]
          /\ up' \in QueueType /\ AddsOnly(up, up', c, Endings)
          /\ conn' \in [Conns -> {"none", "open", "over"}]
          /\ \A d \in Conns : conn'[d] = "none" <=> conn[d] = "none"
      BY <1>7, ClientReturnsEffect DEF ClientServerDone, Returned, Endings,
         FinalClose
    <2>2. TypeOK'
      BY <1>7, <2>1 DEF TypeOK, ClientServerDone, ClientStates, QueueType, QueuesOf,
         Msgs
    <2>3. FreshInv'
      BY <1>7, <2>1, StateTypes, InvariantMsgs DEF FreshInv,
         ClientServerDone, AddsOnly, Adds, Endings
    <2>4. PairInv'
      BY <1>7, <2>1, StateTypes DEF PairInv, ClientServerDone
    <2>5. NewIdInv'
      BY <1>7, <2>1, StateTypes, InvariantMsgs DEF NewIdInv,
         ClientServerDone, AddsOnly, Adds, Endings
    <2>6. TssInv'
      BY <1>7, <2>1, StateTypes DEF TssInv, ClientServerDone
    <2>7. ChainInv'
      BY <1>7, <2>1, StateTypes, InvariantMsgs DEF ChainInv,
         ClientServerDone, AddsOnly, Adds, Confirmed, Endings
    <2>8. QED
      BY <2>2, <2>3, <2>4, <2>5, <2>6, <2>7
  <1>8. QED
    BY <1>1, <1>2, <1>3, <1>4, <1>5, <1>6, <1>7

\* The steps of the RegisterDevice call only.
LEMMA RegisterStepsKeep ==
    ASSUME IInv, NEW r \in Regs,
           \/ ClientMetadata(r)
           \/ ClientExistingDeviceDone(r)
           \/ RegisterTssDone(r)
    PROVE  IInv'
  <1> USE DEF IInv, clVars, hdVars, netVars, pairVars, tssVars, dbVars
  <1>0. r \in Conns
    BY DEF Conns
  <1>1. CASE ClientMetadata(r)
    <2>1. /\ down' \in QueueType /\ AddsOnly(down, down', r, {})
          /\ In("metadata", down[r])
      BY <1>0, <1>1, ReceivesEffect, EndingsAreMsgs, MsgTypesAre DEF
         ClientMetadata
    <2>2. /\ up' \in QueueType /\ AddsOnly(up, up', r, {"storedClient"})
          /\ clReader' \in [Conns -> ReaderStates]
          /\ clErrs' \in [Conns -> SUBSET {"reader", "sender"}]
          /\ clDone' = clDone \cup {} \/ (clDone' = clDone /\ up' = up)
      BY <1>0, <1>1, ReplyEffect, MsgTypesAre, ConnsSplit DEF ClientMetadata
    <2>3. PairInv' /\ TssInv'
      BY <1>1 DEF PairInv, TssInv, ClientMetadata
    <2>4. TypeOK'
      BY <1>0, <1>1, <2>1, <2>2 DEF TypeOK, ClientMetadata, Receives,
         ReaderStates, QueueType, QueuesOf, Msgs
    <2>5. FreshInv'
      BY <1>0, <1>1, <2>1, <2>2, StateTypes, InvariantMsgs DEF FreshInv,
         ClientMetadata, Receives, AddsOnly, Adds, Endings
    <2>6. NewIdInv'
      BY <1>0, <1>1, <2>1, <2>2, StateTypes, InvariantMsgs DEF NewIdInv,
         ClientMetadata, Receives, AddsOnly, Adds, Endings
    <2>7. ChainInv'
      BY <1>0, <1>1, <2>1, <2>2, StateTypes, InvariantMsgs DEF ChainInv,
         ClientMetadata, Receives, AddsOnly, Adds, Confirmed, Endings
    <2>8. QED
      BY <2>3, <2>4, <2>5, <2>6, <2>7
  <1>2. CASE ClientExistingDeviceDone(r)
    <2>1. /\ down' \in QueueType /\ AddsOnly(down, down', r, {})
          /\ In("existingDeviceDone", down[r])
      BY <1>0, <1>2, ReceivesEffect, EndingsAreMsgs, MsgTypesAre DEF
         ClientExistingDeviceDone
    <2>2. PairInv' /\ TssInv'
      BY <1>2 DEF PairInv, TssInv, ClientExistingDeviceDone
    <2>3. TypeOK'
      BY <1>0, <1>2, <2>1 DEF TypeOK, ClientExistingDeviceDone, Receives,
         QueueType, QueuesOf, Msgs
    <2>4. FreshInv'
      BY <1>0, <1>2, <2>1, StateTypes, InvariantMsgs DEF FreshInv,
         ClientExistingDeviceDone, Receives, AddsOnly, Adds, Endings
    <2>5. NewIdInv'
      BY <1>0, <1>2, <2>1, StateTypes, InvariantMsgs DEF NewIdInv,
         ClientExistingDeviceDone, Receives, AddsOnly, Adds, Endings
    <2>6. ChainInv'
      BY <1>0, <1>2, <2>1, ConstantsAssumption, StateTypes, InvariantMsgs DEF
         ChainInv, ClientExistingDeviceDone, Receives, AddsOnly, Confirmed,
         Endings
    <2>7. QED
      BY <2>2, <2>3, <2>4, <2>5, <2>6
  <1>3. CASE RegisterTssDone(r)
    <2>1. NewIdInv'
      BY <1>3 DEF NewIdInv, RegisterTssDone
    <2>2. TypeOK'
      BY <1>0, <1>3 DEF TypeOK, RegisterTssDone, ClientStates
    <2>3. FreshInv'
      BY <1>0, <1>3, StateTypes DEF FreshInv, RegisterTssDone, AddsOnly, Adds
    <2>4. PairInv'
      BY <1>0, <1>3, StateTypes DEF PairInv, RegisterTssDone
    <2>5. TssInv'
      BY <1>0, <1>3, StateTypes DEF TssInv, RegisterTssDone
    <2>6. ChainInv'
      BY <1>0, <1>3, StateTypes DEF ChainInv, RegisterTssDone, AddsOnly, Adds,
         Confirmed
    <2>7. QED
      BY <2>1, <2>2, <2>3, <2>4, <2>5, <2>6
  <1>4. QED
    BY <1>1, <1>2, <1>3

\* The steps of the AcceptDevice call only.
LEMMA AcceptStepsKeep ==
    ASSUME IInv, NEW a \in Accs,
           \/ ClientNewDeviceDone(a)
           \/ AcceptTssDone(a)
    PROVE  IInv'
  <1> USE DEF IInv, clVars, hdVars, netVars, pairVars, tssVars, dbVars
  <1>0. a \in Conns
    BY DEF Conns
  <1>1. CASE ClientNewDeviceDone(a)
    <2>1. /\ down' \in QueueType /\ AddsOnly(down, down', a, {})
          /\ In("newDeviceDone", down[a])
      BY <1>0, <1>1, ReceivesEffect, EndingsAreMsgs, MsgTypesAre DEF
         ClientNewDeviceDone
    <2>2. a \in Conns /\ {a} \in SUBSET Conns
      BY DEF Conns
    <2>3. /\ up' \in QueueType /\ AddsOnly(up, up', a, {"existingDeviceDone"})
          /\ clReader' \in [Conns -> ReaderStates]
          /\ clErrs' \in [Conns -> SUBSET {"reader", "sender"}]
          /\ clDone' = clDone \cup {a} \/ (clDone' = clDone /\ up' = up)
      BY <1>0, <1>1, <2>1, <2>2, ReplyEffect, MsgTypesAre DEF
         ClientNewDeviceDone
    <2>4. PairInv' /\ TssInv'
      BY <1>1 DEF PairInv, TssInv, ClientNewDeviceDone
    <2>5. TypeOK'
      BY <1>0, <1>1, <2>1, <2>2, <2>3 DEF TypeOK, ClientNewDeviceDone,
         Receives, ReaderStates, QueueType, QueuesOf, Msgs
    <2>6. FreshInv'
      BY <1>0, <1>1, <2>1, <2>2, <2>3, StateTypes, InvariantMsgs DEF
         FreshInv, ClientNewDeviceDone, Receives, AddsOnly, Adds, Endings
    <2>7. NewIdInv'
      BY <1>0, <1>1, <2>1, <2>2, <2>3, StateTypes, InvariantMsgs DEF
         NewIdInv, ClientNewDeviceDone, Receives, AddsOnly, Adds, Endings
    <2>8. ChainInv'
      BY <1>0, <1>1, <2>1, <2>2, <2>3, ConstantsAssumption, StateTypes,
         InvariantMsgs DEF ChainInv, ClientNewDeviceDone, Receives, AddsOnly, Adds,
         Confirmed, Endings
    <2>9. QED
      BY <2>4, <2>5, <2>6, <2>7, <2>8
  <1>2. CASE AcceptTssDone(a)
    <2>1. /\ up' \in QueueType /\ AddsOnly(up, up', a, {"tssDone"})
      BY <1>0, <1>2, SentEffect, MsgTypesAre DEF AcceptTssDone
    <2>2. TypeOK'
      BY <1>0, <1>2, <2>1 DEF TypeOK, AcceptTssDone, ClientStates, QueueType, QueuesOf,
         Msgs
    <2>3. FreshInv'
      BY <1>0, <1>2, <2>1, StateTypes, InvariantMsgs DEF FreshInv,
         AcceptTssDone, AddsOnly, Adds, Endings
    <2>4. PairInv'
      BY <1>0, <1>2, <2>1, StateTypes DEF PairInv, AcceptTssDone
    <2>5. NewIdInv'
      BY <1>0, <1>2, <2>1, StateTypes, InvariantMsgs DEF NewIdInv,
         AcceptTssDone, AddsOnly, Adds, Endings
    <2>6. TssInv'
      BY <1>0, <1>2, <2>1, StateTypes DEF TssInv, AcceptTssDone
    <2>7. ChainInv'
      BY <1>0, <1>2, <2>1, StateTypes, InvariantMsgs DEF ChainInv,
         AcceptTssDone, AddsOnly, Adds, Confirmed, Endings
    <2>8. QED
      BY <2>2, <2>3, <2>4, <2>5, <2>6, <2>7
  <1>3. QED
    BY <1>1, <1>2

\* The reads of the handlers.
LEMMA HandlerReadsKeep ==
    ASSUME IInv, NEW c \in Conns,
           HandlerReads(c)
    PROVE  IInv'
  <1> USE DEF IInv, clVars, hdVars, netVars, pairVars, tssVars, dbVars
  <1>1. CASE HandlerReads(c)
    <2>1. /\ up' \in QueueType /\ AddsOnly(up, up', c, {})
          /\ \E m \in Msgs : In(m, up[c])
          /\ \E st \in {"read", "ret"} \cup MsgTypes :
                /\ hdReader' = [hdReader EXCEPT ![c] = st]
                /\ st \in MsgTypes => In(st, up[c])
          /\ hdErrs' \in [Conns -> SUBSET {"reader", "sender"}]
      BY <1>1, HandlerReadsEffect
    <2>2. TypeOK'
      BY <1>1, <2>1 DEF TypeOK, HandlerReads, ReaderStates, QueueType, QueuesOf, Msgs
    <2>3. FreshInv'
      BY <1>1, <2>1, StateTypes, InvariantMsgs DEF FreshInv, HandlerReads,
         AddsOnly, Adds, Endings
    <2>4. PairInv'
      BY <1>1, <2>1, StateTypes DEF PairInv, HandlerReads
    <2>5. NewIdInv'
      BY <1>1, <2>1, MsgTypesAre, StateTypes, InvariantMsgs DEF NewIdInv,
         HandlerReads, AddsOnly, Adds, Endings
    <2>6. TssInv'
      BY <1>1, <2>1, StateTypes DEF TssInv, HandlerReads
    <2>7. ChainInv'
      BY <1>1, <2>1, StateTypes, InvariantMsgs DEF ChainInv, HandlerReads,
         AddsOnly, Adds, Confirmed, Endings
    <2>8. QED
      BY <2>2, <2>3, <2>4, <2>5, <2>6, <2>7
  <1>2. QED
    BY <1>1

\* The steps of RegisterDeviceHandler.
LEMMA RegisterHandlerStepsKeep ==
    ASSUME IInv, NEW r \in Regs,
           \/ RegisterDeviceHandler(r)
           \/ PublishChannels(r)
           \/ RegisterPeerSend(r)
           \/ RegisterPeerReceive(r)
           \/ RegisterDeviceMessage(r)
           \/ RegisterStoredClient(r)
           \/ RegisterHandlerTssDone(r)
           \/ RegisterHandlerMetadata(r)
           \/ RegisterHandlerFinish(r)
    PROVE  IInv'
  <1> USE DEF IInv, clVars, hdVars, netVars, pairVars, tssVars, dbVars
  <1>0. r \in Conns
    BY DEF Conns
  <1>1. CASE RegisterDeviceHandler(r)
    <2>1. TypeOK'
      BY <1>0, <1>1 DEF TypeOK, RegisterDeviceHandler, HandlerStates
    <2>2. FreshInv'
      BY <1>0, <1>1, StateTypes DEF FreshInv, RegisterDeviceHandler, AddsOnly, Adds
    <2>3. PairInv'
      BY <1>0, <1>1, StateTypes DEF PairInv, RegisterDeviceHandler, FreshInv
    <2>4. NewIdInv'
      BY <1>0, <1>1, StateTypes DEF NewIdInv, RegisterDeviceHandler, AddsOnly, Adds
    <2>5. TssInv'
      BY <1>0, <1>1, StateTypes DEF TssInv, RegisterDeviceHandler, FreshInv
    <2>6. ChainInv'
      BY <1>0, <1>1, StateTypes DEF ChainInv, RegisterDeviceHandler,
         AddsOnly, Adds, Confirmed
    <2>7. QED
      BY <2>1, <2>2, <2>3, <2>4, <2>5, <2>6
  <1>2. CASE PublishChannels(r)
    <2>1. TypeOK'
      BY <1>0, <1>2 DEF TypeOK, PublishChannels, HandlerStates, ReaderStates
    <2>2. FreshInv'
      BY <1>0, <1>2, StateTypes DEF FreshInv, PublishChannels, AddsOnly, Adds
    <2>3. PairInv'
      BY <1>0, <1>2, StateTypes DEF PairInv, PublishChannels
    <2>4. NewIdInv'
      BY <1>0, <1>2, StateTypes DEF NewIdInv, PublishChannels, AddsOnly, Adds
    <2>5. TssInv'
      BY <1>0, <1>2, StateTypes DEF TssInv, PublishChannels, PairInv
    <2>6. ChainInv'
      BY <1>0, <1>2, StateTypes DEF ChainInv, PublishChannels, AddsOnly, Adds,
         Confirmed
    <2>7. QED
      BY <2>1, <2>2, <2>3, <2>4, <2>5, <2>6
  <1>3. CASE RegisterPeerSend(r)
    <2>1. TypeOK'
      BY <1>0, <1>3 DEF TypeOK, RegisterPeerSend, SendOn, ReaderStates,
         Waits, Chans
    <2>2. FreshInv'
      BY <1>0, <1>3, StateTypes DEF FreshInv, RegisterPeerSend, SendOn,
         AddsOnly, Adds
    <2>3. PairInv'
      BY <1>0, <1>3, StateTypes DEF PairInv, RegisterPeerSend, SendOn
    <2>4. NewIdInv'
      BY <1>0, <1>3, StateTypes DEF NewIdInv, RegisterPeerSend, SendOn,
         AddsOnly, Adds
    <2>5. TssInv'
      BY <1>0, <1>3, StateTypes DEF TssInv, RegisterPeerSend, SendOn
    <2>6. ChainInv'
      BY <1>0, <1>3, StateTypes DEF ChainInv, RegisterPeerSend, SendOn,
         AddsOnly, Adds, Confirmed
    <2>7. QED
      BY <2>1, <2>2, <2>3, <2>4, <2>5, <2>6
  <1>4. CASE RegisterPeerReceive(r)
    <2>1. /\ down' \in QueueType /\ AddsOnly(down, down', r, {"peer"})
          /\ \/ hdReader' = [hdReader EXCEPT ![r] = "read"]
             \/ hdReader' = [hdReader EXCEPT ![r] = "ret"]
          /\ hdErrs' \in [Conns -> SUBSET {"reader", "sender"}]
      BY <1>0, <1>4, HandlerRepliesEffect, MsgTypesAre DEF
         RegisterPeerReceive
    <2>2. TypeOK'
      <3>1. /\ chan' \in [Regs -> SUBSET Chans]
            /\ existing' \in [Regs -> Devices \cup {None}]
        BY <1>0, <1>4, StateTypes DEF RegisterPeerReceive, Chans
      <3>2. hdReader' \in [Conns -> ReaderStates \cup MsgTypes \cup Waits]
        BY <1>0, <2>1, StateTypes DEF ReaderStates
      <3>3. QED
        BY <1>4, <2>1, <3>1, <3>2
           DEF TypeOK, RegisterPeerReceive, QueueType, QueuesOf, Msgs
    <2>3. FreshInv'
      BY <1>0, <1>4, <2>1, StateTypes, InvariantMsgs DEF FreshInv,
         RegisterPeerReceive, AddsOnly, Adds, Endings
    <2>4. PairInv'
      BY <1>0, <1>4, <2>1, StateTypes DEF PairInv, RegisterPeerReceive
    <2>5. NewIdInv'
      BY <1>0, <1>4, <2>1, StateTypes, InvariantMsgs DEF NewIdInv,
         RegisterPeerReceive, AddsOnly, Adds, Endings
    <2>6. TssInv'
      BY <1>0, <1>4, <2>1, StateTypes DEF TssInv, RegisterPeerReceive,
         PairInv
    <2>7. ChainInv'
      BY <1>0, <1>4, <2>1, StateTypes, InvariantMsgs DEF ChainInv,
         RegisterPeerReceive, AddsOnly, Adds, Confirmed, Endings
    <2>8. QED
      BY <2>2, <2>3, <2>4, <2>5, <2>6, <2>7
  <1>5. CASE RegisterDeviceMessage(r)
    <2>1. /\ down' \in QueueType /\ AddsOnly(down, down', r, {"pubkey"})
          /\ \/ hdReader' = [hdReader EXCEPT ![r] = "read"]
             \/ hdReader' = [hdReader EXCEPT ![r] = "ret"]
          /\ hdErrs' \in [Conns -> SUBSET {"reader", "sender"}]
      BY <1>0, <1>5, HandlerRepliesEffect, MsgTypesAre DEF
         RegisterDeviceMessage
    <2>2. TypeOK'
      BY <1>0, <1>5, <2>1 DEF TypeOK, RegisterDeviceMessage, NewServerAdd,
         HandlerStates, ReaderStates, Chans, QueueType, QueuesOf, Msgs
    <2>3. FreshInv'
      BY <1>0, <1>5, <2>1, StateTypes, InvariantMsgs DEF FreshInv,
         RegisterDeviceMessage, NewServerAdd, AddsOnly, Adds, Endings
    <2>4. PairInv'
      BY <1>0, <1>5, <2>1, StateTypes DEF PairInv, RegisterDeviceMessage,
         NewServerAdd
    <2>5. NewIdInv'
      BY <1>0, <1>5, <2>1, StateTypes, InvariantMsgs DEF NewIdInv,
         RegisterDeviceMessage, NewServerAdd, AddsOnly, Adds, Endings
    <2>6. TssInv'
      BY <1>0, <1>5, <2>1, StateTypes DEF TssInv, RegisterDeviceMessage,
         NewServerAdd
    <2>7. ChainInv'
      BY <1>0, <1>5, <2>1, StateTypes, InvariantMsgs DEF ChainInv,
         RegisterDeviceMessage, NewServerAdd, AddsOnly, Adds, Confirmed, Endings
    <2>8. QED
      BY <2>2, <2>3, <2>4, <2>5, <2>6, <2>7
  <1>6. CASE RegisterStoredClient(r)
    <2>1. TypeOK'
      BY <1>0, <1>6 DEF TypeOK, RegisterStoredClient, SendOn, ReaderStates,
         Chans
    <2>2. FreshInv'
      BY <1>0, <1>6, StateTypes DEF FreshInv, RegisterStoredClient, SendOn,
         AddsOnly, Adds
    <2>3. PairInv'
      BY <1>0, <1>6, StateTypes DEF PairInv, RegisterStoredClient, SendOn
    <2>4. NewIdInv'
      BY <1>0, <1>6, StateTypes DEF NewIdInv, RegisterStoredClient, SendOn,
         AddsOnly, Adds
    <2>5. TssInv'
      BY <1>0, <1>6, StateTypes DEF TssInv, RegisterStoredClient, SendOn
    <2>6. ChainInv'
      BY <1>0, <1>6, StateTypes DEF ChainInv, RegisterStoredClient, SendOn,
         AddsOnly, Adds, Confirmed
    <2>7. QED
      BY <2>1, <2>2, <2>3, <2>4, <2>5, <2>6
  <1>7. CASE RegisterHandlerTssDone(r)
    <2>1. /\ \/ handler' = [handler EXCEPT ![r] = "tssDone"]
             \/ handler' = [handler EXCEPT ![r] = "ret"]
          /\ down' \in QueueType /\ AddsOnly(down, down', r, Endings)
          /\ conn' \in [Conns -> {"none", "open", "over"}]
          /\ \A d \in Conns : conn'[d] = "none" <=> conn[d] = "none"
      BY <1>0, <1>7, HandlerReturnsEffect, HandlerKeepsEffect DEF
         RegisterHandlerTssDone, Endings, FinalClose, HandlerWriteFails
    <2>2. TypeOK'
      BY <1>0, <1>7, <2>1 DEF TypeOK, RegisterHandlerTssDone, HandlerStates,
         QueueType, QueuesOf, Msgs
    <2>3. FreshInv'
      BY <1>0, <1>7, <2>1, StateTypes, InvariantMsgs DEF FreshInv,
         RegisterHandlerTssDone, AddsOnly, Adds, Endings
    <2>4. PairInv'
      BY <1>0, <1>7, <2>1, StateTypes DEF PairInv, RegisterHandlerTssDone
    <2>5. NewIdInv'
      BY <1>0, <1>7, <2>1, StateTypes, InvariantMsgs DEF NewIdInv,
         RegisterHandlerTssDone, AddsOnly, Adds, Endings
    <2>6. TssInv'
      BY <1>0, <1>7, <2>1, StateTypes DEF TssInv, RegisterHandlerTssDone
    <2>7. ChainInv'
      BY <1>0, <1>7, <2>1, StateTypes, InvariantMsgs DEF ChainInv,
         RegisterHandlerTssDone, AddsOnly, Adds, Confirmed, Endings
    <2>8. QED
      BY <2>2, <2>3, <2>4, <2>5, <2>6, <2>7
  <1>8. CASE RegisterHandlerMetadata(r)
    <2>1. /\ \/ handler' = [handler EXCEPT ![r] = "metadataSent"]
             \/ handler' = [handler EXCEPT ![r] = "ret"]
             \/ handler' = [handler EXCEPT ![r] = "stuck"]
          /\ down' \in QueueType /\ AddsOnly(down, down', r, {"metadata"} \cup Endings)
          /\ conn' \in [Conns -> {"none", "open", "over"}]
          /\ \A d \in Conns : conn'[d] = "none" <=> conn[d] = "none"
      BY <1>0, <1>8, HandlerWriteEffect, MsgTypesAre DEF
         RegisterHandlerMetadata, HandlerStates
    <2>2. TypeOK'
      BY <1>0, <1>8, <2>1 DEF TypeOK, RegisterHandlerMetadata, ReceiveOn,
         HandlerStates, QueueType, QueuesOf, Msgs
    <2>3. FreshInv'
      BY <1>0, <1>8, <2>1, StateTypes, InvariantMsgs DEF FreshInv,
         RegisterHandlerMetadata, ReceiveOn, AddsOnly, Adds, Endings
    <2>4. PairInv'
      BY <1>0, <1>8, <2>1, StateTypes DEF PairInv, RegisterHandlerMetadata,
         ReceiveOn
    <2>5. NewIdInv'
      BY <1>0, <1>8, <2>1, StateTypes, InvariantMsgs DEF NewIdInv,
         RegisterHandlerMetadata, ReceiveOn, AddsOnly, Adds, Endings
    <2>6. TssInv'
      BY <1>0, <1>8, <2>1, StateTypes DEF TssInv, RegisterHandlerMetadata,
         ReceiveOn
    <2>7. ChainInv'
      BY <1>0, <1>8, <2>1, StateTypes, InvariantMsgs DEF ChainInv,
         RegisterHandlerMetadata, ReceiveOn, AddsOnly, Adds, Confirmed, Endings
    <2>8. QED
      BY <2>2, <2>3, <2>4, <2>5, <2>6, <2>7
  <1>9. CASE RegisterHandlerFinish(r)
    <2>1. /\ \/ handler' = [handler EXCEPT ![r] = "ret"]
             \/ handler' = [handler EXCEPT ![r] = "stuck"]
          /\ down' \in QueueType /\ AddsOnly(down, down', r, Endings \cup {"existingDeviceDone"})
          /\ conn' \in [Conns -> {"none", "open", "over"}]
          /\ \A d \in Conns : conn'[d] = "none" <=> conn[d] = "none"
      <3>1. CASE \E e \in Endings : HandlerReturns(r, <<"existingDeviceDone">>, e)
        <4>1. PICK e \in Endings : HandlerReturns(r, <<"existingDeviceDone">>, e)
          BY <3>1
        <4>2. <<"existingDeviceDone">> # <<>>
          OBVIOUS
        <4>3. QED
          BY <1>0, <4>1, <4>2, HandlerReturnsEffect
      <3>2. CASE HandlerReturns(r, <<>>, "broken")
        BY <1>0, <3>2, HandlerReturnsEffect DEF Endings, AddsOnly, Adds
      <3>3. CASE /\ handler' = [handler EXCEPT ![r] = "stuck"]
                 /\ UNCHANGED <<down, conn>>
        BY <1>0, <3>3, HandlerKeepsEffect
      <3>4. QED
        BY <1>9, <3>1, <3>2, <3>3 DEF RegisterHandlerFinish, FinalClose, HandlerWriteFails
    <2>2. TypeOK'
      BY <1>0, <1>9, <2>1 DEF TypeOK, RegisterHandlerFinish, ReceiveOn,
         HandlerStates, QueueType, QueuesOf, Msgs
    <2>3. FreshInv'
      BY <1>0, <1>9, <2>1, StateTypes, InvariantMsgs DEF FreshInv,
         RegisterHandlerFinish, ReceiveOn, AddsOnly, Adds, Endings
    <2>4. PairInv'
      BY <1>0, <1>9, <2>1, StateTypes DEF PairInv, RegisterHandlerFinish,
         ReceiveOn
    <2>5. NewIdInv'
      BY <1>0, <1>9, <2>1, StateTypes, InvariantMsgs DEF NewIdInv,
         RegisterHandlerFinish, ReceiveOn, AddsOnly, Adds, Endings
    <2>6. TssInv'
      BY <1>0, <1>9, <2>1, StateTypes DEF TssInv, RegisterHandlerFinish,
         ReceiveOn
    <2>7. ChainInv'
      BY <1>0, <1>9, <2>1, StateTypes, InvariantMsgs DEF ChainInv,
         RegisterHandlerFinish, ReceiveOn, AddsOnly, Adds, Confirmed, Endings
    <2>8. QED
      BY <2>2, <2>3, <2>4, <2>5, <2>6, <2>7
  <1>10. QED
    BY <1>1, <1>2, <1>3, <1>4, <1>5, <1>6, <1>7, <1>8, <1>9

\* The steps of AcceptDeviceHandler: the one that stores the peer needs that
\* the peer id and the adder are those of its session.
LEMMA AcceptHandlerStepsKeep ==
    ASSUME IInv, NEW a \in Accs,
           \/ AcceptDeviceHandler(a)
           \/ AcceptPeerSend(a)
           \/ AcceptPeerReceive(a)
           \/ AcceptMetadataSend(a)
           \/ AcceptMetadataReceive(a)
           \/ AcceptTssDoneMessage(a)
           \/ AcceptExistingDeviceDone(a)
           \/ AcceptHandlerProcess(a)
           \/ AcceptHandlerAddPeer(a)
           \/ AcceptHandlerNewDeviceDone(a)
           \/ AcceptHandlerFinish(a)
    PROVE  IInv'
  <1> USE DEF IInv, clVars, hdVars, netVars, pairVars, tssVars, dbVars
  <1>0. a \in Conns
    BY DEF Conns
  <1>1. CASE AcceptDeviceHandler(a)
    <2>1. \/ /\ client' = [client EXCEPT ![a] = "err"]
             /\ UNCHANGED <<handler, hdReader, conn, session>>
          \/ /\ published \in Regs
             /\ session' = [session EXCEPT ![a] = published]
             /\ conn' = [conn EXCEPT ![a] = "open"]
             /\ handler' = [handler EXCEPT ![a] = "wait"]
             /\ hdReader' = [hdReader EXCEPT ![a] = "read"]
             /\ UNCHANGED client
      BY <1>0, <1>1, StateTypes DEF AcceptDeviceHandler,
         GetInterHandlersChannels
    <2>2. /\ client[a] = "dial" /\ conn[a] = "none"
          /\ UNCHANGED <<clReader, clErrs, clDone, hdErrs, hdDone, up, down,
                         published, chan, offered, existing, newId, device, tssVars,
                         dbVars, faults>>
      BY <1>1 DEF AcceptDeviceHandler, GetInterHandlersChannels
    <2>3. TypeOK'
      <3>1. /\ client' \in [Conns -> ClientStates]
            /\ handler' \in [Conns -> HandlerStates]
            /\ hdReader' \in [Conns -> ReaderStates \cup MsgTypes \cup Waits]
            /\ conn' \in [Conns -> {"none", "open", "over"}]
            /\ session' \in [Accs -> Regs \cup {None}]
        BY <1>0, <2>1, <2>2, StateTypes
           DEF ClientStates, HandlerStates, ReaderStates
      <3>2. QED
        BY <3>1, <2>2 DEF TypeOK
    <2>4. FreshInv'
      BY <1>0, <2>1, <2>2, StateTypes DEF FreshInv, AddsOnly, Adds
    <2>5. PairInv'
      BY <1>0, <2>1, <2>2, StateTypes DEF PairInv, FreshInv
    <2>6. /\ handler[a] = "none" /\ hdReader[a] = "off"
          /\ a \notin clDone
          /\ \A m \in Msgs : ~In(m, down[a]) /\ ~In(m, up[a])
      BY <1>0, <2>2 DEF FreshInv
    <2>7. /\ \A c \in Conns \ {a} : /\ handler'[c] = handler[c]
                                   /\ hdReader'[c] = hdReader[c]
          /\ \A b \in Accs \ {a} : session'[b] = session[b]
          /\ handler'[a] \in {"none", "wait"} /\ hdReader'[a] \in {"off", "read"}
      BY <1>0, <2>1, <2>6, StateTypes
    <2>8. \A c \in Conns : client'[c] # "err" => client'[c] = client[c]
      BY <1>0, <2>1, StateTypes
    <2>9. NewIdInv'
      BY <2>2, <2>6, <2>7, StateTypes, InvariantMsgs DEF NewIdInv
    <2>10. TssInv'
      BY <2>2, <2>7, <2>8, StateTypes DEF TssInv
    <2>11. ChainInv'
      <3>1. \A r \in Regs : Confirmed(r) => Confirmed(r)'
        BY <2>2, <2>6, <2>7, StateTypes DEF Confirmed
      <3>2. QED
        BY <2>2, <2>6, <2>7, <2>8, <3>1, StateTypes, InvariantMsgs DEF ChainInv
    <2>12. QED
      BY <2>3, <2>4, <2>5, <2>9, <2>10, <2>11
  <1>2. CASE AcceptPeerSend(a)
    <2>1. TypeOK'
      BY <1>0, <1>2 DEF TypeOK, AcceptPeerSend, SendOn, ReaderStates, Waits,
         Chans
    <2>2. FreshInv'
      BY <1>0, <1>2, StateTypes DEF FreshInv, AcceptPeerSend, SendOn,
         AddsOnly, Adds
    <2>3. PairInv'
      BY <1>0, <1>2, StateTypes DEF PairInv, AcceptPeerSend, SendOn
    <2>4. NewIdInv'
      BY <1>0, <1>2, StateTypes DEF NewIdInv, AcceptPeerSend, SendOn,
         AddsOnly, Adds
    <2>5. TssInv'
      BY <1>0, <1>2, StateTypes DEF TssInv, AcceptPeerSend, SendOn
    <2>6. ChainInv'
      BY <1>0, <1>2, StateTypes DEF ChainInv, AcceptPeerSend, SendOn,
         AddsOnly, Adds, Confirmed
    <2>7. QED
      BY <2>1, <2>2, <2>3, <2>4, <2>5, <2>6
  <1>3. CASE AcceptPeerReceive(a)
    <2>1. /\ down' \in QueueType /\ AddsOnly(down, down', a, {"peer"})
          /\ \/ hdReader' = [hdReader EXCEPT ![a] = "read"]
             \/ hdReader' = [hdReader EXCEPT ![a] = "ret"]
          /\ hdErrs' \in [Conns -> SUBSET {"reader", "sender"}]
      BY <1>0, <1>3, HandlerRepliesEffect, MsgTypesAre DEF AcceptPeerReceive
    <2>2. TypeOK'
      BY <1>0, <1>3, <2>1 DEF TypeOK, AcceptPeerReceive, ReceiveOn,
         ReaderStates, Waits, QueueType, QueuesOf, Msgs
    <2>3. FreshInv'
      BY <1>0, <1>3, <2>1, StateTypes, InvariantMsgs DEF FreshInv,
         AcceptPeerReceive, ReceiveOn, AddsOnly, Adds, Endings
    <2>4. PairInv'
      BY <1>0, <1>3, <2>1, StateTypes DEF PairInv, AcceptPeerReceive,
         ReceiveOn
    <2>5. NewIdInv'
      BY <1>0, <1>3, <2>1, StateTypes, InvariantMsgs DEF NewIdInv,
         AcceptPeerReceive, ReceiveOn, AddsOnly, Adds, Endings, PairInv
    <2>6. TssInv'
      BY <1>0, <1>3, <2>1, StateTypes DEF TssInv, AcceptPeerReceive,
         ReceiveOn
    <2>7. ChainInv'
      BY <1>0, <1>3, <2>1, StateTypes, InvariantMsgs DEF ChainInv,
         AcceptPeerReceive, ReceiveOn, AddsOnly, Adds, Confirmed, Endings
    <2>8. QED
      BY <2>2, <2>3, <2>4, <2>5, <2>6, <2>7
  <1>4. CASE AcceptMetadataSend(a)
    <2>1. TypeOK'
      BY <1>0, <1>4 DEF TypeOK, AcceptMetadataSend, SendOn, ReaderStates,
         Waits, Chans
    <2>2. FreshInv'
      BY <1>0, <1>4, StateTypes DEF FreshInv, AcceptMetadataSend, SendOn,
         AddsOnly, Adds
    <2>3. PairInv'
      BY <1>0, <1>4, StateTypes DEF PairInv, AcceptMetadataSend, SendOn
    <2>4. NewIdInv'
      BY <1>0, <1>4, StateTypes DEF NewIdInv, AcceptMetadataSend, SendOn,
         AddsOnly, Adds
    <2>5. TssInv'
      BY <1>0, <1>4, StateTypes DEF TssInv, AcceptMetadataSend, SendOn
    <2>6. ChainInv'
      BY <1>0, <1>4, StateTypes DEF ChainInv, AcceptMetadataSend, SendOn,
         AddsOnly, Adds, Confirmed
    <2>7. QED
      BY <2>1, <2>2, <2>3, <2>4, <2>5, <2>6
  <1>5. CASE AcceptMetadataReceive(a)
    <2>1. /\ down' \in QueueType /\ AddsOnly(down, down', a, {"metadataAck"})
          /\ \/ hdReader' = [hdReader EXCEPT ![a] = "read"]
             \/ hdReader' = [hdReader EXCEPT ![a] = "ret"]
          /\ hdErrs' \in [Conns -> SUBSET {"reader", "sender"}]
      BY <1>0, <1>5, HandlerRepliesEffect, MsgTypesAre DEF
         AcceptMetadataReceive
    <2>2. TypeOK'
      <3>1. chan' \in [Regs -> SUBSET Chans]
        BY <1>0, <1>5, StateTypes DEF AcceptMetadataReceive, ReceiveOn
      <3>2. hdReader' \in [Conns -> ReaderStates \cup MsgTypes \cup Waits]
        BY <1>0, <2>1, StateTypes DEF ReaderStates
      <3>3. /\ handler' \in [Conns -> HandlerStates]
            /\ adder' \in [Regs -> TssStates]
        BY <1>0, <1>5, StateTypes
           DEF AcceptMetadataReceive, HandlerStates, TssStates
      <3>4. QED
        BY <1>5, <2>1, <3>1, <3>2, <3>3
           DEF TypeOK, AcceptMetadataReceive, QueueType, QueuesOf, Msgs
    <2>3. FreshInv'
      BY <1>0, <1>5, <2>1, StateTypes, InvariantMsgs DEF FreshInv,
         AcceptMetadataReceive, ReceiveOn, AddsOnly, Adds, Endings
    <2>4. PairInv'
      BY <1>0, <1>5, <2>1, StateTypes DEF PairInv, AcceptMetadataReceive,
         ReceiveOn
    <2>5. NewIdInv'
      BY <1>0, <1>5, <2>1, StateTypes, InvariantMsgs DEF NewIdInv,
         AcceptMetadataReceive, ReceiveOn, AddsOnly, Adds, Endings
    <2>6. TssInv'
      BY <1>0, <1>5, <2>1, StateTypes DEF TssInv, AcceptMetadataReceive,
         ReceiveOn, PairInv, NewIdInv
    <2>7. ChainInv'
      BY <1>0, <1>5, <2>1, StateTypes, InvariantMsgs DEF ChainInv,
         AcceptMetadataReceive, ReceiveOn, AddsOnly, Adds, Confirmed, Endings
    <2>8. QED
      BY <2>2, <2>3, <2>4, <2>5, <2>6, <2>7
  <1>6. CASE AcceptTssDoneMessage(a)
    <2>1. TypeOK'
      BY <1>0, <1>6 DEF TypeOK, AcceptTssDoneMessage, SendOn, ReaderStates,
         Chans
    <2>2. FreshInv'
      BY <1>0, <1>6, StateTypes DEF FreshInv, AcceptTssDoneMessage, SendOn,
         AddsOnly, Adds
    <2>3. PairInv'
      BY <1>0, <1>6, StateTypes DEF PairInv, AcceptTssDoneMessage, SendOn
    <2>4. NewIdInv'
      BY <1>0, <1>6, StateTypes DEF NewIdInv, AcceptTssDoneMessage, SendOn,
         AddsOnly, Adds
    <2>5. TssInv'
      BY <1>0, <1>6, StateTypes DEF TssInv, AcceptTssDoneMessage, SendOn
    <2>6. ChainInv'
      BY <1>0, <1>6, StateTypes DEF ChainInv, AcceptTssDoneMessage, SendOn,
         AddsOnly, Adds, Confirmed
    <2>7. QED
      BY <2>1, <2>2, <2>3, <2>4, <2>5, <2>6
  <1>7. CASE AcceptExistingDeviceDone(a)
    <2>1. TypeOK'
      <3>1. /\ chan' \in [Regs -> SUBSET Chans]
            /\ hdReader' \in [Conns -> ReaderStates \cup MsgTypes \cup Waits]
        BY <1>0, <1>7, StateTypes
           DEF AcceptExistingDeviceDone, SendOn, ReaderStates, Chans
      <3>2. hdDone' \in SUBSET Accs
        BY <1>7 DEF AcceptExistingDeviceDone, TypeOK
      <3>3. QED
        BY <1>7, <3>1, <3>2 DEF TypeOK, AcceptExistingDeviceDone
    <2>2. FreshInv'
      BY <1>0, <1>7, StateTypes DEF FreshInv, AcceptExistingDeviceDone,
         SendOn, AddsOnly, Adds
    <2>3. PairInv'
      BY <1>0, <1>7, StateTypes DEF PairInv, AcceptExistingDeviceDone, SendOn
    <2>4. NewIdInv'
      BY <1>0, <1>7, StateTypes DEF NewIdInv, AcceptExistingDeviceDone,
         SendOn, AddsOnly, Adds
    <2>5. TssInv'
      BY <1>0, <1>7, StateTypes DEF TssInv, AcceptExistingDeviceDone, SendOn
    <2>6. ChainInv'
      BY <1>0, <1>7, StateTypes DEF ChainInv, AcceptExistingDeviceDone,
         SendOn, AddsOnly, Adds, Confirmed
    <2>7. QED
      BY <2>1, <2>2, <2>3, <2>4, <2>5, <2>6
  <1>8. CASE AcceptHandlerProcess(a)
    <2>1. \/ handler' = [handler EXCEPT ![a] = "ret"]
          \/ /\ handler' = [handler EXCEPT ![a] = "store"]
             /\ adder[session[a]] = "done"
      BY <1>0, <1>8, HandlerReturnsEffect DEF AcceptHandlerProcess, Endings
    <2>2. /\ down' \in QueueType /\ AddsOnly(down, down', a, Endings)
          /\ conn' \in [Conns -> {"none", "open", "over"}]
          /\ \A d \in Conns : conn'[d] = "none" <=> conn[d] = "none"
      BY <1>0, <1>8, HandlerReturnsEffect, HandlerKeepsEffect DEF
         AcceptHandlerProcess, Endings
    <2>3. /\ handler[a] = "tss"
          /\ UNCHANGED <<clVars, hdReader, hdErrs, hdDone, up, pairVars, tssVars,
                         dbVars, faults>>
      BY <1>8 DEF AcceptHandlerProcess
    <2>4. TypeOK'
      BY <1>0, <2>1, <2>2, <2>3 DEF TypeOK, HandlerStates, QueueType, QueuesOf, Msgs
    <2>5. FreshInv'
      BY <1>0, <2>1, <2>2, <2>3, StateTypes, InvariantMsgs DEF FreshInv,
         AddsOnly, Adds, Endings
    <2>6. PairInv'
      BY <1>0, <2>1, <2>2, <2>3, StateTypes DEF PairInv
    <2>7. NewIdInv'
      BY <1>0, <2>1, <2>2, <2>3, StateTypes, InvariantMsgs DEF NewIdInv,
         AddsOnly, Adds, Endings
    <2>8. TssInv'
      BY <1>0, <2>1, <2>2, <2>3, StateTypes DEF TssInv
    <2>9. ChainInv'
      BY <1>0, <2>1, <2>2, <2>3, StateTypes, InvariantMsgs DEF ChainInv,
         AddsOnly, Adds, Confirmed, Endings
    <2>10. QED
      BY <2>4, <2>5, <2>6, <2>7, <2>8, <2>9
  <1>9. CASE AcceptHandlerAddPeer(a)
    <2>1. /\ \/ handler' = [handler EXCEPT ![a] = "stored"]
             \/ handler' = [handler EXCEPT ![a] = "ret"]
          /\ down' \in QueueType /\ AddsOnly(down, down', a, Endings)
          /\ conn' \in [Conns -> {"none", "open", "over"}]
          /\ \A d \in Conns : conn'[d] = "none" <=> conn[d] = "none"
      BY <1>0, <1>9, HandlerReturnsEffect, HandlerKeepsEffect DEF
         AcceptHandlerAddPeer, Endings, FinalClose, HandlerWriteFails
    <2>2. TypeOK'
      <3>1. /\ session[a] \in Regs /\ newId[a] \in Devices
            /\ existing[session[a]] \in Devices
        BY <1>9 DEF NewIdInv, TssInv, AcceptHandlerAddPeer, Devices
      <3>2. bks' \in SUBSET Devices /\ devices' \in SUBSET Devices
        BY <1>9, <3>1 DEF TypeOK, AcceptHandlerAddPeer, AddPeer, MergedBKs, Devices
      <3>3. chan' \in [Regs -> SUBSET Chans]
        BY <1>9, <3>1 DEF TypeOK, AcceptHandlerAddPeer, ReceiveOn
      <3>4. handler' \in [Conns -> HandlerStates]
        BY <1>0, <2>1, StateTypes DEF HandlerStates
      <3>5. QED
        BY <1>9, <2>1, <3>2, <3>3, <3>4
           DEF TypeOK, AcceptHandlerAddPeer, QueueType, QueuesOf, Msgs
    <2>3. FreshInv'
      BY <1>0, <1>9, <2>1, StateTypes, InvariantMsgs DEF FreshInv,
         AcceptHandlerAddPeer, ReceiveOn, AddPeer, AddsOnly, Adds, Endings
    <2>4. PairInv'
      BY <1>0, <1>9, <2>1, StateTypes DEF PairInv, AcceptHandlerAddPeer,
         ReceiveOn, AddPeer
    <2>5. NewIdInv'
      BY <1>0, <1>9, <2>1, StateTypes, InvariantMsgs DEF NewIdInv,
         AcceptHandlerAddPeer, ReceiveOn, AddPeer, AddsOnly, Adds, Endings
    <2>6. TssInv'
      BY <1>0, <1>9, <2>1, StateTypes DEF TssInv, AcceptHandlerAddPeer,
         ReceiveOn, AddPeer, NewIdInv
    <2>7. ChainInv'
      BY <1>0, <1>9, <2>1, StateTypes, InvariantMsgs DEF ChainInv,
         AcceptHandlerAddPeer, ReceiveOn, AddPeer, AddsOnly, Adds, Confirmed,
         Endings, NewIdInv
    <2>8. QED
      BY <2>2, <2>3, <2>4, <2>5, <2>6, <2>7
  <1>10. CASE AcceptHandlerNewDeviceDone(a)
    <2>1. /\ \/ handler' = [handler EXCEPT ![a] = "newDone"]
             \/ handler' = [handler EXCEPT ![a] = "ret"]
             \/ handler' = [handler EXCEPT ![a] = "stuck"]
          /\ down' \in QueueType /\ AddsOnly(down, down', a, {"newDeviceDone"} \cup Endings)
          /\ conn' \in [Conns -> {"none", "open", "over"}]
          /\ \A d \in Conns : conn'[d] = "none" <=> conn[d] = "none"
      BY <1>0, <1>10, HandlerWriteEffect, MsgTypesAre DEF
         AcceptHandlerNewDeviceDone, HandlerStates
    <2>2. TypeOK'
      BY <1>0, <1>10, <2>1 DEF TypeOK, AcceptHandlerNewDeviceDone, ReceiveOn,
         HandlerStates, QueueType, QueuesOf, Msgs
    <2>3. FreshInv'
      BY <1>0, <1>10, <2>1, StateTypes, InvariantMsgs DEF FreshInv,
         AcceptHandlerNewDeviceDone, ReceiveOn, AddsOnly, Adds, Endings
    <2>4. PairInv'
      BY <1>0, <1>10, <2>1, StateTypes DEF PairInv,
         AcceptHandlerNewDeviceDone, ReceiveOn
    <2>5. NewIdInv'
      BY <1>0, <1>10, <2>1, StateTypes, InvariantMsgs DEF NewIdInv,
         AcceptHandlerNewDeviceDone, ReceiveOn, AddsOnly, Adds, Endings
    <2>6. TssInv'
      BY <1>0, <1>10, <2>1, StateTypes DEF TssInv,
         AcceptHandlerNewDeviceDone, ReceiveOn
    <2>7. ChainInv'
      BY <1>0, <1>10, <2>1, StateTypes, InvariantMsgs DEF ChainInv,
         AcceptHandlerNewDeviceDone, ReceiveOn, AddsOnly, Adds, Confirmed, Endings
    <2>8. QED
      BY <2>2, <2>3, <2>4, <2>5, <2>6, <2>7
  <1>11. CASE AcceptHandlerFinish(a)
    <2>1. /\ handler' = [handler EXCEPT ![a] = "ret"]
          /\ down' \in QueueType /\ AddsOnly(down, down', a, Endings)
          /\ conn' \in [Conns -> {"none", "open", "over"}]
          /\ \A d \in Conns : conn'[d] = "none" <=> conn[d] = "none"
      BY <1>0, <1>11, HandlerReturnsEffect, HandlerKeepsEffect DEF
         AcceptHandlerFinish, Endings, FinalClose, HandlerWriteFails
    <2>2. TypeOK'
      BY <1>0, <1>11, <2>1 DEF TypeOK, AcceptHandlerFinish, HandlerStates,
         QueueType, QueuesOf, Msgs
    <2>3. FreshInv'
      BY <1>0, <1>11, <2>1, StateTypes, InvariantMsgs DEF FreshInv,
         AcceptHandlerFinish, AddsOnly, Adds, Endings
    <2>4. PairInv'
      BY <1>0, <1>11, <2>1, StateTypes DEF PairInv, AcceptHandlerFinish
    <2>5. NewIdInv'
      BY <1>0, <1>11, <2>1, StateTypes, InvariantMsgs DEF NewIdInv,
         AcceptHandlerFinish, AddsOnly, Adds, Endings
    <2>6. TssInv'
      BY <1>0, <1>11, <2>1, StateTypes DEF TssInv, AcceptHandlerFinish
    <2>7. ChainInv'
      BY <1>0, <1>11, <2>1, StateTypes, InvariantMsgs DEF ChainInv,
         AcceptHandlerFinish, AddsOnly, Adds, Confirmed, Endings
    <2>8. QED
      BY <2>2, <2>3, <2>4, <2>5, <2>6, <2>7
  <1>12. QED
    BY <1>1, <1>2, <1>3, <1>4, <1>5, <1>6, <1>7, <1>8, <1>9, <1>10, <1>11

\* The devices finish the add-share process.
LEMMA PeersDoneKeep ==
    ASSUME IInv, NEW r \in Regs, NEW a \in Accs,
           \/ NewPeerDone(r, a)
           \/ ExistingPeerDone(r, a)
    PROVE  IInv'
  <1> USE DEF IInv, clVars, hdVars, netVars, pairVars, tssVars, dbVars
  <1>0. r \in Conns /\ a \in Conns
    BY DEF Conns
  <1>1. CASE NewPeerDone(r, a)
    <2>1. FreshInv' /\ PairInv' /\ NewIdInv' /\ ChainInv'
      BY <1>1 DEF FreshInv, PairInv, NewIdInv, ChainInv, NewPeerDone,
         Confirmed
    <2>2. TypeOK'
      BY <1>0, <1>1 DEF TypeOK, NewPeerDone, Coupled, TssStates
    <2>3. TssInv'
      BY <1>0, <1>1, StateTypes DEF TssInv, NewPeerDone, Coupled
    <2>4. QED
      BY <2>1, <2>2, <2>3
  <1>2. CASE ExistingPeerDone(r, a)
    <2>1. FreshInv' /\ PairInv' /\ NewIdInv' /\ ChainInv'
      BY <1>2 DEF FreshInv, PairInv, NewIdInv, ChainInv, ExistingPeerDone,
         Confirmed
    <2>2. TypeOK'
      BY <1>0, <1>2 DEF TypeOK, ExistingPeerDone, Coupled, TssStates
    <2>3. TssInv'
      BY <1>0, <1>2, StateTypes DEF TssInv, ExistingPeerDone, Coupled
    <2>4. QED
      BY <2>1, <2>2, <2>3
  <1>3. QED
    BY <1>1, <1>2

\* The server has the proof of the new device.
LEMMA ServerDoneKeeps ==
    ASSUME IInv, NEW r \in Regs,
           ServerDone(r)
    PROVE  IInv'
  <1> USE DEF IInv, clVars, hdVars, netVars, pairVars, tssVars, dbVars
  <1>0. r \in Conns
    BY DEF Conns
  <1>1. CASE ServerDone(r)
    <2>1. FreshInv' /\ PairInv' /\ NewIdInv' /\ ChainInv'
      BY <1>1 DEF FreshInv, PairInv, NewIdInv, ChainInv, ServerDone,
         Confirmed
    <2>2. TypeOK'
      BY <1>0, <1>1 DEF TypeOK, ServerDone, TssStates
    <2>3. TssInv'
      BY <1>0, <1>1, StateTypes DEF TssInv, ServerDone
    <2>4. QED
      BY <2>1, <2>2, <2>3
  <1>2. QED
    BY <1>1

\* The failures of RegisterDeviceHandler and of the adder.
LEMMA RegisterFailuresKeep ==
    ASSUME IInv, NEW r \in Regs,
           \/ RegisterDeviceMessageFails(r)
           \/ ServerTssFails(r)
    PROVE  IInv'
  <1> USE DEF IInv, clVars, hdVars, netVars, pairVars, tssVars, dbVars
  <1>0. r \in Conns
    BY DEF Conns
  <1>1. CASE RegisterDeviceMessageFails(r)
    <2>1. TypeOK'
      BY <1>0, <1>1 DEF TypeOK, RegisterDeviceMessageFails, ReceiveOn, Fault,
         ReaderStates
    <2>2. FreshInv'
      BY <1>0, <1>1, StateTypes DEF FreshInv, RegisterDeviceMessageFails,
         ReceiveOn, Fault, AddsOnly, Adds
    <2>3. PairInv'
      BY <1>0, <1>1, StateTypes DEF PairInv, RegisterDeviceMessageFails,
         ReceiveOn, Fault
    <2>4. NewIdInv'
      BY <1>0, <1>1, StateTypes DEF NewIdInv, RegisterDeviceMessageFails,
         ReceiveOn, Fault, AddsOnly, Adds
    <2>5. TssInv'
      BY <1>0, <1>1, StateTypes DEF TssInv, RegisterDeviceMessageFails,
         ReceiveOn, Fault
    <2>6. ChainInv'
      BY <1>0, <1>1, StateTypes DEF ChainInv, RegisterDeviceMessageFails,
         ReceiveOn, Fault, AddsOnly, Adds, Confirmed
    <2>7. QED
      BY <2>1, <2>2, <2>3, <2>4, <2>5, <2>6
  <1>2. CASE ServerTssFails(r)
    <2>1. FreshInv' /\ PairInv' /\ NewIdInv' /\ ChainInv'
      BY <1>2 DEF FreshInv, PairInv, NewIdInv, ChainInv, ServerTssFails,
         Confirmed
    <2>2. TypeOK'
      BY <1>0, <1>2 DEF TypeOK, ServerTssFails, Fault, TssStates
    <2>3. TssInv'
      BY <1>0, <1>2, StateTypes DEF TssInv, ServerTssFails, Fault
    <2>4. QED
      BY <2>1, <2>2, <2>3
  <1>3. QED
    BY <1>1, <1>2

\* The database fails.
LEMMA AddPeerFailsKeeps ==
    ASSUME IInv, NEW a \in Accs,
           AcceptHandlerAddPeerFails(a)
    PROVE  IInv'
  <1> USE DEF IInv, clVars, hdVars, netVars, pairVars, tssVars, dbVars
  <1>0. a \in Conns
    BY DEF Conns
  <1>1. CASE AcceptHandlerAddPeerFails(a)
    <2>1. /\ handler' = [handler EXCEPT ![a] = "ret"]
          /\ down' \in QueueType /\ AddsOnly(down, down', a, Endings)
          /\ conn' \in [Conns -> {"none", "open", "over"}]
          /\ \A d \in Conns : conn'[d] = "none" <=> conn[d] = "none"
      BY <1>0, <1>1, HandlerReturnsEffect, HandlerKeepsEffect DEF
         AcceptHandlerAddPeerFails, Endings, FinalClose, HandlerWriteFails
    <2>2. TypeOK'
      <3>1. chan' \in [Regs -> SUBSET Chans] /\ faults' \in Nat
        <4>1. session[a] \in Regs
          BY <1>1 DEF NewIdInv, AcceptHandlerAddPeerFails
        <4>2. QED
          BY <1>1, <4>1 DEF TypeOK, AcceptHandlerAddPeerFails, ReceiveOn, Fault
      <3>2. handler' \in [Conns -> HandlerStates]
        BY <1>0, <2>1, StateTypes DEF HandlerStates
      <3>3. QED
        BY <1>1, <2>1, <3>1, <3>2
           DEF TypeOK, AcceptHandlerAddPeerFails, QueueType, QueuesOf, Msgs
    <2>3. FreshInv'
      BY <1>0, <1>1, <2>1, StateTypes, InvariantMsgs DEF FreshInv,
         AcceptHandlerAddPeerFails, ReceiveOn, Fault, AddsOnly, Adds, Endings
    <2>4. PairInv'
      BY <1>0, <1>1, <2>1, StateTypes DEF PairInv, AcceptHandlerAddPeerFails,
         ReceiveOn, Fault
    <2>5. NewIdInv'
      BY <1>0, <1>1, <2>1, StateTypes, InvariantMsgs DEF NewIdInv,
         AcceptHandlerAddPeerFails, ReceiveOn, Fault, AddsOnly, Adds, Endings
    <2>6. TssInv'
      BY <1>0, <1>1, <2>1, StateTypes DEF TssInv, AcceptHandlerAddPeerFails,
         ReceiveOn, Fault
    <2>7. ChainInv'
      BY <1>0, <1>1, <2>1, StateTypes, InvariantMsgs DEF ChainInv,
         AcceptHandlerAddPeerFails, ReceiveOn, Fault, AddsOnly, Adds, Confirmed,
         Endings
    <2>8. QED
      BY <2>2, <2>3, <2>4, <2>5, <2>6, <2>7
  <1>2. QED
    BY <1>1

\* The failures of a connection and of its goroutines.
LEMMA ConnFaultsKeep ==
    ASSUME IInv, NEW c \in Conns,
           \/ DialFails(c)
           \/ DeviceTssFails(c)
           \/ Drop(c)
           \/ ClientSenderFails(c)
           \/ HandlerSenderFails(c)
           \/ ClientReaderFails(c)
           \/ HandlerReaderFails(c)
    PROVE  IInv'
  <1> USE DEF IInv, clVars, hdVars, netVars, pairVars, tssVars, dbVars
  <1>1. CASE DialFails(c)
    <2>1. NewIdInv'
      BY <1>1 DEF NewIdInv, DialFails
    <2>2. TypeOK'
      BY <1>1 DEF TypeOK, DialFails, Fault, ClientStates
    <2>3. FreshInv'
      BY <1>1, StateTypes DEF FreshInv, DialFails, Fault, AddsOnly, Adds
    <2>4. PairInv'
      BY <1>1, StateTypes DEF PairInv, DialFails, Fault
    <2>5. TssInv'
      BY <1>1, StateTypes DEF TssInv, DialFails, Fault
    <2>6. ChainInv'
      BY <1>1, StateTypes DEF ChainInv, DialFails, Fault, AddsOnly, Adds, Confirmed
    <2>7. QED
      BY <2>1, <2>2, <2>3, <2>4, <2>5, <2>6
  <1>2. CASE DeviceTssFails(c)
    <2>1. FreshInv' /\ PairInv' /\ NewIdInv' /\ ChainInv'
      BY <1>2 DEF FreshInv, PairInv, NewIdInv, ChainInv, DeviceTssFails,
         Confirmed
    <2>2. TypeOK'
      BY <1>2 DEF TypeOK, DeviceTssFails, Fault, TssStates
    <2>3. TssInv'
      BY <1>2, StateTypes DEF TssInv, DeviceTssFails, Fault
    <2>4. QED
      BY <2>1, <2>2, <2>3
  <1>3. CASE Drop(c)
    <2>1. /\ up' \in QueueType /\ AddsOnly(up, up', c, {"broken"})
          /\ down' \in QueueType /\ AddsOnly(down, down', c, {"broken"})
      BY <1>3, DropEffect
    <2>2. PairInv' /\ TssInv'
      BY <1>3 DEF PairInv, TssInv, Drop
    <2>3. TypeOK'
      BY <1>3, <2>1 DEF TypeOK, Drop, Fault, QueueType, QueuesOf, Msgs
    <2>4. FreshInv'
      BY <1>3, <2>1, StateTypes, InvariantMsgs DEF FreshInv, Drop, Fault,
         AddsOnly, Adds, Endings
    <2>5. NewIdInv'
      BY <1>3, <2>1, StateTypes, InvariantMsgs DEF NewIdInv, Drop, Fault,
         AddsOnly, Adds, Endings
    <2>6. ChainInv'
      BY <1>3, <2>1, StateTypes, InvariantMsgs DEF ChainInv, Drop, Fault,
         AddsOnly, Adds, Confirmed, Endings
    <2>7. QED
      BY <2>2, <2>3, <2>4, <2>5, <2>6
  <1>4. CASE ClientSenderFails(c)
    <2>1. FreshInv' /\ PairInv' /\ NewIdInv' /\ TssInv' /\ ChainInv'
      BY <1>4 DEF FreshInv, PairInv, NewIdInv, TssInv, ChainInv,
         ClientSenderFails, Confirmed
    <2>2. TypeOK'
      BY <1>4 DEF TypeOK, ClientSenderFails
    <2>3. QED
      BY <2>1, <2>2
  <1>5. CASE HandlerSenderFails(c)
    <2>1. FreshInv' /\ PairInv' /\ NewIdInv' /\ TssInv' /\ ChainInv'
      BY <1>5 DEF FreshInv, PairInv, NewIdInv, TssInv, ChainInv,
         HandlerSenderFails, Confirmed
    <2>2. TypeOK'
      BY <1>5 DEF TypeOK, HandlerSenderFails
    <2>3. QED
      BY <2>1, <2>2
  <1>6. CASE ClientReaderFails(c)
    <2>1. FreshInv' /\ PairInv' /\ NewIdInv' /\ TssInv' /\ ChainInv'
      BY <1>6 DEF FreshInv, PairInv, NewIdInv, TssInv, ChainInv,
         ClientReaderFails, Confirmed
    <2>2. TypeOK'
      BY <1>6 DEF TypeOK, ClientReaderFails, Fault, ReaderStates
    <2>3. QED
      BY <2>1, <2>2
  <1>7. CASE HandlerReaderFails(c)
    <2>1. TypeOK'
      BY <1>7 DEF TypeOK, HandlerReaderFails, Fault, ReaderStates
    <2>2. FreshInv'
      BY <1>7, StateTypes DEF FreshInv, HandlerReaderFails, Fault, AddsOnly, Adds
    <2>3. PairInv'
      BY <1>7, StateTypes DEF PairInv, HandlerReaderFails, Fault
    <2>4. NewIdInv'
      BY <1>7, StateTypes DEF NewIdInv, HandlerReaderFails, Fault, AddsOnly, Adds
    <2>5. TssInv'
      BY <1>7, StateTypes DEF TssInv, HandlerReaderFails, Fault
    <2>6. ChainInv'
      BY <1>7, StateTypes DEF ChainInv, HandlerReaderFails, Fault, AddsOnly, Adds,
         Confirmed
    <2>7. QED
      BY <2>1, <2>2, <2>3, <2>4, <2>5, <2>6
  <1>8. QED
    BY <1>1, <1>2, <1>3, <1>4, <1>5, <1>6, <1>7

\* The cache forgets the channels.
LEMMA CacheExpiresKeeps ==
    ASSUME IInv,
           CacheExpires
    PROVE  IInv'
  <1> USE DEF IInv, clVars, hdVars, netVars, pairVars, tssVars, dbVars
  <1>1. CASE CacheExpires
    <2>1. FreshInv' /\ PairInv' /\ NewIdInv' /\ TssInv' /\ ChainInv'
      BY <1>1 DEF FreshInv, PairInv, NewIdInv, TssInv, ChainInv,
         CacheExpires, Confirmed
    <2>2. TypeOK'
      BY <1>1 DEF TypeOK, CacheExpires, Fault
    <2>3. QED
      BY <2>1, <2>2
  <1>2. QED
    BY <1>1
-----------------------------------------------------------------------------
(* The theorems.                                                           *)

\* The invariant holds at first: nothing was called, nothing is in flight.
LEMMA InitIInv == Init => IInv
  <1> SUFFICES ASSUME Init PROVE IInv
    OBVIOUS
  <1>1. TypeOK
    BY ConstantsAssumption
       DEF Init, TypeOK, ClientStates, HandlerStates, ReaderStates, TssStates,
           Devices
  <1>2. \A c \in Conns, m \in Msgs : ~In(m, up[c]) /\ ~In(m, down[c])
    BY DEF Init, In
  <1>3. FreshInv
    BY <1>2 DEF Init, FreshInv
  <1>4. PairInv
    BY ConnsSplit DEF Init, PairInv
  <1>5. NewIdInv
    BY <1>2, ConnsSplit, InvariantMsgs DEF Init, NewIdInv
  <1>6. TssInv
    BY ConnsSplit, ConstantsAssumption DEF Init, TssInv
  <1>7. ChainInv
    BY <1>2, ConnsSplit, InvariantMsgs DEF Init, ChainInv
  <1>8. QED
    BY <1>1, <1>3, <1>4, <1>5, <1>6, <1>7 DEF IInv

\* Every step keeps it, and so does a step that changes nothing.
LEMMA NextIInv == IInv /\ [Next]_vars => IInv'
  <1> SUFFICES ASSUME IInv, [Next]_vars PROVE IInv'
    OBVIOUS
  <1>1. CASE UNCHANGED vars
    BY <1>1 DEF vars, clVars, hdVars, netVars, pairVars, tssVars, dbVars, IInv,
       TypeOK, FreshInv, PairInv, NewIdInv, TssInv, ChainInv, Confirmed
  <1>2. CASE \/ \E r \in Regs : RegisterDevice(r)
             \/ \E a \in Accs, d \in Devices : AcceptDevice(a, d)
    BY <1>2, RegisterDeviceKeeps, AcceptDeviceKeeps
  <1>3. ASSUME NEW c \in Conns, ClientSteps(c) PROVE IInv'
    BY <1>3, ClientStepsKeep DEF ClientSteps
  <1>4. ASSUME NEW c \in Conns, HandlerReads(c) PROVE IInv'
    BY <1>4, HandlerReadsKeep
  <1>5. ASSUME NEW c \in Conns, ConnFaults(c) PROVE IInv'
    BY <1>5, ConnFaultsKeep DEF ConnFaults
  <1>6. ASSUME NEW r \in Regs,
               RegisterSteps(r) \/ RegisterHandlerSteps(r)
        PROVE  IInv'
    BY <1>6, RegisterStepsKeep, RegisterHandlerStepsKeep
       DEF RegisterSteps, RegisterHandlerSteps
  <1>7. ASSUME NEW r \in Regs, TssSteps(r) PROVE IInv'
    BY <1>7, ServerDoneKeeps, PeersDoneKeep DEF TssSteps
  <1>8. ASSUME NEW r \in Regs,
               RegisterDeviceMessageFails(r) \/ ServerTssFails(r)
        PROVE  IInv'
    BY <1>8, RegisterFailuresKeep
  <1>9. ASSUME NEW a \in Accs, AcceptSteps(a) \/ AcceptHandlerSteps(a)
        PROVE  IInv'
    BY <1>9, AcceptStepsKeep, AcceptHandlerStepsKeep
       DEF AcceptSteps, AcceptHandlerSteps
  <1>10. ASSUME NEW a \in Accs, AcceptHandlerAddPeerFails(a) PROVE IInv'
    BY <1>10, AddPeerFailsKeeps
  <1>11. CASE CacheExpires
    BY <1>11, CacheExpiresKeeps
  <1>12. QED
    BY <1>1, <1>2, <1>3, <1>4, <1>5, <1>6, <1>7, <1>8, <1>9, <1>10, <1>11
       DEF Next

\* The inductive invariant is an invariant of the specification.
THEOREM Inductive == Spec => []IInv
  <1>1. QED
    BY InitIInv, NextIInv, PTL DEF Spec

\* The variables keep their types: in particular the vault never stores
\* anything but peer ids of devices.
THEOREM TypeCorrect == Spec => []TypeOK
  <1>1. IInv => TypeOK
    BY DEF IInv
  <1>2. QED
    BY <1>1, Inductive, PTL

\* AddPeer stores a device only after that device has its complete share.
THEOREM StoresOnlyComplete == Spec => []StoredOnlyIfComplete
  <1>1. IInv => StoredOnlyIfComplete
    BY DEF IInv, TssInv, StoredOnlyIfComplete
  <1>2. QED
    BY <1>1, Inductive, PTL

\* AcceptDevice succeeds only for a device that is stored and complete.
THEOREM AcceptImpliesPersisted == Spec => []AcceptedPersisted
  <1>1. IInv => AcceptedPersisted
    <2> SUFFICES ASSUME IInv, NEW a \in Accs, client[a] = "ok"
                 PROVE  session[a] \in devices /\ tss[session[a]] = "done"
      BY DEF AcceptedPersisted
    <2>1. session[a] \in devices
      BY ConnsSplit DEF IInv, ChainInv
    <2>2. session[a] \in Regs
      BY <2>1, ConstantsAssumption DEF IInv, TypeOK, Devices
    <2>3. QED
      BY <2>1, <2>2 DEF IInv, TssInv
  <1>2. QED
    BY <1>1, Inductive, PTL

\* RegisterDevice succeeds only for a device that is stored and complete and
\* that the accepting device confirmed, in every interleaving and with any
\* number of failures and concurrent sessions.
THEOREM RegisterImpliesPersisted == Spec => []RegisteredPersisted
  <1>1. IInv => RegisteredPersisted
    BY ConnsSplit
       DEF IInv, TssInv, ChainInv, Confirmed, RegisteredPersisted
  <1>2. QED
    BY <1>1, Inductive, PTL

-----------------------------------------------------------------------------
(* The stored wallet, when registrations follow each other and nothing     *)
(* fails: a second inductive invariant, above IInv.  AddPeer writes the    *)
(* wallet the adder was created from, so nobody else may have written it   *)
(* in between.                                                             *)

\* Accept handler a runs the add-share process or is about to store it.
Computing(a) == handler[a] \in {"tss", "store"}

\* One accept handler serves an adder, and a stored registration has none.
OnceInv ==
    /\ \A a \in Accs : Computing(a) => adder[session[a]] # "off"
    /\ \A a, b \in Accs :
          Computing(a) /\ Computing(b) /\ session[a] = session[b] => a = b
    /\ \A r \in Regs : r \in devices =>
          /\ adder[r] # "off"
          /\ \A a \in Accs : Computing(a) => session[a] # r
    /\ \A c \in Conns : client[c] = "idle" => conn[c] = "none"

\* The call and the connection of registration r are not over, and nothing in
\* flight or reported can end them.
Healthy(r) ==
    /\ client[r] \notin Returned
    /\ conn[r] # "over"
    /\ clErrs[r] = {} /\ hdErrs[r] = {}
    /\ \A m \in Endings : ~In(m, up[r]) /\ ~In(m, down[r])

HealthyInv ==
    \A r \in Regs : tss[r] # "failed" /\ (r \notin devices => Healthy(r))

\* At most one registration runs.
Running(r) == client[r] \notin Returned \cup {"idle"}

OneInv == \A r, s \in Regs : Running(r) /\ Running(s) => r = s

\* Some accept handler has the adder of r, or will get it: it may still write
\* the wallet that the adder was created from.
Pending(r) ==
    \/ "adderCh" \in chan[r]
    \/ \E a \in Accs : session[a] = r /\ Computing(a)

WalletInv ==
    /\ Owners \subseteq bks
    /\ \A r \in Regs : /\ r \in devices => r \in bks
                       /\ Pending(r) => original[r] = bks

SInv == OnceInv /\ HealthyInv /\ OneInv /\ WalletInv

\* No failure can happen when none is allowed for.
LEMMA NoFaults == IInv /\ MaxFaults = 0 => ~Fault
  BY DEF IInv, TypeOK, Fault

\* A pending registration is not stored yet, and its call still runs.
LEMMA PendingRuns ==
    ASSUME IInv, OnceInv, HealthyInv, NEW r \in Regs, Pending(r)
    PROVE  r \notin devices /\ Running(r)
  <1>1. r \notin devices
    BY DEF IInv, TssInv, OnceInv, Pending
  <1>2. client[r] \notin Returned
    BY <1>1 DEF HealthyInv, Healthy
  <1>3. client[r] # "idle"
    <2> SUFFICES ASSUME client[r] = "idle" PROVE FALSE
      OBVIOUS
    <2>1. handler[r] = "none" /\ hdReader[r] = "off"
      BY ConnsSplit DEF OnceInv, IInv, FreshInv
    <2>2. adder[r] = "off" /\ "adderCh" \notin chan[r]
      BY <2>1 DEF IInv, TssInv
    <2>3. QED
      BY <2>2 DEF OnceInv, Pending
  <1>4. QED
    BY <1>1, <1>2, <1>3 DEF Running

\* An accept handler that computes serves a registration.
LEMMA ComputingServes ==
    IInv => \A a \in Accs : Computing(a) => session[a] \in Regs
  BY DEF IInv, NewIdInv, Computing

-----------------------------------------------------------------------------
(* Most steps leave the wallet and the adders alone.                       *)

Quiet ==
    /\ UNCHANGED <<bks, devices, original>>
    /\ \A a \in Accs : Computing(a)' => Computing(a) /\ session'[a] = session[a]
    /\ \A r \in Regs : /\ adder[r] # "off" => adder'[r] # "off"
                       /\ "adderCh" \in chan'[r] => "adderCh" \in chan[r]
                       /\ Running(r)' => Running(r)
    /\ \A c \in Conns : /\ client'[c] = "idle" => client[c] = "idle"
                        /\ conn[c] = "none" /\ conn'[c] # "none"
                              => client[c] # "idle"

\* They keep what is said of the wallet.
LEMMA QuietKeeps ==
    ASSUME IInv, SInv, Quiet
    PROVE  OnceInv' /\ OneInv' /\ WalletInv'
  <1>1. OnceInv'
    <2>1. \A a \in Accs : Computing(a)' =>
             Computing(a) /\ session'[a] = session[a] /\ session[a] \in Regs
      BY ComputingServes DEF Quiet
    <2>2. QED
      BY <2>1 DEF SInv, OnceInv, Quiet
  <1>2. OneInv'
    BY DEF SInv, OneInv, Quiet
  <1>3. \A r \in Regs : Pending(r)' => Pending(r)
    BY DEF Quiet, Pending, Computing
  <1>4. WalletInv'
    BY <1>3 DEF SInv, WalletInv, Quiet
  <1>5. QED
    BY <1>1, <1>2, <1>4

\* Calls of AcceptDevice.
LEMMA QuietCalls ==
    ASSUME IInv, NEW a \in Accs, NEW d \in Devices,
           \/ AcceptDevice(a, d)
    PROVE  Quiet
  <1> USE DEF clVars, hdVars, netVars, pairVars, tssVars, dbVars, Quiet,
          Computing, Running, Returned
  <1>0. a \in Conns
    BY DEF Conns
  <1>1. CASE AcceptDevice(a, d)
    BY <1>0, <1>1, StateTypes DEF AcceptDevice
  <1>2. QED
    BY <1>1

\* The steps of both clients.
LEMMA QuietClientSteps ==
    ASSUME IInv, NEW c \in Conns,
           \/ SendPeerId(c)
           \/ ClientPeer(c)
           \/ ClientStart(c)
           \/ ClientReadEnds(c)
           \/ ClientTssFailed(c)
           \/ ClientErrors(c)
           \/ ClientServerDone(c)
           \/ HandlerReads(c)
    PROVE  Quiet
  <1> USE DEF clVars, hdVars, netVars, pairVars, tssVars, dbVars, Quiet,
          Computing, Running, Returned
  <1>1. CASE SendPeerId(c)
    BY <1>1, StateTypes DEF SendPeerId
  <1>2. CASE ClientPeer(c)
    BY <1>2, StateTypes DEF ClientPeer, Receives, Reply
  <1>3. CASE ClientStart(c)
    BY <1>3, StateTypes DEF ClientStart, StartMessage, Receives
  <1>4. CASE ClientReadEnds(c)
    BY <1>4, StateTypes DEF ClientReadEnds, Receives
  <1>5. CASE ClientTssFailed(c)
    BY <1>5, StateTypes
       DEF ClientTssFailed, ClientReturns, Over, FinalClose, Endings
  <1>6. CASE ClientErrors(c)
    BY <1>6, StateTypes
       DEF ClientErrors, ClientReturns, Over, FinalClose, Endings
  <1>7. CASE ClientServerDone(c)
    BY <1>7, StateTypes
       DEF ClientServerDone, ClientReturns, Over, FinalClose, Endings
  <1>8. CASE HandlerReads(c)
    BY <1>8, StateTypes DEF HandlerReads
  <1>9. QED
    BY <1>1, <1>2, <1>3, <1>4, <1>5, <1>6, <1>7, <1>8

\* The steps of the RegisterDevice call and of its handler.
LEMMA QuietRegisterSteps ==
    ASSUME IInv, NEW r \in Regs,
           \/ ClientMetadata(r)
           \/ ClientExistingDeviceDone(r)
           \/ RegisterTssDone(r)
           \/ RegisterDeviceHandler(r)
           \/ PublishChannels(r)
           \/ RegisterPeerSend(r)
           \/ RegisterPeerReceive(r)
           \/ RegisterStoredClient(r)
           \/ RegisterHandlerTssDone(r)
           \/ RegisterHandlerMetadata(r)
           \/ RegisterHandlerFinish(r)
           \/ RegisterDeviceMessageFails(r)
           \/ ServerTssFails(r)
           \/ ServerDone(r)
    PROVE  Quiet
  <1> USE DEF clVars, hdVars, netVars, pairVars, tssVars, dbVars, Quiet,
          Computing, Running, Returned
  <1>0. r \in Conns
    BY DEF Conns
  <1>1. CASE ClientMetadata(r)
    BY <1>0, <1>1, StateTypes DEF ClientMetadata, Receives, Reply
  <1>2. CASE ClientExistingDeviceDone(r)
    BY <1>0, <1>2, StateTypes DEF ClientExistingDeviceDone, Receives
  <1>3. CASE RegisterTssDone(r)
    BY <1>0, <1>3, StateTypes DEF RegisterTssDone
  <1>4. CASE RegisterDeviceHandler(r)
    BY <1>0, <1>4, StateTypes DEF RegisterDeviceHandler
  <1>5. CASE PublishChannels(r)
    BY <1>0, <1>5, StateTypes DEF PublishChannels
  <1>6. CASE RegisterPeerSend(r)
    BY <1>0, <1>6, StateTypes DEF RegisterPeerSend, SendOn
  <1>7. CASE RegisterPeerReceive(r)
    BY <1>0, <1>7, StateTypes DEF RegisterPeerReceive, HandlerReplies
  <1>8. CASE RegisterStoredClient(r)
    BY <1>0, <1>8, StateTypes DEF RegisterStoredClient, SendOn
  <1>9. CASE RegisterHandlerTssDone(r)
    BY <1>0, <1>9, StateTypes
       DEF RegisterHandlerTssDone, HandlerReturns, Over, Endings, FinalClose
  <1>10. CASE RegisterHandlerMetadata(r)
    BY <1>0, <1>10, StateTypes
       DEF RegisterHandlerMetadata, ReceiveOn, HandlerWriteFails,
           HandlerReturns, Over, Endings, FinalClose
  <1>11. CASE RegisterHandlerFinish(r)
    BY <1>0, <1>11, StateTypes
       DEF RegisterHandlerFinish, ReceiveOn, HandlerWriteFails, HandlerReturns,
           Over, Endings, FinalClose
  <1>12. CASE RegisterDeviceMessageFails(r)
    BY <1>0, <1>12, StateTypes DEF RegisterDeviceMessageFails, ReceiveOn
  <1>13. CASE ServerTssFails(r)
    BY <1>0, <1>13, StateTypes DEF ServerTssFails
  <1>14. CASE ServerDone(r)
    BY <1>0, <1>14, StateTypes DEF ServerDone
  <1>15. QED
    BY <1>1, <1>2, <1>3, <1>4, <1>5, <1>6, <1>7, <1>8, <1>9, <1>10, <1>11,
       <1>12, <1>13, <1>14

\* The steps of the AcceptDevice call and of its handler.
LEMMA QuietAcceptSteps ==
    ASSUME IInv, NEW a \in Accs,
           \/ ClientNewDeviceDone(a)
           \/ AcceptTssDone(a)
           \/ AcceptDeviceHandler(a)
           \/ AcceptPeerSend(a)
           \/ AcceptPeerReceive(a)
           \/ AcceptMetadataSend(a)
           \/ AcceptTssDoneMessage(a)
           \/ AcceptExistingDeviceDone(a)
           \/ AcceptHandlerProcess(a)
           \/ AcceptHandlerAddPeerFails(a)
           \/ AcceptHandlerNewDeviceDone(a)
           \/ AcceptHandlerFinish(a)
    PROVE  Quiet
  <1> USE DEF clVars, hdVars, netVars, pairVars, tssVars, dbVars, Quiet,
          Computing, Running, Returned
  <1>0. a \in Conns
    BY DEF Conns
  <1>1. CASE ClientNewDeviceDone(a)
    BY <1>0, <1>1, StateTypes DEF ClientNewDeviceDone, Receives, Reply
  <1>2. CASE AcceptTssDone(a)
    BY <1>0, <1>2, StateTypes DEF AcceptTssDone
  <1>3. CASE AcceptDeviceHandler(a)
    BY <1>0, <1>3, StateTypes DEF AcceptDeviceHandler
  <1>4. CASE AcceptPeerSend(a)
    BY <1>0, <1>4, StateTypes DEF AcceptPeerSend, SendOn
  <1>5. CASE AcceptPeerReceive(a)
    BY <1>0, <1>5, StateTypes DEF AcceptPeerReceive, ReceiveOn, HandlerReplies
  <1>6. CASE AcceptMetadataSend(a)
    BY <1>0, <1>6, StateTypes DEF AcceptMetadataSend, SendOn
  <1>7. CASE AcceptTssDoneMessage(a)
    BY <1>0, <1>7, StateTypes DEF AcceptTssDoneMessage, SendOn
  <1>8. CASE AcceptExistingDeviceDone(a)
    BY <1>0, <1>8, StateTypes DEF AcceptExistingDeviceDone, SendOn
  <1>9. CASE AcceptHandlerProcess(a)
    BY <1>0, <1>9, StateTypes
       DEF AcceptHandlerProcess, HandlerReturns, Over, Endings, FinalClose
  <1>10. CASE AcceptHandlerAddPeerFails(a)
    BY <1>0, <1>10, StateTypes
       DEF AcceptHandlerAddPeerFails, ReceiveOn, HandlerReturns, Over, Endings,
           FinalClose
  <1>11. CASE AcceptHandlerNewDeviceDone(a)
    BY <1>0, <1>11, StateTypes
       DEF AcceptHandlerNewDeviceDone, ReceiveOn, HandlerWriteFails,
           HandlerReturns, Over, Endings, FinalClose
  <1>12. CASE AcceptHandlerFinish(a)
    BY <1>0, <1>12, StateTypes
       DEF AcceptHandlerFinish, HandlerReturns, Over, Endings, FinalClose
  <1>13. QED
    BY <1>1, <1>2, <1>3, <1>4, <1>5, <1>6, <1>7, <1>8, <1>9, <1>10, <1>11, <1>12

\* The devices finish the add-share process.
LEMMA QuietPeersDone ==
    ASSUME IInv, NEW r \in Regs, NEW a \in Accs,
           \/ NewPeerDone(r, a)
           \/ ExistingPeerDone(r, a)
    PROVE  Quiet
  <1> USE DEF clVars, hdVars, netVars, pairVars, tssVars, dbVars, Quiet,
          Computing, Running, Returned
  <1>0. a \in Conns
    BY DEF Conns
  <1>1. CASE NewPeerDone(r, a)
    BY <1>0, <1>1, StateTypes DEF NewPeerDone
  <1>2. CASE ExistingPeerDone(r, a)
    BY <1>0, <1>2, StateTypes DEF ExistingPeerDone
  <1>3. QED
    BY <1>1, <1>2

\* A sender that finds the connection over; the other failures cannot happen.
LEMMA QuietFailures ==
    ASSUME IInv, MaxFaults = 0, NEW c \in Conns, ConnFaults(c)
    PROVE  Quiet
  <1>1. ClientSenderFails(c) \/ HandlerSenderFails(c)
    BY NoFaults
       DEF ConnFaults, DialFails, DeviceTssFails, Drop, ClientReaderFails,
           HandlerReaderFails
  <1>2. QED
    BY <1>1, StateTypes
       DEF ClientSenderFails, HandlerSenderFails, clVars, hdVars, netVars,
           pairVars, tssVars, dbVars, Quiet, Computing, Running

\* A step is quiet or one of the four that create, pass on or use an adder, or
\* start a registration.
LEMMA QuietOr ==
    ASSUME IInv, MaxFaults = 0, [Next]_vars
    PROVE  \/ Quiet
           \/ \E r \in Regs : RegisterDevice(r) \/ RegisterDeviceMessage(r)
           \/ \E a \in Accs : \/ AcceptMetadataReceive(a)
                             \/ AcceptHandlerAddPeer(a)
  <1>1. CASE UNCHANGED vars
    BY <1>1 DEF vars, clVars, hdVars, netVars, pairVars, tssVars, dbVars, Quiet,
       Computing, Running
  <1>2. CASE \E a \in Accs, d \in Devices : AcceptDevice(a, d)
    BY <1>2, QuietCalls
  <1>3. ASSUME NEW c \in Conns,
               ClientSteps(c) \/ HandlerReads(c) \/ ConnFaults(c)
        PROVE  Quiet
    BY <1>3, QuietClientSteps, QuietFailures DEF ClientSteps
  <1>4. ASSUME NEW r \in Regs,
               \/ RegisterSteps(r) \/ RegisterHandlerSteps(r)
               \/ RegisterDeviceMessageFails(r) \/ ServerTssFails(r)
        PROVE  Quiet \/ RegisterDeviceMessage(r)
    BY <1>4, QuietRegisterSteps DEF RegisterSteps, RegisterHandlerSteps
  <1>5. ASSUME NEW r \in Regs, TssSteps(r) PROVE Quiet
    BY <1>5, QuietRegisterSteps, QuietPeersDone DEF TssSteps
  <1>6. ASSUME NEW a \in Accs,
               \/ AcceptSteps(a) \/ AcceptHandlerSteps(a)
               \/ AcceptHandlerAddPeerFails(a)
        PROVE  Quiet \/ AcceptMetadataReceive(a) \/ AcceptHandlerAddPeer(a)
    BY <1>6, QuietAcceptSteps DEF AcceptSteps, AcceptHandlerSteps
  <1>7. ~CacheExpires
    BY NoFaults DEF CacheExpires
  <1>8. QED
    BY <1>1, <1>2, <1>3, <1>4, <1>5, <1>6, <1>7 DEF Next

-----------------------------------------------------------------------------
(* The four other steps.                                                   *)

\* A registration starts only when no other one runs.
LEMMA RegisterDeviceWallet ==
    ASSUME IInv, SInv, OneAtATime, NEW r \in Regs, RegisterDevice(r)
    PROVE  OnceInv' /\ OneInv' /\ WalletInv'
  <1> USE DEF SInv, hdVars, netVars, pairVars, tssVars, dbVars
  <1>1. OnceInv'
    BY StateTypes DEF RegisterDevice, OnceInv, Computing
  <1>2. \A s \in Regs : Running(s)' => s = r
    BY StateTypes DEF RegisterDevice, Running, Returned
  <1>3. WalletInv'
    BY DEF RegisterDevice, WalletInv, Pending, Computing
  <1>4. QED
    BY <1>1, <1>2, <1>3 DEF OneInv

\* The adder is created from the wallet as it is stored.
LEMMA RegisterDeviceMessageWallet ==
    ASSUME IInv, SInv, NEW r \in Regs, RegisterDeviceMessage(r)
    PROVE  OnceInv' /\ OneInv' /\ WalletInv'
  <1> USE DEF SInv, clVars, dbVars
  <1>1. /\ \A a \in Accs : handler'[a] = handler[a]
        /\ UNCHANGED <<client, conn, session, adder, bks, devices>>
    BY StateTypes DEF RegisterDeviceMessage
  <1>2. OnceInv'
    BY <1>1 DEF OnceInv, Computing
  <1>3. OneInv'
    BY <1>1 DEF OneInv, Running
  <1>4. \A s \in Regs : Pending(s)' => s = r \/ Pending(s)
    BY <1>1, StateTypes DEF RegisterDeviceMessage, Pending, Computing
  <1>5. /\ original'[r] = bks
        /\ \A s \in Regs : s # r => original'[s] = original[s]
    BY DEF RegisterDeviceMessage, IInv, TypeOK
  <1>6. WalletInv'
    BY <1>1, <1>4, <1>5 DEF WalletInv
  <1>7. QED
    BY <1>2, <1>3, <1>6

\* The adder goes to one accept handler: it leaves its channel, and there was
\* none before.
LEMMA AcceptMetadataReceiveWallet ==
    ASSUME IInv, SInv, NEW a \in Accs, AcceptMetadataReceive(a)
    PROVE  OnceInv' /\ OneInv' /\ WalletInv'
  <1> USE DEF SInv, clVars, dbVars
  <1> DEFINE r == session[a]
  <1>1. /\ r \in Regs /\ "adderCh" \in chan[r] /\ adder[r] = "off"
        /\ r \notin devices
    BY DEF AcceptMetadataReceive, ReceiveOn, IInv, NewIdInv, TssInv, OnceInv
  <1>2. /\ UNCHANGED <<client, conn, session, bks, devices, original>>
        /\ \A b \in Accs : b # a => handler'[b] = handler[b]
        /\ \A s \in Regs : s # r => adder'[s] = adder[s]
        /\ \A s \in Regs : "adderCh" \in chan'[s] => "adderCh" \in chan[s]
        /\ Computing(a)' => adder'[r] # "off"
        /\ ~Computing(a)
    BY <1>1, StateTypes
       DEF AcceptMetadataReceive, ReceiveOn, Computing
  <1>3. \A b \in Accs : Computing(b) => session[b] # r /\ session[b] \in Regs
    BY <1>1, ComputingServes DEF OnceInv
  <1>4. \A b \in Accs : Computing(b)' => b = a \/ Computing(b)
    BY <1>2 DEF Computing
  <1>5. OnceInv'
    <2>1. \A b \in Accs : Computing(b)' => adder'[session[b]] # "off"
      BY <1>2, <1>3, <1>4 DEF OnceInv
    <2>2. \A b, d \in Accs :
             Computing(b)' /\ Computing(d)' /\ session[b] = session[d] => b = d
      BY <1>3, <1>4 DEF OnceInv
    <2>3. \A s \in Regs : s \in devices =>
             /\ adder'[s] # "off"
             /\ \A b \in Accs : Computing(b)' => session[b] # s
      BY <1>1, <1>2, <1>4 DEF OnceInv
    <2>4. QED
      BY <1>2, <2>1, <2>2, <2>3 DEF OnceInv
  <1>6. OneInv'
    BY <1>2 DEF OneInv, Running
  <1>7. \A s \in Regs : Pending(s)' => Pending(s)
    BY <1>1, <1>2, <1>4 DEF Pending
  <1>8. WalletInv'
    BY <1>2, <1>7 DEF WalletInv
  <1>9. QED
    BY <1>5, <1>6, <1>8

\* AddPeer writes the wallet of the adder, which is the stored one, with the
\* new device; no other registration is pending, and this one is not any more.
LEMMA AddPeerWallet ==
    ASSUME IInv, SInv, NEW a \in Accs, AcceptHandlerAddPeer(a)
    PROVE  OnceInv' /\ OneInv' /\ WalletInv'
  <1> USE DEF SInv, clVars, tssVars
  <1> DEFINE r == session[a]
  <1>1. r \in Regs /\ newId[a] = r /\ Computing(a) /\ adder[r] = "done"
    BY DEF AcceptHandlerAddPeer, IInv, NewIdInv, TssInv, Computing
  <1>2. /\ UNCHANGED <<client, session, adder, original>>
        /\ bks' = original[r] \cup {existing[r], r}
        /\ devices' = devices \cup {r}
        /\ \A b \in Accs : b # a => handler'[b] = handler[b]
        /\ ~Computing(a)'
        /\ \A s \in Regs : "adderCh" \in chan'[s] => "adderCh" \in chan[s]
        /\ \A c \in Conns : conn[c] = "none" => conn'[c] = "none"
    BY <1>1, StateTypes
       DEF AcceptHandlerAddPeer, AddPeer, MergedBKs, ReceiveOn, HandlerReturns,
           Over, Computing
  <1>3. \A b \in Accs : Computing(b)' => b # a /\ Computing(b)
    BY <1>2 DEF Computing
  <1>4. OnceInv'
    <2>1. \A b \in Accs : Computing(b)' => session[b] # r
      BY <1>1, <1>3 DEF OnceInv
    <2>2. QED
      BY <1>1, <1>2, <1>3, <2>1, ConstantsAssumption DEF OnceInv, Devices
  <1>5. OneInv'
    BY <1>2 DEF OneInv, Running
  <1>6. Pending(r) /\ bks' = bks \cup {existing[r], r}
    BY <1>1, <1>2 DEF Pending, WalletInv
  <1>7. \A s \in Regs : ~Pending(s)'
    <2> SUFFICES ASSUME NEW s \in Regs, Pending(s)' PROVE FALSE
      OBVIOUS
    <2>1. Pending(s)
      BY <1>2, <1>3 DEF Pending
    <2>2. s = r
      BY <1>1, <1>6, <2>1, PendingRuns DEF OneInv
    <2>3. "adderCh" \notin chan[r]
      BY <1>1 DEF IInv, TssInv
    <2>4. QED
      BY <1>1, <1>2, <1>3, <2>2, <2>3 DEF Pending, OnceInv
  <1>8. WalletInv'
    BY <1>2, <1>6, <1>7 DEF WalletInv
  <1>9. QED
    BY <1>4, <1>5, <1>8

-----------------------------------------------------------------------------
(* Without failures a registration that is not stored stays healthy.       *)

Spares ==
    /\ devices \subseteq devices'
    /\ \A r \in Regs : /\ tss'[r] = "failed" => tss[r] = "failed"
                       /\ r \notin devices /\ Healthy(r) => Healthy(r)'

LEMMA SparesKeeps ==
    ASSUME HealthyInv, Spares
    PROVE  HealthyInv'
  BY DEF HealthyInv, Spares

\* A connection in use is open, if it is healthy.
LEMMA HealthyOpen ==
    ASSUME IInv, NEW r \in Regs, Healthy(r),
           \/ client[r] \notin {"idle", "dial", "err"} \/ handler[r] # "none"
           \/ hdReader[r] # "off" \/ r \in clDone \/ conn[r] # "none"
           \/ \E m \in Msgs : In(m, up[r]) \/ In(m, down[r])
    PROVE  conn[r] = "open"
  BY StateTypes DEF IInv, FreshInv, Healthy

\* Messages that are no endings, and endings on other connections, spare it.
Unended(q, qq, r) ==
    (\A m \in Endings : ~In(m, q[r])) => (\A m \in Endings : ~In(m, qq[r]))

LEMMA AddsUnended ==
    ASSUME NEW q, NEW qq, NEW c \in Conns, NEW S, AddsOnly(q, qq, c, S),
           NEW r \in Regs, r # c \/ S \cap Endings = {}
    PROVE  Unended(q, qq, r)
  BY ConnsSplit, EndingsAreMsgs DEF AddsOnly, Adds, Unended

\* Replies are written without error on an open connection.
LEMMA ReplySpares ==
    ASSUME TypeOK, NEW c \in Conns, NEW m \in MsgTypes, NEW done,
           Reply(c, m, done), NEW r \in Regs, r # c \/ conn[r] = "open"
    PROVE  clErrs'[r] = clErrs[r]
  BY ConnsSplit DEF Reply, WriteResults, TypeOK

LEMMA HandlerRepliesSpares ==
    ASSUME TypeOK, NEW c \in Conns, NEW m \in MsgTypes,
           HandlerReplies(c, m), NEW r \in Regs, r # c \/ conn[r] = "open"
    PROVE  hdErrs'[r] = hdErrs[r]
  BY ConnsSplit DEF HandlerReplies, WriteResults, TypeOK

\* The message types that are written are no endings.
LEMMA NoEndings == MsgTypes \cap Endings = {}
  BY MsgTypesAre DEF Endings

\* The end of another connection.
LEMMA OverSpares ==
    ASSUME TypeOK, NEW c \in Conns, conn' = Over(c), NEW r \in Regs, r # c
    PROVE  conn'[r] = conn[r]
  BY ConnsSplit DEF TypeOK, Over

\* The steps both clients take, and the readers of the handlers.
LEMMA ClientStepsSpare ==
    ASSUME IInv, HealthyInv, NEW c \in Conns,
           \/ SendPeerId(c)
           \/ ClientPeer(c)
           \/ ClientStart(c)
           \/ ClientReadEnds(c)
           \/ ClientTssFailed(c)
           \/ ClientErrors(c)
           \/ ClientServerDone(c)
           \/ HandlerReads(c)
    PROVE  Spares
  <1> USE DEF clVars, hdVars, netVars, pairVars, tssVars, dbVars
  <1>1. CASE SendPeerId(c)
    <2>1. AddsOnly(up, up', c, {"peer"})
      BY <1>1, SentEffect, MsgTypesAre DEF SendPeerId, IInv
    <2>2. \A r \in Regs : Unended(up, up', r)
      BY <2>1, AddsUnended, NoEndings, MsgTypesAre
    <2>3. ASSUME NEW r \in Regs, Healthy(r) PROVE client'[r] \notin Returned
      <3>1. r = c => conn[r] = "open"
        BY <1>1, <2>3, HealthyOpen DEF SendPeerId
      <3>2. QED
        BY <1>1, <2>3, <3>1, StateTypes
           DEF SendPeerId, WriteResults, Healthy, Returned
    <2>4. QED
      BY <1>1, <2>2, <2>3 DEF SendPeerId, Spares, Healthy, Unended
  <1>2. CASE ClientPeer(c)
    <2>1. AddsOnly(down, down', c, {}) /\ In("peer", down[c])
      BY <1>2, ReceivesEffect, EndingsAreMsgs, MsgTypesAre DEF ClientPeer, IInv
    <2>2. PICK m \in MsgTypes : Reply(c, m, {})
      <3>1. (IF c \in Regs THEN "device" ELSE "metadata") \in MsgTypes
        BY MsgTypesAre
      <3>2. QED
        BY <1>2, <3>1 DEF ClientPeer
    <2>3. AddsOnly(up, up', c, {m})
      BY <2>2, ReplyEffect DEF IInv
    <2>4. \A r \in Regs : Unended(up, up', r) /\ Unended(down, down', r)
      BY <2>1, <2>3, AddsUnended, NoEndings
    <2>5. ASSUME NEW r \in Regs, Healthy(r) PROVE clErrs'[r] = clErrs[r]
      <3>1. r = c => conn[r] = "open"
        BY <2>1, <2>5, HealthyOpen, EndingsAreMsgs, MsgTypesAre
      <3>2. QED
        BY <2>2, <3>1, ReplySpares DEF IInv
    <2>6. QED
      BY <1>2, <2>4, <2>5 DEF ClientPeer, Spares, Healthy, Unended
  <1>3. CASE ClientStart(c)
    <2>1. AddsOnly(down, down', c, {})
      BY <1>3, ReceivesEffect, EndingsAreMsgs, MsgTypesAre DEF ClientStart, StartMessage, IInv
    <2>2. \A r \in Regs : Unended(down, down', r)
      BY <2>1, AddsUnended
    <2>3. QED
      BY <1>3, <2>2, StateTypes
         DEF ClientStart, StartMessage, Spares, Healthy, Unended, Returned
  <1>4. CASE ClientReadEnds(c)
    <2>1. AddsOnly(down, down', c, {}) /\ \E m \in Endings : In(m, down[c])
      BY <1>4, ReceivesEffect, EndingsAreMsgs DEF ClientReadEnds, IInv
    <2>2. \A r \in Regs : Unended(down, down', r)
      BY <2>1, AddsUnended
    <2>3. \A r \in Regs : Healthy(r) => clErrs'[r] = clErrs[r]
      BY <1>4, <2>1 DEF ClientReadEnds, Healthy, IInv, TypeOK
    <2>4. QED
      BY <1>4, <2>2, <2>3 DEF ClientReadEnds, Spares, Healthy, Unended
  <1>5. CASE ClientTssFailed(c)
    <2>1. c \notin Regs
      BY <1>5 DEF ClientTssFailed, HealthyInv
    <2>2. CASE Cardinality(clErrs[c]) = 2
      BY <1>5, <2>1, <2>2, StateTypes
         DEF ClientTssFailed, Spares, Healthy, Returned
    <2>3. CASE Cardinality(clErrs[c]) # 2
      <3>1. /\ AddsOnly(up, up', c, Endings) /\ conn' = Over(c)
            /\ client' = [client EXCEPT ![c] = "nil"]
        BY <1>5, <2>3, ClientReturnsEffect
           DEF ClientTssFailed, IInv, Returned, Endings,
           ClientReturns
      <3>2. \A r \in Regs : Unended(up, up', r) /\ conn'[r] = conn[r]
        BY <2>1, <3>1, AddsUnended, OverSpares DEF IInv
      <3>3. QED
        BY <1>5, <2>1, <3>1, <3>2, StateTypes
           DEF ClientTssFailed, Spares, Healthy, Unended
    <2>4. QED
      BY <2>2, <2>3
  <1>6. CASE ClientErrors(c)
    <2>1. \A r \in Regs : r = c => r \in devices \/ ~Healthy(r)
      BY <1>6 DEF ClientErrors, Healthy
    <2>2. /\ AddsOnly(up, up', c, Endings) /\ conn' = Over(c)
          /\ client' = [client EXCEPT ![c] = "err"]
      BY <1>6, ClientReturnsEffect
         DEF ClientErrors, IInv, Returned, Endings, FinalClose,
         ClientReturns
    <2>3. \A r \in Regs : r # c => Unended(up, up', r) /\ conn'[r] = conn[r]
      BY <2>2, AddsUnended, OverSpares DEF IInv
    <2>4. QED
      BY <1>6, <2>1, <2>2, <2>3, StateTypes
         DEF ClientErrors, Spares, Healthy, Unended
  <1>7. CASE ClientServerDone(c)
    <2>1. \A r \in Regs : r = c => r \in devices \/ ~Healthy(r)
      BY <1>7 DEF ClientServerDone, IInv, ChainInv, Confirmed
    <2>2. /\ AddsOnly(up, up', c, Endings) /\ conn' = Over(c)
          /\ client' = [client EXCEPT ![c] = "ok"]
      BY <1>7, ClientReturnsEffect
         DEF ClientServerDone, IInv, Returned, Endings, FinalClose,
         ClientReturns
    <2>3. \A r \in Regs : r # c => Unended(up, up', r) /\ conn'[r] = conn[r]
      BY <2>2, AddsUnended, OverSpares DEF IInv
    <2>4. QED
      BY <1>7, <2>1, <2>2, <2>3, StateTypes
         DEF ClientServerDone, Spares, Healthy, Unended
  <1>8. CASE HandlerReads(c)
    <2>1. AddsOnly(up, up', c, {}) /\ up[c] # <<>>
      BY <1>8, HandlerReadsEffect DEF HandlerReads, IInv
    <2>2. \A r \in Regs : Unended(up, up', r)
      BY <2>1, AddsUnended
    <2>3. In(Head(up[c]), up[c]) /\ Head(up[c]) \in Msgs
      BY <2>1, TypedQueues, TailAdds DEF IInv, QueueType
    <2>4. \A r \in Regs : Healthy(r) => hdErrs'[r] = hdErrs[r]
      BY <1>8, <2>3 DEF HandlerReads, Healthy, Endings, IInv, TypeOK
    <2>5. QED
      BY <1>8, <2>2, <2>4 DEF HandlerReads, Spares, Healthy, Unended
  <1>9. QED
    BY <1>1, <1>2, <1>3, <1>4, <1>5, <1>6, <1>7, <1>8

\* A sender that finds the connection over; the other failures cannot happen.
LEMMA FailuresSpare ==
    ASSUME IInv, HealthyInv, NEW c \in Conns,
           \/ ClientSenderFails(c)
           \/ HandlerSenderFails(c)
    PROVE  Spares
  <1> USE DEF clVars, hdVars, netVars, pairVars, tssVars, dbVars
  <1>1. CASE ClientSenderFails(c)
    <2>1. \A r \in Regs : Healthy(r) => r # c
      BY <1>1 DEF ClientSenderFails, Healthy
    <2>2. QED
      BY <1>1, <2>1 DEF ClientSenderFails, Spares, Healthy, IInv, TypeOK
  <1>2. CASE HandlerSenderFails(c)
    <2>1. \A r \in Regs : Healthy(r) => r # c
      BY <1>2 DEF HandlerSenderFails, Healthy
    <2>2. QED
      BY <1>2, <2>1 DEF HandlerSenderFails, Spares, Healthy, IInv, TypeOK
  <1>3. QED
    BY <1>1, <1>2

\* A failed write of a handler spares the other connections.
LEMMA HandlerWriteFailsSpares ==
    ASSUME IInv, NEW c \in Conns, HandlerWriteFails(c), NEW s \in Regs, s # c
    PROVE  Unended(down, down', s) /\ conn'[s] = conn[s]
  <1>1. CASE HandlerReturns(c, <<>>, "broken")
    BY <1>1, HandlerReturnsEffect, AddsUnended, OverSpares
       DEF IInv, Endings, HandlerReturns
  <1>2. CASE UNCHANGED <<down, conn>>
    BY <1>2 DEF Unended
  <1>3. QED
    BY <1>1, <1>2 DEF HandlerWriteFails

\* The steps of the RegisterDevice call and of its handler.
LEMMA RegisterStepsSpare ==
    ASSUME IInv, HealthyInv, MaxFaults = 0, NEW r \in Regs,
           \/ RegisterDevice(r)
           \/ ClientMetadata(r)
           \/ ClientExistingDeviceDone(r)
           \/ RegisterTssDone(r)
           \/ RegisterDeviceHandler(r)
           \/ PublishChannels(r)
           \/ RegisterPeerSend(r)
           \/ RegisterPeerReceive(r)
           \/ RegisterDeviceMessage(r)
           \/ RegisterStoredClient(r)
           \/ RegisterHandlerTssDone(r)
           \/ RegisterHandlerMetadata(r)
           \/ RegisterHandlerFinish(r)
           \/ RegisterDeviceMessageFails(r)
           \/ ServerTssFails(r)
           \/ ServerDone(r)
    PROVE  Spares
  <1> USE DEF clVars, hdVars, netVars, pairVars, tssVars, dbVars
  <1>0. r \in Conns
    BY DEF Conns
  <1>1. CASE RegisterDevice(r)
    BY <1>0, <1>1, StateTypes DEF RegisterDevice, Spares, Healthy, Returned
  <1>2. CASE ClientMetadata(r)
    <2>1. AddsOnly(down, down', r, {}) /\ In("metadata", down[r])
      BY <1>0, <1>2, ReceivesEffect, EndingsAreMsgs, MsgTypesAre
         DEF ClientMetadata, IInv
    <2>2. AddsOnly(up, up', r, {"storedClient"}) /\ "storedClient" \in MsgTypes
      BY <1>0, <1>2, ReplyEffect, MsgTypesAre, ConnsSplit
         DEF ClientMetadata, IInv
    <2>3. \A s \in Regs : Unended(up, up', s) /\ Unended(down, down', s)
      BY <1>0, <2>1, <2>2, AddsUnended, NoEndings
    <2>4. ASSUME NEW s \in Regs, Healthy(s) PROVE clErrs'[s] = clErrs[s]
      <3>1. s = r => conn[s] = "open"
        BY <2>1, <2>4, HealthyOpen, EndingsAreMsgs, MsgTypesAre
      <3>2. QED
        BY <1>0, <1>2, <2>2, <3>1, ReplySpares DEF ClientMetadata, IInv
    <2>5. QED
      BY <1>0, <1>2, <2>3, <2>4 DEF ClientMetadata, Spares, Healthy, Unended
  <1>3. CASE ClientExistingDeviceDone(r)
    <2>1. AddsOnly(down, down', r, {})
      BY <1>0, <1>3, ReceivesEffect, EndingsAreMsgs, MsgTypesAre
         DEF ClientExistingDeviceDone, IInv
    <2>2. \A s \in Regs : Unended(down, down', s)
      BY <1>0, <2>1, AddsUnended
    <2>3. QED
      BY <1>0, <1>3, <2>2, StateTypes
         DEF ClientExistingDeviceDone, Spares, Healthy, Unended, Returned
  <1>4. CASE RegisterTssDone(r)
    BY <1>0, <1>4, StateTypes DEF RegisterTssDone, Spares, Healthy, Returned
  <1>5. CASE RegisterDeviceHandler(r)
    BY <1>0, <1>5, StateTypes DEF RegisterDeviceHandler, Spares, Healthy
  <1>6. CASE PublishChannels(r)
    BY <1>0, <1>6, StateTypes DEF PublishChannels, Spares, Healthy
  <1>7. CASE RegisterPeerSend(r)
    BY <1>0, <1>7, StateTypes DEF RegisterPeerSend, Spares, Healthy
  <1>8. CASE RegisterPeerReceive(r)
    <2>1. AddsOnly(down, down', r, {"peer"})
      BY <1>0, <1>8, HandlerRepliesEffect, MsgTypesAre
         DEF RegisterPeerReceive, IInv
    <2>2. \A s \in Regs : Unended(down, down', s)
      BY <1>0, <2>1, AddsUnended, NoEndings, MsgTypesAre
    <2>3. ASSUME NEW s \in Regs, Healthy(s) PROVE hdErrs'[s] = hdErrs[s]
      <3>1. s = r => conn[s] = "open"
        BY <1>8, <2>3, HealthyOpen DEF RegisterPeerReceive
      <3>2. QED
        BY <1>0, <1>8, <3>1, HandlerRepliesSpares, MsgTypesAre
           DEF RegisterPeerReceive, IInv
    <2>4. QED
      BY <1>0, <1>8, <2>2, <2>3
         DEF RegisterPeerReceive, Spares, Healthy, Unended
  <1>9. CASE RegisterDeviceMessage(r)
    <2>1. AddsOnly(down, down', r, {"pubkey"})
      BY <1>0, <1>9, HandlerRepliesEffect, MsgTypesAre
         DEF RegisterDeviceMessage, IInv
    <2>2. \A s \in Regs : Unended(down, down', s)
      BY <1>0, <2>1, AddsUnended, NoEndings, MsgTypesAre
    <2>3. ASSUME NEW s \in Regs, Healthy(s) PROVE hdErrs'[s] = hdErrs[s]
      <3>1. s = r => conn[s] = "open"
        BY <1>9, <2>3, HealthyOpen DEF RegisterDeviceMessage
      <3>2. QED
        BY <1>0, <1>9, <3>1, HandlerRepliesSpares, MsgTypesAre
           DEF RegisterDeviceMessage, IInv
    <2>4. QED
      BY <1>0, <1>9, <2>2, <2>3
         DEF RegisterDeviceMessage, Spares, Healthy, Unended
  <1>10. CASE RegisterStoredClient(r)
    BY <1>0, <1>10, StateTypes DEF RegisterStoredClient, Spares, Healthy
  <1>11. CASE RegisterHandlerTssDone(r)
    <2>1. Healthy(r) => UNCHANGED <<down, conn>>
      BY <1>11 DEF RegisterHandlerTssDone, Healthy
    <2>2. \A s \in Regs : s # r => Unended(down, down', s) /\ conn'[s] = conn[s]
      <3>1. CASE UNCHANGED <<down, conn>>
        BY <3>1 DEF Unended
      <3>2. CASE HandlerReturns(r, <<>>, "broken")
        BY <1>0, <3>2, HandlerReturnsEffect, AddsUnended, OverSpares
           DEF IInv, Endings, HandlerReturns
      <3>3. QED
        BY <1>11, <3>1, <3>2 DEF RegisterHandlerTssDone
    <2>3. QED
      BY <1>11, <2>1, <2>2 DEF RegisterHandlerTssDone, Spares, Healthy, Unended
  <1>12. CASE RegisterHandlerMetadata(r)
    <2>1. AddsOnly(down, Sent(down, r, "metadata"), r, {"metadata"})
      BY <1>0, SentAdds, TypedQueues, InvariantMsgs DEF IInv
    <2>2. \A s \in Regs : Unended(down, Sent(down, r, "metadata"), s)
      BY <1>0, <2>1, AddsUnended, NoEndings, MsgTypesAre
    <2>3. \/ down' = Sent(down, r, "metadata") /\ UNCHANGED conn
          \/ conn[r] # "open" /\ HandlerWriteFails(r)
      BY <1>12 DEF RegisterHandlerMetadata, WriteResults
    <2>4. Healthy(r) => conn[r] = "open"
      BY <1>12, HealthyOpen DEF RegisterHandlerMetadata
    <2>5. ASSUME NEW s \in Regs, Healthy(s)
          PROVE  Unended(down, down', s) /\ conn'[s] = conn[s]
      <3>1. CASE s # r /\ HandlerWriteFails(r)
        BY <1>0, <3>1, HandlerWriteFailsSpares
      <3>2. QED
        BY <2>2, <2>3, <2>4, <2>5, <3>1
    <2>6. QED
      BY <1>12, <2>5 DEF RegisterHandlerMetadata, Spares, Healthy, Unended
  <1>13. CASE RegisterHandlerFinish(r)
    <2>1. r \in devices
      BY <1>13 DEF RegisterHandlerFinish, ReceiveOn, IInv, ChainInv, Confirmed
    <2>2. \A s \in Regs : s # r => Unended(down, down', s) /\ conn'[s] = conn[s]
      <3>1. ASSUME NEW e \in Endings,
                   HandlerReturns(r, <<"existingDeviceDone">>, e),
                   NEW s \in Regs, s # r
            PROVE  Unended(down, down', s) /\ conn'[s] = conn[s]
        BY <1>0, <3>1, HandlerReturnsEffect, AddsUnended, OverSpares
           DEF IInv, HandlerReturns
      <3>2. QED
        BY <1>0, <1>13, <3>1, HandlerWriteFailsSpares
           DEF RegisterHandlerFinish, FinalClose
    <2>3. QED
      BY <1>13, <2>1, <2>2 DEF RegisterHandlerFinish, Spares, Healthy, Unended
  <1>14. CASE RegisterDeviceMessageFails(r)
    BY <1>0, <1>14, StateTypes DEF RegisterDeviceMessageFails, Spares, Healthy
  <1>15. CASE ServerTssFails(r)
    BY <1>15, NoFaults DEF ServerTssFails
  <1>16. CASE ServerDone(r)
    BY <1>0, <1>16, StateTypes DEF ServerDone, Spares, Healthy
  <1>17. QED
    BY <1>1, <1>2, <1>3, <1>4, <1>5, <1>6, <1>7, <1>8, <1>9, <1>10, <1>11,
       <1>12, <1>13, <1>14, <1>15, <1>16

\* The steps of the AcceptDevice call and of its handler.
LEMMA AcceptStepsSpare ==
    ASSUME IInv, HealthyInv, NEW a \in Accs,
           \/ ClientNewDeviceDone(a)
           \/ AcceptTssDone(a)
           \/ AcceptDeviceHandler(a)
           \/ AcceptPeerSend(a)
           \/ AcceptPeerReceive(a)
           \/ AcceptMetadataSend(a)
           \/ AcceptMetadataReceive(a)
           \/ AcceptTssDoneMessage(a)
           \/ AcceptExistingDeviceDone(a)
           \/ AcceptHandlerProcess(a)
           \/ AcceptHandlerAddPeer(a)
           \/ AcceptHandlerAddPeerFails(a)
           \/ AcceptHandlerNewDeviceDone(a)
           \/ AcceptHandlerFinish(a)
    PROVE  Spares
  <1> USE DEF clVars, hdVars, netVars, pairVars, tssVars, dbVars
  <1>0. a \in Conns
    BY DEF Conns
  <1>1. CASE ClientNewDeviceDone(a)
    <2>1. AddsOnly(down, down', a, {}) /\ In("newDeviceDone", down[a])
      BY <1>0, <1>1, ReceivesEffect, EndingsAreMsgs, MsgTypesAre
         DEF ClientNewDeviceDone, IInv
    <2>2. /\ AddsOnly(up, up', a, {"existingDeviceDone"})
          /\ "existingDeviceDone" \in MsgTypes
      BY <1>0, <1>1, ReplyEffect, MsgTypesAre, ConnsSplit
         DEF ClientNewDeviceDone, IInv
    <2>3. \A r \in Regs : Unended(up, up', r) /\ Unended(down, down', r)
      BY <1>0, <2>1, <2>2, AddsUnended, NoEndings
    <2>4. ASSUME NEW r \in Regs, Healthy(r) PROVE clErrs'[r] = clErrs[r]
      <3>1. r = a => conn[r] = "open"
        BY <2>1, <2>4, HealthyOpen, EndingsAreMsgs, MsgTypesAre
      <3>2. QED
        BY <1>0, <1>1, <2>2, <3>1, ReplySpares DEF ClientNewDeviceDone, IInv
    <2>5. QED
      BY <1>0, <1>1, <2>3, <2>4
         DEF ClientNewDeviceDone, Spares, Healthy, Unended
  <1>2. CASE AcceptTssDone(a)
    <2>1. AddsOnly(up, up', a, {"tssDone"})
      BY <1>0, <1>2, SentEffect, MsgTypesAre DEF AcceptTssDone, IInv
    <2>2. \A r \in Regs : Unended(up, up', r)
      BY <1>0, <2>1, AddsUnended, NoEndings, MsgTypesAre
    <2>3. ASSUME NEW r \in Regs, Healthy(r) PROVE client'[r] \notin Returned
      <3>1. r = a => conn[r] = "open"
        BY <1>0, <1>2, <2>3, HealthyOpen DEF AcceptTssDone
      <3>2. QED
        BY <1>0, <1>2, <2>3, <3>1, StateTypes
           DEF AcceptTssDone, WriteResults, Healthy, Returned
    <2>4. QED
      BY <1>0, <1>2, <2>2, <2>3 DEF AcceptTssDone, Spares, Healthy, Unended
  <1>3. CASE AcceptDeviceHandler(a)
    BY <1>0, <1>3, StateTypes DEF AcceptDeviceHandler, Spares, Healthy
  <1>4. CASE AcceptPeerSend(a)
    BY <1>0, <1>4, StateTypes DEF AcceptPeerSend, Spares, Healthy
  <1>5. CASE AcceptPeerReceive(a)
    <2>1. AddsOnly(down, down', a, {"peer"})
      BY <1>0, <1>5, HandlerRepliesEffect, MsgTypesAre
         DEF AcceptPeerReceive, IInv
    <2>2. \A r \in Regs : Unended(down, down', r)
      BY <1>0, <2>1, AddsUnended, NoEndings, MsgTypesAre
    <2>3. ASSUME NEW r \in Regs, Healthy(r) PROVE hdErrs'[r] = hdErrs[r]
      <3>1. r = a => conn[r] = "open"
        BY <1>5, <2>3, HealthyOpen DEF AcceptPeerReceive
      <3>2. QED
        BY <1>0, <1>5, <3>1, HandlerRepliesSpares, MsgTypesAre
           DEF AcceptPeerReceive, IInv
    <2>4. QED
      BY <1>0, <1>5, <2>2, <2>3 DEF AcceptPeerReceive, Spares, Healthy, Unended
  <1>6. CASE AcceptMetadataSend(a)
    BY <1>0, <1>6, StateTypes DEF AcceptMetadataSend, Spares, Healthy
  <1>7. CASE AcceptMetadataReceive(a)
    <2>1. AddsOnly(down, down', a, {"metadataAck"})
      BY <1>0, <1>7, HandlerRepliesEffect, MsgTypesAre
         DEF AcceptMetadataReceive, IInv
    <2>2. \A r \in Regs : Unended(down, down', r)
      BY <1>0, <2>1, AddsUnended, NoEndings, MsgTypesAre
    <2>3. ASSUME NEW r \in Regs, Healthy(r) PROVE hdErrs'[r] = hdErrs[r]
      <3>1. r = a => conn[r] = "open"
        BY <1>7, <2>3, HealthyOpen DEF AcceptMetadataReceive
      <3>2. QED
        BY <1>0, <1>7, <3>1, HandlerRepliesSpares, MsgTypesAre
           DEF AcceptMetadataReceive, IInv
    <2>4. QED
      BY <1>0, <1>7, <2>2, <2>3
         DEF AcceptMetadataReceive, Spares, Healthy, Unended
  <1>8. CASE AcceptTssDoneMessage(a)
    BY <1>0, <1>8, StateTypes DEF AcceptTssDoneMessage, Spares, Healthy
  <1>9. CASE AcceptExistingDeviceDone(a)
    BY <1>0, <1>9, StateTypes DEF AcceptExistingDeviceDone, Spares, Healthy
  <1>10. CASE AcceptHandlerProcess(a)
    <2>1. \A r \in Regs : Unended(down, down', r) /\ conn'[r] = conn[r]
      <3>1. CASE UNCHANGED <<down, conn>>
        BY <3>1 DEF Unended
      <3>2. ASSUME NEW e \in Endings, HandlerReturns(a, <<>>, e)
            PROVE  \A r \in Regs : Unended(down, down', r) /\ conn'[r] = conn[r]
        BY <1>0, <3>2, ConnsSplit, HandlerReturnsEffect, AddsUnended, OverSpares
           DEF IInv, HandlerReturns
      <3>3. QED
        BY <1>10, <3>1, <3>2 DEF AcceptHandlerProcess, Endings, FinalClose
    <2>2. QED
      BY <1>10, <2>1 DEF AcceptHandlerProcess, Spares, Healthy, Unended
  <1>11. CASE AcceptHandlerAddPeer(a)
    <2>1. \A r \in Regs : Unended(down, down', r) /\ conn'[r] = conn[r]
      <3>1. CASE UNCHANGED <<down, conn>>
        BY <3>1 DEF Unended
      <3>2. ASSUME NEW e \in Endings, HandlerReturns(a, <<>>, e)
            PROVE  \A r \in Regs : Unended(down, down', r) /\ conn'[r] = conn[r]
        BY <1>0, <3>2, ConnsSplit, HandlerReturnsEffect, AddsUnended, OverSpares
           DEF IInv, HandlerReturns
      <3>3. QED
        BY <1>11, <3>1, <3>2 DEF AcceptHandlerAddPeer, Endings, FinalClose
    <2>2. QED
      BY <1>11, <2>1 DEF AcceptHandlerAddPeer, Spares, Healthy, Unended, AddPeer
  <1>12. CASE AcceptHandlerAddPeerFails(a)
    <2>1. \A r \in Regs : Unended(down, down', r) /\ conn'[r] = conn[r]
      <3>1. CASE UNCHANGED <<down, conn>>
        BY <3>1 DEF Unended
      <3>2. ASSUME NEW e \in Endings, HandlerReturns(a, <<>>, e)
            PROVE  \A r \in Regs : Unended(down, down', r) /\ conn'[r] = conn[r]
        BY <1>0, <3>2, ConnsSplit, HandlerReturnsEffect, AddsUnended, OverSpares
           DEF IInv, HandlerReturns
      <3>3. QED
        BY <1>12, <3>1, <3>2 DEF AcceptHandlerAddPeerFails, Endings, FinalClose
    <2>2. QED
      BY <1>12, <2>1 DEF AcceptHandlerAddPeerFails, Spares, Healthy, Unended
  <1>13. CASE AcceptHandlerNewDeviceDone(a)
    <2>1. AddsOnly(down, Sent(down, a, "newDeviceDone"), a, {"newDeviceDone"})
      BY <1>0, SentAdds, TypedQueues, InvariantMsgs DEF IInv
    <2>2. \A r \in Regs : Unended(down, Sent(down, a, "newDeviceDone"), r)
      BY <1>0, <2>1, AddsUnended, NoEndings, MsgTypesAre
    <2>3. ASSUME NEW r \in Regs
          PROVE  Unended(down, down', r) /\ conn'[r] = conn[r]
      <3>1. CASE HandlerWriteFails(a)
        BY <1>0, <3>1, ConnsSplit, HandlerWriteFailsSpares
      <3>2. QED
        BY <1>13, <2>2, <3>1 DEF AcceptHandlerNewDeviceDone
    <2>4. QED
      BY <1>13, <2>3 DEF AcceptHandlerNewDeviceDone, Spares, Healthy, Unended
  <1>14. CASE AcceptHandlerFinish(a)
    <2>1. \A r \in Regs : Unended(down, down', r) /\ conn'[r] = conn[r]
      <3>1. CASE UNCHANGED <<down, conn>>
        BY <3>1 DEF Unended
      <3>2. ASSUME NEW e \in Endings, HandlerReturns(a, <<>>, e)
            PROVE  \A r \in Regs : Unended(down, down', r) /\ conn'[r] = conn[r]
        BY <1>0, <3>2, ConnsSplit, HandlerReturnsEffect, AddsUnended, OverSpares
           DEF IInv, HandlerReturns
      <3>3. QED
        BY <1>14, <3>1, <3>2 DEF AcceptHandlerFinish, Endings, FinalClose
    <2>2. QED
      BY <1>14, <2>1 DEF AcceptHandlerFinish, Spares, Healthy, Unended
  <1>15. QED
    BY <1>1, <1>2, <1>3, <1>4, <1>5, <1>6, <1>7, <1>8, <1>9, <1>10, <1>11,
       <1>12, <1>13, <1>14

\* The application calls AcceptDevice.
LEMMA AcceptDeviceSpares ==
    ASSUME IInv, NEW a \in Accs, NEW d \in Devices, AcceptDevice(a, d)
    PROVE  Spares
  BY StateTypes
     DEF AcceptDevice, Spares, Healthy, Returned, clVars, hdVars, netVars,
         tssVars, dbVars

\* The devices finish the add-share process.
LEMMA PeersDoneSpare ==
    ASSUME IInv, NEW r \in Regs, NEW a \in Accs,
           NewPeerDone(r, a) \/ ExistingPeerDone(r, a)
    PROVE  Spares
  BY StateTypes
     DEF NewPeerDone, ExistingPeerDone, Spares, Healthy, clVars, hdVars, netVars,
         tssVars, dbVars

\* No step ends a registration that is not stored.
LEMMA NextSpares ==
    ASSUME IInv, HealthyInv, MaxFaults = 0, [Next]_vars
    PROVE  Spares
  <1>1. CASE UNCHANGED vars
    BY <1>1
       DEF vars, clVars, hdVars, netVars, pairVars, tssVars, dbVars, Spares,
       Healthy
  <1>2. ASSUME NEW a \in Accs, NEW d \in Devices, AcceptDevice(a, d)
        PROVE  Spares
    BY <1>2, AcceptDeviceSpares
  <1>3. ASSUME NEW c \in Conns, ClientSteps(c) \/ HandlerReads(c) PROVE Spares
    BY <1>3, ClientStepsSpare DEF ClientSteps
  <1>4. ASSUME NEW c \in Conns, ConnFaults(c) PROVE Spares
    BY <1>4, FailuresSpare, NoFaults
       DEF ConnFaults, DialFails, DeviceTssFails, Drop, ClientReaderFails,
           HandlerReaderFails
  <1>5. ASSUME NEW r \in Regs,
               \/ RegisterDevice(r) \/ RegisterSteps(r) \/ RegisterHandlerSteps(r)
               \/ RegisterDeviceMessageFails(r) \/ ServerTssFails(r)
        PROVE  Spares
    BY <1>5, RegisterStepsSpare DEF RegisterSteps, RegisterHandlerSteps
  <1>6. ASSUME NEW r \in Regs, TssSteps(r) PROVE Spares
    BY <1>6, RegisterStepsSpare, PeersDoneSpare DEF TssSteps
  <1>7. ASSUME NEW a \in Accs,
               \/ AcceptSteps(a) \/ AcceptHandlerSteps(a)
               \/ AcceptHandlerAddPeerFails(a)
        PROVE  Spares
    BY <1>7, AcceptStepsSpare DEF AcceptSteps, AcceptHandlerSteps
  <1>8. ~CacheExpires
    BY NoFaults DEF CacheExpires
  <1>9. QED
    BY <1>1, <1>2, <1>3, <1>4, <1>5, <1>6, <1>7, <1>8 DEF Next

-----------------------------------------------------------------------------
\* The second invariant holds at first and every step keeps it.
LEMMA InitSInv == Init => SInv
  <1> SUFFICES ASSUME Init PROVE SInv
    OBVIOUS
  <1>1. OnceInv
    BY ConnsSplit, ConstantsAssumption DEF Init, OnceInv, Computing
  <1>2. HealthyInv
    BY ConnsSplit DEF Init, HealthyInv, Healthy, Returned, In
  <1>3. OneInv
    BY ConnsSplit DEF Init, OneInv, Running
  <1>4. WalletInv
    BY ConnsSplit, ConstantsAssumption DEF Init, WalletInv, Pending, Computing
  <1>5. QED
    BY <1>1, <1>2, <1>3, <1>4 DEF SInv

LEMMA NextSInv ==
    ASSUME OneAtATime, MaxFaults = 0
    PROVE  IInv /\ SInv /\ [Next]_vars => SInv'
  <1> SUFFICES ASSUME IInv, SInv, [Next]_vars PROVE SInv'
    OBVIOUS
  <1>1. HealthyInv'
    BY NextSpares, SparesKeeps DEF SInv
  <1>2. OnceInv' /\ OneInv' /\ WalletInv'
    BY QuietOr, QuietKeeps, RegisterDeviceWallet, RegisterDeviceMessageWallet,
       AcceptMetadataReceiveWallet, AddPeerWallet
  <1>3. QED
    BY <1>1, <1>2 DEF SInv

\* When registrations follow each other and nothing fails, the stored wallet has
\* the BK of every device that holds a share: each AddPeer writes a wallet that
\* extends the one in the vault, however many accept calls join a registration
\* and whatever calls are still finishing.  AddDevice_overlap shows that
\* overlapping registrations break it.
THEOREM SequentialDevicesUsable ==
    ASSUME OneAtATime, MaxFaults = 0
    PROVE  Spec => []DevicesUsable
  <1>1. IInv /\ SInv /\ [Next]_vars => SInv'
    BY NextSInv
  <1>2. IInv /\ SInv => DevicesUsable
    <2> SUFFICES ASSUME IInv, SInv, NEW d \in Devices,
                        d \in Owners \/ client[d] = "ok"
                 PROVE  d \in bks
      BY DEF DevicesUsable
    <2>1. CASE d \in Owners
      BY <2>1 DEF SInv, WalletInv
    <2>2. CASE d \in Regs /\ client[d] = "ok"
      <3>1. d \in devices
        BY <2>2, ConnsSplit DEF IInv, ChainInv, Confirmed
      <3>2. QED
        BY <2>2, <3>1 DEF SInv, WalletInv
    <2>3. QED
      BY <2>1, <2>2 DEF Devices
  <1>3. QED
    BY InitSInv, <1>1, <1>2, Inductive, PTL DEF Spec
=============================================================================
