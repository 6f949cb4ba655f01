------------------------------ MODULE Dkg_proofs ------------------------------
(***************************************************************************)
(* Proofs about Dkg, for any set of calls and any number of failures.      *)
(***************************************************************************)
EXTENDS Dkg, TLAPS

-----------------------------------------------------------------------------
(* The messages in the queues of the connections.                          *)

\* Message m is in flight in queue q.
In(m, q) == \E i \in 1..Len(q) : q[i] = m

\* Appending, taking the head and cutting a sequence: what was written on a
\* connection is read from it, and nothing else.
LEMMA InAppend ==
    ASSUME NEW M, NEW q \in Seq(M), NEW m \in M, NEW x \in M,
           In(x, Append(q, m))
    PROVE  In(x, q) \/ x = m
  <1>1. PICK i \in 1..Len(Append(q, m)) : Append(q, m)[i] = x
    BY DEF In
  <1>2. i \in 1..(Len(q) + 1) /\ Len(q) \in Nat
    BY <1>1
  <1>3. CASE i = Len(q) + 1
    BY <1>1, <1>3
  <1>4. CASE i \in 1..Len(q)
    BY <1>1, <1>4 DEF In
  <1>5. QED
    BY <1>2, <1>3, <1>4

LEMMA InTail ==
    ASSUME NEW M, NEW q \in Seq(M), q # <<>>, NEW x \in M, In(x, Tail(q))
    PROVE  In(x, q)
  <1>1. PICK i \in 1..Len(Tail(q)) : Tail(q)[i] = x
    BY DEF In
  <1>2. i + 1 \in 1..Len(q) /\ q[i + 1] = x
    BY <1>1
  <1>3. QED
    BY <1>2 DEF In

LEMMA InHead ==
    ASSUME NEW M, NEW q \in Seq(M), q # <<>>
    PROVE  In(Head(q), q)
  <1>1. 1 \in 1..Len(q) /\ q[1] = Head(q)
    OBVIOUS
  <1>2. QED
    BY <1>1 DEF In

LEMMA InSub ==
    ASSUME NEW M, NEW q \in Seq(M), NEW x \in M, NEW k \in 0..Len(q),
           In(x, SubSeq(q, 1, k))
    PROVE  In(x, q)
  <1>1. PICK i \in 1..Len(SubSeq(q, 1, k)) : SubSeq(q, 1, k)[i] = x
    BY DEF In
  <1>2. i \in 1..Len(q) /\ q[i] = x
    BY <1>1
  <1>3. QED
    BY <1>2 DEF In

\* Queues of messages M, one for each connection of K.
QueuesOf(K, M) == [K -> Seq(M)]

\* qq has no message that q did not have, but those of S on connection c.
Adds(K, M, q, qq, c, S) ==
    \A d \in K, x \in M : In(x, qq[d]) => In(x, q[d]) \/ (d = c /\ x \in S)

\* A write adds its message.
LEMMA AppendAdds ==
    ASSUME NEW K, NEW M, NEW q \in QueuesOf(K, M), NEW c \in K, NEW m \in M
    PROVE  /\ [q EXCEPT ![c] = Append(@, m)] \in QueuesOf(K, M)
           /\ Adds(K, M, q, [q EXCEPT ![c] = Append(@, m)], c, {m})
  <1>1. \A d \in K : q[d] \in Seq(M)
    BY DEF QueuesOf
  <1>2. Append(q[c], m) \in Seq(M)
    BY <1>1
  <1>3. ASSUME NEW d \in K, NEW x \in M,
               In(x, [q EXCEPT ![c] = Append(@, m)][d])
        PROVE  In(x, q[d]) \/ (d = c /\ x = m)
    <2>1. CASE d = c
      <3>1. In(x, Append(q[c], m))
        BY <1>3, <2>1 DEF QueuesOf
      <3>2. QED
        BY <3>1, <2>1, <1>1, InAppend
    <2>2. CASE d # c
      BY <1>3, <2>2 DEF QueuesOf
    <2>3. QED
      BY <2>1, <2>2
  <1>4. QED
    BY <1>2, <1>3 DEF QueuesOf, Adds

\* A read only removes the message it returns.
LEMMA TailAdds ==
    ASSUME NEW K, NEW M, NEW q \in QueuesOf(K, M), NEW c \in K, q[c] # <<>>
    PROVE  /\ [q EXCEPT ![c] = Tail(@)] \in QueuesOf(K, M)
           /\ Adds(K, M, q, [q EXCEPT ![c] = Tail(@)], c, {})
           /\ In(Head(q[c]), q[c])
           /\ Head(q[c]) \in M
  <1>1. \A d \in K : q[d] \in Seq(M)
    BY DEF QueuesOf
  <1>2. ASSUME NEW d \in K, NEW x \in M, In(x, [q EXCEPT ![c] = Tail(@)][d])
        PROVE  In(x, q[d])
    <2>1. CASE d = c
      <3>1. In(x, Tail(q[c]))
        BY <1>2, <2>1 DEF QueuesOf
      <3>2. QED
        BY <3>1, <2>1, <1>1, InTail
    <2>2. CASE d # c
      BY <1>2, <2>2 DEF QueuesOf
    <2>3. QED
      BY <2>1, <2>2
  <1>3. Head(q[c]) \in M /\ Tail(q[c]) \in Seq(M)
    BY <1>1
  <1>4. In(Head(q[c]), q[c])
    BY <1>1, InHead
  <1>5. QED
    BY <1>2, <1>3, <1>4 DEF QueuesOf, Adds

\* A connection that breaks only loses messages.
LEMMA CutAdds ==
    ASSUME NEW K, NEW M, NEW q \in QueuesOf(K, M), NEW c \in K, NEW m \in M,
           NEW i \in 0..Len(q[c])
    PROVE  /\ [q EXCEPT ![c] = Append(SubSeq(@, 1, i), m)] \in QueuesOf(K, M)
           /\ Adds(K, M, q, [q EXCEPT ![c] = Append(SubSeq(@, 1, i), m)], c, {m})
  <1>1. q[c] \in Seq(M) /\ SubSeq(q[c], 1, i) \in Seq(M)
    BY DEF QueuesOf
  <1>2. Append(SubSeq(q[c], 1, i), m) \in Seq(M)
    BY <1>1
  <1>3. ASSUME NEW d \in K, NEW x \in M,
               In(x, [q EXCEPT ![c] = Append(SubSeq(@, 1, i), m)][d])
        PROVE  In(x, q[d]) \/ (d = c /\ x = m)
    <2>1. CASE d = c
      <3>1. In(x, Append(SubSeq(q[c], 1, i), m))
        BY <1>3, <2>1 DEF QueuesOf
      <3>2. In(x, SubSeq(q[c], 1, i)) \/ x = m
        BY <3>1, <1>1, InAppend
      <3>3. In(x, SubSeq(q[c], 1, i)) => In(x, q[c])
        BY <1>1, InSub
      <3>4. QED
        BY <2>1, <3>2, <3>3
    <2>2. CASE d # c
      BY <1>3, <2>2 DEF QueuesOf
    <2>3. QED
      BY <2>1, <2>2
  <1>4. QED
    BY <1>2, <1>3 DEF QueuesOf, Adds

-----------------------------------------------------------------------------
Msgs == Messages \cup Endings

\* The steps of one call: Next is \E c \in Calls : Step(c).
Step(c) ==
    \/ DkgCall(c)
    \/ ClientSteps(c)
    \/ HandlerSteps(c)
    \/ ReceiveTss(c)
    \/ ReadEnds(c)
    \/ \E s \in Sides : MakeLast(c, s) \/ TssSend(c, s) \/ TssDone(c, s)
    \/ Failures(c)

-----------------------------------------------------------------------------
(* The inductive invariant.                                                *)

\* The metadata exists once the wallet is stored; whatever says that the
\* client has it was caused by the client.
ChainInv ==
    \A c \in Calls :
        /\ \/ main[c].server \in {"stored", "sent", "done"}
           \/ In("metadata", toClient[c])
           \/ "client" \in done[c]
           => c \in wallets
        /\ \/ In("metadataAck", toServer[c])
           \/ "server" \in done[c]
           \/ main[c].server = "done"
           \/ main[c].client = "ok"
           => "client" \in done[c]

\* A side that goes on has its share, and a wallet is stored only then.
TssInv ==
    \A c \in Calls :
        /\ main[c].client \in {"wait", "ok"} => tss[c]["client"] = "done"
        /\ main[c].client \in {"idle", "probe", "dial"} => tss[c]["client"] = "off"
        /\ \/ main[c].server \in {"store", "stored", "sent", "done"}
           \/ c \in wallets
           => tss[c]["server"] = "done"
        /\ main[c].server \in {"none", "wait", "tss", "store"} => c \notin wallets

\* A call that is not over, on either side.
Active(c) ==
    \/ main[c].client \notin Returned \cup {"idle"}
    \/ main[c].server \notin {"none", "done", "ret"}

\* One call at a time: the one that is active started without a wallet.
OneInv ==
    OneAtATime =>
        /\ \A c, d \in Calls : Active(c) /\ Active(d) => c = d
        /\ \A c \in Calls : main[c].server \in {"wait", "tss", "store"}
                                => wallets = {}
        /\ \A c, d \in wallets : c = d

IInv == TypeOK /\ ChainInv /\ TssInv /\ OneInv

-----------------------------------------------------------------------------
(* The queues.                                                             *)

Queue == QueuesOf(Calls, Msgs)

LEMMA EndingsAre == Endings \subseteq Msgs /\ Messages \subseteq Msgs
  BY DEF Msgs

LEMMA TypedQueues == TypeOK <=> TypeOK /\ toServer \in Queue /\ toClient \in Queue
  BY DEF TypeOK, Queue, QueuesOf, Msgs

\* A write keeps the type and adds its message, if the connection is open.
LEMMA SentEffect ==
    ASSUME NEW q \in Queue, NEW c \in Calls, NEW m \in Msgs
    PROVE  /\ Sent(q, c, m) \in Queue
           /\ \A d \in Calls, x \in Msgs : In(x, Sent(q, c, m)[d]) =>
                 In(x, q[d]) \/ (d = c /\ x = m /\ conn[c] = "open")
  <1>1. CASE conn[c] = "open"
    BY <1>1, AppendAdds DEF Sent, Queue, Adds
  <1>2. CASE conn[c] # "open"
    BY <1>2 DEF Sent
  <1>3. QED
    BY <1>1, <1>2

\* The readers.
LEMMA ReadEffect ==
    ASSUME TypeOK, NEW c \in Calls, NEW m \in Msgs
    PROVE  /\ ServerReceives(c, m) => /\ toServer' \in Queue
                                      /\ Adds(Calls, Msgs, toServer, toServer', c, {})
                                      /\ In(m, toServer[c])
           /\ ClientReceives(c, m) => /\ toClient' \in Queue
                                      /\ Adds(Calls, Msgs, toClient, toClient', c, {})
                                      /\ In(m, toClient[c])
  <1>1. toServer \in Queue /\ toClient \in Queue
    BY TypedQueues
  <1>2. QED
    BY <1>1, TailAdds DEF ServerReceives, ClientReceives, Queue

\* What a step can add to the queues: the metadata when the wallet is stored,
\* the acknowledgement when the client has the metadata.
QueueStep(c) ==
    /\ toServer' \in Queue
    /\ toClient' \in Queue
    /\ \A d \in Calls :
          In("metadata", toClient'[d]) =>
              In("metadata", toClient[d]) \/ (d = c /\ main[c].server = "stored")
    /\ \A d \in Calls :
          In("metadataAck", toServer'[d]) =>
              In("metadataAck", toServer[d]) \/ (d = c /\ "client" \in done'[c])

LEMMA Known == /\ "metadata" \in Msgs /\ "metadataAck" \in Msgs /\ "peer" \in Msgs
               /\ "tss" \in Msgs /\ "broken" \in Msgs /\ "closed" \in Msgs
               /\ Endings = {"closed", "broken"}
  BY DEF Msgs, Messages, Endings

\* Any other write.
LEMMA ServerSent ==
    ASSUME TypeOK, NEW c \in Calls, NEW m \in Msgs, m # "metadataAck",
           toServer' = Sent(toServer, c, m), UNCHANGED toClient
    PROVE  QueueStep(c)
  <1>1. toServer \in Queue /\ toClient \in Queue
    BY TypedQueues
  <1>2. /\ toServer' \in Queue
        /\ \A d \in Calls, x \in Msgs :
              In(x, toServer'[d]) => In(x, toServer[d]) \/ x = m
    BY <1>1, SentEffect
  <1>3. QED
    BY <1>1, <1>2, Known DEF QueueStep

LEMMA ClientSent ==
    ASSUME TypeOK, NEW c \in Calls, NEW m \in Msgs, m # "metadata",
           toClient' = Sent(toClient, c, m), UNCHANGED toServer
    PROVE  QueueStep(c)
  <1>1. toServer \in Queue /\ toClient \in Queue
    BY TypedQueues
  <1>2. /\ toClient' \in Queue
        /\ \A d \in Calls, x \in Msgs :
              In(x, toClient'[d]) => In(x, toClient[d]) \/ x = m
    BY <1>1, SentEffect
  <1>3. QED
    BY <1>1, <1>2, Known DEF QueueStep

\* The two that matter.
LEMMA MetadataSent ==
    ASSUME NEW q \in Queue, NEW c \in Calls, NEW m \in {"metadata", "metadataAck"}
    PROVE  /\ Sent(q, c, m) \in Queue
           /\ \A d \in Calls : In(m, Sent(q, c, m)[d]) =>
                 In(m, q[d]) \/ (d = c /\ conn[c] = "open")
  <1>1. m \in Msgs
    BY Known
  <1>2. QED
    BY <1>1, SentEffect

LEMMA QueueSteps ==
    ASSUME TypeOK, NEW c \in Calls, Step(c)
    PROVE  QueueStep(c)
  <1>0. toServer \in Queue /\ toClient \in Queue
    BY TypedQueues
  <1> USE <1>0, Known DEF QueueStep, Adds, goVars, netVars, tssVars
  <1>1. CASE UNCHANGED <<toServer, toClient>>
    BY <1>1
  <1>2. CASE SendPeerId(c)
    <2>1. toServer' = Sent(toServer, c, "peer") /\ UNCHANGED toClient
      BY <1>2 DEF SendPeerId
    <2>2. QED
      BY ONLY TypeOK, <2>1, Known, ServerSent
  <1>3. CASE ClientMetadata(c)
    <2>1. conn[c] = "open" => "client" \in done'[c]
      BY <1>3 DEF ClientMetadata, WriteResults, TypeOK
    <2>2. /\ toServer' = Sent(toServer, c, "metadataAck")
          /\ ClientReceives(c, "metadata")
      BY <1>3 DEF ClientMetadata
    <2>3. /\ toServer' \in Queue
          /\ \A d \in Calls : In("metadataAck", toServer'[d]) =>
                In("metadataAck", toServer[d]) \/ (d = c /\ conn[c] = "open")
      BY ONLY <1>0, <2>2, MetadataSent
    <2>4. toClient' \in Queue /\ Adds(Calls, Msgs, toClient, toClient', c, {})
      BY ONLY TypeOK, <2>2, Known, ReadEffect
    <2>5. QED
      BY <2>1, <2>3, <2>4
  <1>4. ASSUME NEW r, NEW e \in Endings,
               ClientReturns(c, r, e), UNCHANGED toClient
        PROVE  QueueStep(c)
    <2>1. /\ toServer' = Sent(toServer, c, e) /\ UNCHANGED toClient
          /\ e \in Msgs /\ e # "metadataAck"
      BY <1>4 DEF ClientReturns
    <2>2. QED
      BY ONLY TypeOK, <2>1, ServerSent
  <1>5. ASSUME NEW r, NEW e \in Endings,
               HandlerReturns(c, r, e), UNCHANGED toServer
        PROVE  QueueStep(c)
    <2>1. /\ toClient' = Sent(toClient, c, e) /\ UNCHANGED toServer
          /\ e \in Msgs /\ e # "metadata"
      BY <1>5 DEF HandlerReturns
    <2>2. QED
      BY ONLY TypeOK, <2>1, ClientSent
  <1>6. CASE HandlerSendMetadata(c)
    <2>1. CASE toClient' = Sent(toClient, c, "metadata")
      <3>1. main[c].server = "stored" /\ UNCHANGED toServer
        BY <1>6 DEF HandlerSendMetadata
      <3>2. /\ toClient' \in Queue
            /\ \A d \in Calls : In("metadata", toClient'[d]) =>
                  In("metadata", toClient[d]) \/ (d = c /\ conn[c] = "open")
        BY ONLY <1>0, <2>1, MetadataSent
      <3>3. QED
        BY <3>1, <3>2
    <2>2. CASE HandlerReturns(c, "ret", "broken")
      BY <1>6, <1>5, <2>2 DEF HandlerSendMetadata
    <2>3. QED
      BY <1>6, <2>1, <2>2 DEF HandlerSendMetadata
  <1>7. CASE HandlerPeer(c) \/ HandlerPeerFails(c) \/ HandlerMetadataAck(c)
    BY <1>7, ReadEffect DEF HandlerPeer, HandlerPeerFails, HandlerMetadataAck
  <1>8. CASE ReceiveTss(c)
    BY <1>8, ReadEffect DEF ReceiveTss
  <1>9. CASE ReceiveTssFails(c)
    BY <1>9, ReadEffect DEF ReceiveTssFails
  <1>10. CASE ReadEnds(c)
    BY <1>10, ReadEffect DEF ReadEnds
  <1>11. CASE \E s \in Sides : TssSend(c, s)
    <2>1. \/ toServer' = Sent(toServer, c, "tss") /\ UNCHANGED toClient
          \/ toClient' = Sent(toClient, c, "tss") /\ UNCHANGED toServer
      BY <1>11 DEF TssSend
    <2>2. QED
      BY ONLY TypeOK, <2>1, Known, ServerSent, ClientSent
  <1>12. CASE Drop(c)
    <2>1. PICK i \in 0..Len(toServer[c]), j \in 0..Len(toClient[c]) :
             /\ toServer' = [toServer EXCEPT ![c] = Append(SubSeq(@, 1, i), "broken")]
             /\ toClient' = [toClient EXCEPT ![c] = Append(SubSeq(@, 1, j), "broken")]
      BY <1>12 DEF Drop
    <2>2. /\ toServer' \in Queue
          /\ Adds(Calls, Msgs, toServer, toServer', c, {"broken"})
      BY <2>1, CutAdds DEF Queue
    <2>3. /\ toClient' \in Queue
          /\ Adds(Calls, Msgs, toClient, toClient', c, {"broken"})
      BY <2>1, CutAdds DEF Queue
    <2>4. QED
      BY <2>2, <2>3
  <1>13. CASE ClientTssFailed(c) \/ ClientTssDone(c) \/ ClientServerDone(c)
    BY <1>1, <1>4, <1>13 DEF ClientTssFailed, ClientTssDone, ClientServerDone,
       FinalClose
  <1>14. CASE HandlerProcess(c) \/ StoreWalletFails(c) \/ HandlerFinish(c)
    BY <1>1, <1>5, <1>14 DEF HandlerProcess, StoreWalletFails, HandlerFinish,
       FinalClose
  <1>15. CASE DkgCall(c) \/ Probe(c) \/ DkgHandler(c) \/ DialFails(c) \/ StoreWallet(c)
    BY <1>1, <1>15 DEF DkgCall, Probe, DkgHandler, DialFails, StoreWallet
  <1>16. CASE \E s \in Sides : \/ MakeLast(c, s)
                               \/ TssDone(c, s)
                               \/ TssFails(c, s)
                               \/ TssSendFails(c, s)
    BY <1>1, <1>16 DEF MakeLast, TssDone, TssFails, TssSendFails
  <1>17. QED
    BY <1>2, <1>3, <1>6, <1>7, <1>8, <1>9, <1>10, <1>11, <1>12, <1>13, <1>14,
       <1>15, <1>16
       DEF Step, ClientSteps, HandlerSteps, Failures

\* The types of the queues after a step, as TypeOK writes them.
LEMMA QueuesTyped ==
    ASSUME TypeOK, NEW c \in Calls, Step(c)
    PROVE  /\ toServer' \in [Calls -> Seq(Messages \cup Endings)]
           /\ toClient' \in [Calls -> Seq(Messages \cup Endings)]
  BY QueueSteps DEF QueueStep, Queue, QueuesOf, Msgs

\* What the two readers act on was in the queue.
LEMMA ReadMetadata ==
    ASSUME TypeOK, NEW c \in Calls, ClientMetadata(c)
    PROVE  In("metadata", toClient[c])
  BY ReadEffect, Known DEF ClientMetadata

LEMMA ReadAck ==
    ASSUME TypeOK, NEW c \in Calls, HandlerMetadataAck(c)
    PROVE  In("metadataAck", toServer[c])
  BY ReadEffect, Known DEF HandlerMetadataAck

\* TypeOK without the queues, by the kinds of variables.
MainType == [Calls -> [client : ClientStates, server : HandlerStates]]
ReaderType == [Calls -> [Sides -> {"off", "read", "ret"}]]
ErrsType == [Calls -> [Sides -> SUBSET {"reader", "sender"}]]
ConnType == [Calls -> {"none", "open", "over"}]
TssType == [Calls -> [Sides -> {"off", "run", "done", "failed"}]]
SidesType == [Calls -> SUBSET Sides]

StateOK ==
    /\ main \in MainType
    /\ reader \in ReaderType
    /\ errs \in ErrsType
    /\ done \in SidesType
    /\ conn \in ConnType
    /\ tss \in TssType
    /\ made \in SidesType
    /\ sent \in SidesType
    /\ got \in SidesType
    /\ wallets \subseteq Calls
    /\ faults \in 0..MaxFaults

\* What the assignments of the actions do to those types.
LEMMA MainTyped ==
    ASSUME NEW f \in MainType, NEW c \in Calls
    PROVE  /\ \A x \in ClientStates : [f EXCEPT ![c].client = x] \in MainType
           /\ \A x \in HandlerStates : [f EXCEPT ![c].server = x] \in MainType
  BY DEF MainType

ReaderStep(c) ==
    \/ reader' = reader
    \/ \E s \in Sides : reader' = [reader EXCEPT ![c][s] = "read"]
    \/ \E s \in Sides : reader' = [reader EXCEPT ![c][s] = "ret"]

LEMMA ReaderTyped ==
    ASSUME reader \in ReaderType, NEW c \in Calls, ReaderStep(c)
    PROVE  reader' \in ReaderType
  <1>1. CASE reader' = reader
    BY <1>1
  <1>2. ASSUME NEW s \in Sides, reader' = [reader EXCEPT ![c][s] = "read"]
        PROVE  reader' \in ReaderType
    BY <1>2 DEF ReaderType
  <1>3. ASSUME NEW s \in Sides, reader' = [reader EXCEPT ![c][s] = "ret"]
        PROVE  reader' \in ReaderType
    BY <1>3 DEF ReaderType
  <1>4. QED
    BY <1>1, <1>2, <1>3 DEF ReaderStep

ErrsStep(c) ==
    \/ errs' = errs
    \/ \E s \in Sides : errs' = [errs EXCEPT ![c][s] = @ \cup {"reader"}]
    \/ \E s \in Sides : errs' = [errs EXCEPT ![c][s] = @ \cup {"sender"}]

LEMMA ErrsTyped ==
    ASSUME errs \in ErrsType, NEW c \in Calls, ErrsStep(c)
    PROVE  errs' \in ErrsType
  <1>1. CASE errs' = errs
    BY <1>1
  <1>2. ASSUME NEW s \in Sides, errs' = [errs EXCEPT ![c][s] = @ \cup {"reader"}]
        PROVE  errs' \in ErrsType
    BY <1>2 DEF ErrsType
  <1>3. ASSUME NEW s \in Sides, errs' = [errs EXCEPT ![c][s] = @ \cup {"sender"}]
        PROVE  errs' \in ErrsType
    BY <1>3 DEF ErrsType
  <1>4. QED
    BY <1>1, <1>2, <1>3 DEF ErrsStep

LEMMA ConnTyped ==
    ASSUME NEW f \in ConnType, NEW c \in Calls
    PROVE  /\ [f EXCEPT ![c] = "open"] \in ConnType
           /\ [f EXCEPT ![c] = IF @ = "open" THEN "over" ELSE @] \in ConnType
  BY DEF ConnType

TssStep(c) ==
    \/ tss' = tss
    \/ \E s \in Sides : tss' = [tss EXCEPT ![c][s] = "run"]
    \/ \E s \in Sides : tss' = [tss EXCEPT ![c][s] = "done"]
    \/ \E s \in Sides : tss' = [tss EXCEPT ![c][s] = "failed"]

LEMMA TssTyped ==
    ASSUME tss \in TssType, NEW c \in Calls, TssStep(c)
    PROVE  tss' \in TssType
  <1>1. CASE tss' = tss
    BY <1>1
  <1>2. ASSUME NEW s \in Sides, tss' = [tss EXCEPT ![c][s] = "run"]
        PROVE  tss' \in TssType
    BY <1>2 DEF TssType
  <1>3. ASSUME NEW s \in Sides, tss' = [tss EXCEPT ![c][s] = "done"]
        PROVE  tss' \in TssType
    BY <1>3 DEF TssType
  <1>4. ASSUME NEW s \in Sides, tss' = [tss EXCEPT ![c][s] = "failed"]
        PROVE  tss' \in TssType
    BY <1>4 DEF TssType
  <1>5. QED
    BY <1>1, <1>2, <1>3, <1>4 DEF TssStep

LEMMA SidesTyped ==
    ASSUME NEW f \in SidesType, NEW c \in Calls, NEW s \in Sides
    PROVE  [f EXCEPT ![c] = @ \cup {s}] \in SidesType
  <1>1. f[c] \cup {s} \in SUBSET Sides
    BY DEF SidesType
  <1>2. QED
    BY <1>1 DEF SidesType

LEMMA TypeOKSplits ==
    TypeOK <=> /\ StateOK
               /\ toServer \in [Calls -> Seq(Messages \cup Endings)]
               /\ toClient \in [Calls -> Seq(Messages \cup Endings)]
  BY DEF TypeOK, StateOK, MainType, ReaderType, ErrsType, ConnType, TssType,
     SidesType

\* The types of the variables of the invariant, without those of the queues.
LEMMA StateTypes ==
    TypeOK => /\ main \in [Calls -> [client : ClientStates, server : HandlerStates]]
              /\ done \in [Calls -> SUBSET Sides]
              /\ tss \in [Calls -> [Sides -> {"off", "run", "done", "failed"}]]
              /\ wallets \subseteq Calls
  BY DEF TypeOK

\* One call at a time: a client that goes on, and a handler that goes on.
LEMMA ClientMoves ==
    ASSUME TypeOK, OneInv, NEW c \in Calls, NEW x \in ClientStates,
           main[c].client \notin Returned \cup {"idle"},
           main' = [main EXCEPT ![c].client = x], UNCHANGED wallets
    PROVE  OneInv'
  <1>1. Active(c)
    BY DEF Active
  <1>2. \A d \in Calls : Active(d)' => Active(d)
    BY <1>1, StateTypes DEF Active
  <1>3. \A d \in Calls : main'[d].server = main[d].server
    BY StateTypes
  <1>4. QED
    BY <1>2, <1>3 DEF OneInv

LEMMA HandlerMoves ==
    ASSUME TypeOK, OneInv, NEW c \in Calls, NEW x \in HandlerStates, Active(c),
           x \in {"wait", "tss", "store"} => (OneAtATime => wallets = {}),
           main' = [main EXCEPT ![c].server = x], UNCHANGED wallets
    PROVE  OneInv'
  <1>1. \A d \in Calls : Active(d)' => Active(d)
    BY StateTypes DEF Active
  <1>2. \A d \in Calls : main'[d].server = IF d = c THEN x ELSE main[d].server
    BY StateTypes
  <1>3. QED
    BY <1>1, <1>2 DEF OneInv

-----------------------------------------------------------------------------
(* One lemma per part of the invariant, one case per action.               *)

\* The types.
LEMMA StepState ==
    ASSUME StateOK, NEW c \in Calls, Step(c)
    PROVE  StateOK'
  <1>0. "client" \in Sides /\ "server" \in Sides
    BY DEF Sides
  <1> USE <1>0, DkgAssumption DEF goVars, netVars, tssVars
  <1>1. CASE DkgCall(c)
    BY <1>1, MainTyped DEF StateOK, DkgCall, ClientStates
  <1>2. CASE Probe(c)
    <2>1. \/ main' = main
          \/ \E x \in ClientStates : main' = [main EXCEPT ![c].client = x]
      BY <1>2 DEF Probe, ClientStates
    <2>2. main' \in MainType
      BY <2>1, MainTyped DEF StateOK
    <2>3. QED
      BY <1>2, <2>2 DEF StateOK, Probe
  <1>3. CASE SendPeerId(c)
    <2>1. \/ main' = main
          \/ \E x \in ClientStates : main' = [main EXCEPT ![c].client = x]
      BY <1>3 DEF SendPeerId, ClientStates
    <2>2. ReaderStep(c)
      BY <1>3 DEF SendPeerId, ReaderStep, Sides
    <2>3. TssStep(c)
      BY <1>3 DEF SendPeerId, TssStep, Sides
    <2>4. main' \in MainType
      BY <2>1, MainTyped DEF StateOK
    <2>5. reader' \in ReaderType
      BY <2>2, ReaderTyped DEF StateOK
    <2>6. tss' \in TssType
      BY <2>3, TssTyped DEF StateOK
    <2>7. QED
      BY <1>3, <2>4, <2>5, <2>6 DEF StateOK, SendPeerId
  <1>4. CASE ClientMetadata(c)
    <2>1. ReaderStep(c)
      BY <1>4 DEF ClientMetadata, Report, ReaderStep, Sides
    <2>2. ErrsStep(c)
      BY <1>4 DEF ClientMetadata, Report, ErrsStep, Sides
    <2>3. \/ done' = done
          \/ \E s \in Sides : done' = [done EXCEPT ![c] = @ \cup {s}]
      BY <1>4 DEF ClientMetadata, Report
    <2>4. reader' \in ReaderType
      BY <2>1, ReaderTyped DEF StateOK
    <2>5. errs' \in ErrsType
      BY <2>2, ErrsTyped DEF StateOK
    <2>6. done' \in SidesType
      BY <2>3, SidesTyped DEF StateOK
    <2>7. QED
      BY <1>4, <2>4, <2>5, <2>6 DEF StateOK, ClientMetadata, Report
  <1>5. CASE ClientTssFailed(c)
    <2>1. \/ main' = main
          \/ \E x \in ClientStates : main' = [main EXCEPT ![c].client = x]
      BY <1>5 DEF ClientTssFailed, ClientReturns, ClientStates
    <2>2. \/ conn' = conn
          \/ conn' = Over(c)
          \/ conn' = [conn EXCEPT ![c] = "open"]
      BY <1>5 DEF ClientTssFailed, ClientReturns
    <2>3. main' \in MainType
      BY <2>1, MainTyped DEF StateOK
    <2>4. conn' \in ConnType
      BY <2>2, ConnTyped DEF StateOK, Over
    <2>5. QED
      BY <1>5, <2>3, <2>4 DEF StateOK, ClientTssFailed, ClientReturns
  <1>6. CASE ClientTssDone(c)
    <2>1. \/ main' = main
          \/ \E x \in ClientStates : main' = [main EXCEPT ![c].client = x]
      BY <1>6 DEF ClientTssDone, ClientReturns, ClientStates
    <2>2. \/ conn' = conn
          \/ conn' = Over(c)
          \/ conn' = [conn EXCEPT ![c] = "open"]
      BY <1>6 DEF ClientTssDone, ClientReturns
    <2>3. main' \in MainType
      BY <2>1, MainTyped DEF StateOK
    <2>4. conn' \in ConnType
      BY <2>2, ConnTyped DEF StateOK, Over
    <2>5. QED
      BY <1>6, <2>3, <2>4 DEF StateOK, ClientTssDone, ClientReturns
  <1>7. CASE ClientServerDone(c)
    <2>1. \/ main' = main
          \/ \E x \in ClientStates : main' = [main EXCEPT ![c].client = x]
      BY <1>7 DEF ClientServerDone, ClientReturns, ClientStates
    <2>2. \/ conn' = conn
          \/ conn' = Over(c)
          \/ conn' = [conn EXCEPT ![c] = "open"]
      BY <1>7 DEF ClientServerDone, ClientReturns
    <2>3. main' \in MainType
      BY <2>1, MainTyped DEF StateOK
    <2>4. conn' \in ConnType
      BY <2>2, ConnTyped DEF StateOK, Over
    <2>5. QED
      BY <1>7, <2>3, <2>4 DEF StateOK, ClientServerDone, ClientReturns
  <1>8. CASE DkgHandler(c)
    <2>1. \/ main' = main
          \/ \E x \in ClientStates : main' = [main EXCEPT ![c].client = x]
          \/ \E x \in HandlerStates : main' = [main EXCEPT ![c].server = x]
      BY <1>8 DEF DkgHandler, ClientStates, HandlerStates
    <2>2. ReaderStep(c)
      BY <1>8 DEF DkgHandler, ReaderStep, Sides
    <2>3. \/ conn' = conn
          \/ conn' = Over(c)
          \/ conn' = [conn EXCEPT ![c] = "open"]
      BY <1>8 DEF DkgHandler
    <2>4. main' \in MainType
      BY <2>1, MainTyped DEF StateOK
    <2>5. reader' \in ReaderType
      BY <2>2, ReaderTyped DEF StateOK
    <2>6. conn' \in ConnType
      BY <2>3, ConnTyped DEF StateOK, Over
    <2>7. QED
      BY <1>8, <2>4, <2>5, <2>6 DEF StateOK, DkgHandler
  <1>9. CASE HandlerPeer(c)
    <2>1. \/ main' = main
          \/ \E x \in HandlerStates : main' = [main EXCEPT ![c].server = x]
      BY <1>9 DEF HandlerPeer, HandlerStates
    <2>2. TssStep(c)
      BY <1>9 DEF HandlerPeer, TssStep, Sides
    <2>3. main' \in MainType
      BY <2>1, MainTyped DEF StateOK
    <2>4. tss' \in TssType
      BY <2>2, TssTyped DEF StateOK
    <2>5. QED
      BY <1>9, <2>3, <2>4 DEF StateOK, HandlerPeer
  <1>10. CASE HandlerMetadataAck(c)
    BY <1>10, SidesTyped DEF StateOK, HandlerMetadataAck
  <1>11. CASE HandlerProcess(c)
    <2>1. \/ main' = main
          \/ \E x \in HandlerStates : main' = [main EXCEPT ![c].server = x]
      BY <1>11 DEF HandlerProcess, HandlerReturns, HandlerStates
    <2>2. \/ conn' = conn
          \/ conn' = Over(c)
          \/ conn' = [conn EXCEPT ![c] = "open"]
      BY <1>11 DEF HandlerProcess, HandlerReturns
    <2>3. main' \in MainType
      BY <2>1, MainTyped DEF StateOK
    <2>4. conn' \in ConnType
      BY <2>2, ConnTyped DEF StateOK, Over
    <2>5. QED
      BY <1>11, <2>3, <2>4 DEF StateOK, HandlerProcess, HandlerReturns
  <1>12. CASE StoreWallet(c)
    BY <1>12, MainTyped DEF StateOK, StoreWallet, HandlerStates
  <1>13. CASE HandlerSendMetadata(c)
    <2>1. \/ main' = main
          \/ \E x \in HandlerStates : main' = [main EXCEPT ![c].server = x]
      BY <1>13 DEF HandlerSendMetadata, HandlerReturns, HandlerStates
    <2>2. \/ conn' = conn
          \/ conn' = Over(c)
          \/ conn' = [conn EXCEPT ![c] = "open"]
      BY <1>13 DEF HandlerSendMetadata, HandlerReturns
    <2>3. main' \in MainType
      BY <2>1, MainTyped DEF StateOK
    <2>4. conn' \in ConnType
      BY <2>2, ConnTyped DEF StateOK, Over
    <2>5. QED
      BY <1>13, <2>3, <2>4 DEF StateOK, HandlerSendMetadata, HandlerReturns
  <1>14. CASE HandlerFinish(c)
    <2>1. \/ main' = main
          \/ \E x \in HandlerStates : main' = [main EXCEPT ![c].server = x]
      BY <1>14 DEF HandlerFinish, HandlerReturns, HandlerStates
    <2>2. \/ conn' = conn
          \/ conn' = Over(c)
          \/ conn' = [conn EXCEPT ![c] = "open"]
      BY <1>14 DEF HandlerFinish, HandlerReturns
    <2>3. main' \in MainType
      BY <2>1, MainTyped DEF StateOK
    <2>4. conn' \in ConnType
      BY <2>2, ConnTyped DEF StateOK, Over
    <2>5. QED
      BY <1>14, <2>3, <2>4 DEF StateOK, HandlerFinish, HandlerReturns
  <1>15. CASE ReceiveTss(c)
    <2>1. \/ got' = got
          \/ \E s \in Sides : got' = [got EXCEPT ![c] = @ \cup {s}]
      BY <1>15 DEF ReceiveTss
    <2>2. got' \in SidesType
      BY <2>1, SidesTyped DEF StateOK
    <2>3. QED
      BY <1>15, <2>2 DEF StateOK, ReceiveTss
  <1>16. CASE ReadEnds(c)
    <2>1. ReaderStep(c)
      BY <1>16 DEF ReadEnds, Report, ReaderStep, Sides
    <2>2. ErrsStep(c)
      BY <1>16 DEF ReadEnds, Report, ErrsStep, Sides
    <2>3. reader' \in ReaderType
      BY <2>1, ReaderTyped DEF StateOK
    <2>4. errs' \in ErrsType
      BY <2>2, ErrsTyped DEF StateOK
    <2>5. QED
      BY <1>16, <2>3, <2>4 DEF StateOK, ReadEnds, Report
  <1>17. CASE \E s \in Sides : MakeLast(c, s)
    <2>1. \/ made' = made
          \/ \E s \in Sides : made' = [made EXCEPT ![c] = @ \cup {s}]
      BY <1>17 DEF MakeLast
    <2>2. made' \in SidesType
      BY <2>1, SidesTyped DEF StateOK
    <2>3. QED
      BY <1>17, <2>2 DEF StateOK, MakeLast
  <1>18. CASE \E s \in Sides : TssSend(c, s)
    <2>1. \/ sent' = sent
          \/ \E s \in Sides : sent' = [sent EXCEPT ![c] = @ \cup {s}]
      BY <1>18 DEF TssSend
    <2>2. sent' \in SidesType
      BY <2>1, SidesTyped DEF StateOK
    <2>3. QED
      BY <1>18, <2>2 DEF StateOK, TssSend
  <1>19. CASE \E s \in Sides : TssDone(c, s)
    <2>1. TssStep(c)
      BY <1>19 DEF TssDone, TssStep
    <2>2. tss' \in TssType
      BY <2>1, TssTyped DEF StateOK
    <2>3. QED
      BY <1>19, <2>2 DEF StateOK, TssDone
  <1>20. CASE DialFails(c)
    <2>1. \/ main' = main
          \/ \E x \in ClientStates : main' = [main EXCEPT ![c].client = x]
      BY <1>20 DEF DialFails, ClientStates
    <2>2. main' \in MainType
      BY <2>1, MainTyped DEF StateOK
    <2>3. QED
      BY <1>20, <2>2 DEF StateOK, DialFails, Fault
  <1>21. CASE HandlerPeerFails(c)
    <2>1. ReaderStep(c)
      BY <1>21 DEF HandlerPeerFails, Report, ReaderStep, Sides
    <2>2. ErrsStep(c)
      BY <1>21 DEF HandlerPeerFails, Report, ErrsStep, Sides
    <2>3. reader' \in ReaderType
      BY <2>1, ReaderTyped DEF StateOK
    <2>4. errs' \in ErrsType
      BY <2>2, ErrsTyped DEF StateOK
    <2>5. QED
      BY <1>21, <2>3, <2>4 DEF StateOK, HandlerPeerFails, Fault, Report
  <1>22. CASE ReceiveTssFails(c)
    <2>1. ReaderStep(c)
      BY <1>22 DEF ReceiveTssFails, Report, ReaderStep, Sides
    <2>2. ErrsStep(c)
      BY <1>22 DEF ReceiveTssFails, Report, ErrsStep, Sides
    <2>3. reader' \in ReaderType
      BY <2>1, ReaderTyped DEF StateOK
    <2>4. errs' \in ErrsType
      BY <2>2, ErrsTyped DEF StateOK
    <2>5. QED
      BY <1>22, <2>3, <2>4 DEF StateOK, ReceiveTssFails, Fault, Report
  <1>23. CASE StoreWalletFails(c)
    <2>1. \/ main' = main
          \/ \E x \in HandlerStates : main' = [main EXCEPT ![c].server = x]
      BY <1>23 DEF StoreWalletFails, HandlerReturns, HandlerStates
    <2>2. \/ conn' = conn
          \/ conn' = Over(c)
          \/ conn' = [conn EXCEPT ![c] = "open"]
      BY <1>23 DEF StoreWalletFails, HandlerReturns
    <2>3. main' \in MainType
      BY <2>1, MainTyped DEF StateOK
    <2>4. conn' \in ConnType
      BY <2>2, ConnTyped DEF StateOK, Over
    <2>5. QED
      BY <1>23, <2>3, <2>4 DEF StateOK, StoreWalletFails, HandlerReturns,
         Fault
  <1>24. CASE Drop(c)
    <2>1. \/ conn' = conn
          \/ conn' = Over(c)
          \/ conn' = [conn EXCEPT ![c] = "open"]
      BY <1>24 DEF Drop, Over
    <2>2. conn' \in ConnType
      BY <2>1, ConnTyped DEF StateOK, Over
    <2>3. QED
      BY <1>24, <2>2 DEF StateOK, Drop, Fault
  <1>25. CASE \E s \in Sides : TssFails(c, s)
    <2>1. TssStep(c)
      BY <1>25 DEF TssFails, TssStep
    <2>2. tss' \in TssType
      BY <2>1, TssTyped DEF StateOK
    <2>3. QED
      BY <1>25, <2>2 DEF StateOK, TssFails, Fault
  <1>26. CASE \E s \in Sides : TssSendFails(c, s)
    <2>1. ErrsStep(c)
      BY <1>26 DEF TssSendFails, Report, ErrsStep
    <2>2. errs' \in ErrsType
      BY <2>1, ErrsTyped DEF StateOK
    <2>3. QED
      BY <1>26, <2>2 DEF StateOK, TssSendFails, Report
  <1>27. QED
    BY <1>1, <1>2, <1>3, <1>4, <1>5, <1>6, <1>7, <1>8, <1>9, <1>10,
       <1>11, <1>12, <1>13, <1>14, <1>15, <1>16, <1>17, <1>18, <1>19,
       <1>20, <1>21, <1>22, <1>23, <1>24, <1>25, <1>26 DEF Step,
       ClientSteps, HandlerSteps, Failures

LEMMA StepTypes ==
    ASSUME TypeOK, NEW c \in Calls, Step(c)
    PROVE  TypeOK'
  <1>1. StateOK'
    BY TypeOKSplits, StepState
  <1>2. QED
    BY <1>1, QueuesTyped
       DEF TypeOK, StateOK, MainType, ReaderType, ErrsType, ConnType, TssType,
           SidesType

\* The chain of confirmations from the vault to the client and back.
LEMMA StepChain ==
    ASSUME IInv, NEW c \in Calls, Step(c)
    PROVE  ChainInv'
  <1>0. TypeOK /\ QueueStep(c)
    BY QueueSteps DEF IInv
  <1> USE <1>0, StateTypes DEF QueueStep, IInv, ChainInv, goVars, netVars, tssVars
  <1>1. CASE DkgCall(c)
    BY <1>1 DEF DkgCall
  <1>2. CASE Probe(c)
    BY <1>2 DEF Probe
  <1>3. CASE SendPeerId(c)
    BY <1>3 DEF SendPeerId
  <1>4. CASE ClientMetadata(c)
    <2>1. /\ In("metadata", toClient[c])
          /\ UNCHANGED <<main, wallets>>
          /\ \/ done' = [done EXCEPT ![c] = @ \cup {"client"}]
             \/ UNCHANGED done
      BY <1>4, ReadMetadata DEF ClientMetadata
    <2>2. QED
      BY <2>1
  <1>5. CASE ClientTssFailed(c)
    <2>1. /\ UNCHANGED <<done, wallets>>
          /\ \/ main' = [main EXCEPT ![c].client = "stuck"]
             \/ main' = [main EXCEPT ![c].client = "nil"]
      BY <1>5 DEF ClientTssFailed, ClientReturns
    <2>2. QED
      BY <2>1
  <1>6. CASE ClientTssDone(c)
    BY <1>6 DEF ClientTssDone, ClientReturns, Over
  <1>7. CASE ClientServerDone(c)
    BY <1>7 DEF ClientServerDone, ClientReturns, Over
  <1>8. CASE DkgHandler(c)
    <2>1. /\ UNCHANGED <<done, wallets>>
          /\ \/ main' = [main EXCEPT ![c].client = "err"]
             \/ main' = [main EXCEPT ![c].server = "wait"] /\ wallets = {}
      BY <1>8 DEF DkgHandler, WalletExists
    <2>2. QED
      BY <2>1
  <1>9. CASE HandlerPeer(c)
    BY <1>9 DEF HandlerPeer, ServerReceives
  <1>10. CASE HandlerMetadataAck(c)
    BY <1>10, ReadAck DEF HandlerMetadataAck, ServerReceives
  <1>11. CASE HandlerProcess(c)
    <2>1. /\ main[c].server = "tss"
          /\ UNCHANGED <<done, wallets>>
          /\ \/ main' = [main EXCEPT ![c].server = "ret"]
             \/ main' = [main EXCEPT ![c].server = "store"]
      BY <1>11 DEF HandlerProcess, HandlerReturns
    <2>2. QED
      BY <2>1
  <1>12. CASE StoreWallet(c)
    BY <1>12 DEF StoreWallet
  <1>13. CASE HandlerSendMetadata(c)
    BY <1>13 DEF HandlerSendMetadata, HandlerReturns, Over
  <1>14. CASE HandlerFinish(c)
    BY <1>14 DEF HandlerFinish, HandlerReturns, Over
  <1>15. CASE ReceiveTss(c)
    BY <1>15 DEF ReceiveTss, ServerReceives, ClientReceives
  <1>16. CASE ReadEnds(c)
    BY <1>16 DEF ReadEnds, ServerReceives, ClientReceives, Report
  <1>17. CASE \E s \in Sides : MakeLast(c, s)
    BY <1>17 DEF MakeLast
  <1>18. CASE \E s \in Sides : TssSend(c, s)
    BY <1>18 DEF TssSend, TssSendLoops
  <1>19. CASE \E s \in Sides : TssDone(c, s)
    BY <1>19 DEF TssDone
  <1>20. CASE DialFails(c)
    BY <1>20 DEF DialFails, Fault
  <1>21. CASE HandlerPeerFails(c)
    BY <1>21 DEF HandlerPeerFails, ServerReceives, Fault, Report
  <1>22. CASE ReceiveTssFails(c)
    BY <1>22 DEF ReceiveTssFails, ServerReceives, ClientReceives, Fault,
       Report
  <1>23. CASE StoreWalletFails(c)
    BY <1>23 DEF StoreWalletFails, HandlerReturns, Over, Fault
  <1>24. CASE Drop(c)
    BY <1>24 DEF Drop, Fault
  <1>25. CASE \E s \in Sides : TssFails(c, s)
    BY <1>25 DEF TssFails, Fault
  <1>26. CASE \E s \in Sides : TssSendFails(c, s)
    BY <1>26 DEF TssSendFails, TssSendLoops, Report
  <1>27. QED
    BY <1>1, <1>2, <1>3, <1>4, <1>5, <1>6, <1>7, <1>8, <1>9, <1>10,
       <1>11, <1>12, <1>13, <1>14, <1>15, <1>16, <1>17, <1>18, <1>19,
       <1>20, <1>21, <1>22, <1>23, <1>24, <1>25, <1>26 DEF Step,
       ClientSteps, HandlerSteps, Failures

\* The key generation of a stored wallet.
LEMMA StepTss ==
    ASSUME IInv, NEW c \in Calls, Step(c)
    PROVE  TssInv'
  <1> USE StateTypes DEF IInv, TssInv, goVars, netVars, tssVars, Sides
  <1>1. CASE DkgCall(c)
    BY <1>1 DEF DkgCall
  <1>2. CASE Probe(c)
    BY <1>2 DEF Probe
  <1>3. CASE SendPeerId(c)
    <2>1. /\ main[c].client = "dial"
          /\ UNCHANGED wallets
          /\ \/ /\ main' = [main EXCEPT ![c].client = "tss"]
                /\ tss' = [tss EXCEPT ![c]["client"] = "run"]
             \/ /\ main' = [main EXCEPT ![c].client = "err"]
                /\ UNCHANGED tss
      BY <1>3 DEF SendPeerId
    <2>2. QED
      BY <2>1
  <1>4. CASE ClientMetadata(c)
    BY <1>4 DEF ClientMetadata, ClientReceives, Report
  <1>5. CASE ClientTssFailed(c)
    BY <1>5 DEF ClientTssFailed, ClientReturns, Over
  <1>6. CASE ClientTssDone(c)
    BY <1>6 DEF ClientTssDone, ClientReturns, Over
  <1>7. CASE ClientServerDone(c)
    BY <1>7 DEF ClientServerDone, ClientReturns, Over
  <1>8. CASE DkgHandler(c)
    BY <1>8 DEF DkgHandler, WalletExists
  <1>9. CASE HandlerPeer(c)
    BY <1>9 DEF HandlerPeer, ServerReceives
  <1>10. CASE HandlerMetadataAck(c)
    BY <1>10 DEF HandlerMetadataAck, ServerReceives
  <1>11. CASE HandlerProcess(c)
    BY <1>11 DEF HandlerProcess, HandlerReturns, Over
  <1>12. CASE StoreWallet(c)
    BY <1>12 DEF StoreWallet
  <1>13. CASE HandlerSendMetadata(c)
    BY <1>13 DEF HandlerSendMetadata, HandlerReturns, Over
  <1>14. CASE HandlerFinish(c)
    BY <1>14 DEF HandlerFinish, HandlerReturns, Over
  <1>15. CASE ReceiveTss(c)
    BY <1>15 DEF ReceiveTss, ServerReceives, ClientReceives
  <1>16. CASE ReadEnds(c)
    BY <1>16 DEF ReadEnds, ServerReceives, ClientReceives, Report
  <1>17. CASE \E s \in Sides : MakeLast(c, s)
    BY <1>17 DEF MakeLast
  <1>18. CASE \E s \in Sides : TssSend(c, s)
    BY <1>18 DEF TssSend, TssSendLoops
  <1>19. CASE \E s \in Sides : TssDone(c, s)
    BY <1>19 DEF TssDone
  <1>20. CASE DialFails(c)
    BY <1>20 DEF DialFails, Fault
  <1>21. CASE HandlerPeerFails(c)
    BY <1>21 DEF HandlerPeerFails, ServerReceives, Fault, Report
  <1>22. CASE ReceiveTssFails(c)
    BY <1>22 DEF ReceiveTssFails, ServerReceives, ClientReceives, Fault,
       Report
  <1>23. CASE StoreWalletFails(c)
    BY <1>23 DEF StoreWalletFails, HandlerReturns, Over, Fault
  <1>24. CASE Drop(c)
    BY <1>24 DEF Drop, Fault
  <1>25. CASE \E s \in Sides : TssFails(c, s)
    BY <1>25 DEF TssFails, Fault
  <1>26. CASE \E s \in Sides : TssSendFails(c, s)
    BY <1>26 DEF TssSendFails, TssSendLoops, Report
  <1>27. QED
    BY <1>1, <1>2, <1>3, <1>4, <1>5, <1>6, <1>7, <1>8, <1>9, <1>10,
       <1>11, <1>12, <1>13, <1>14, <1>15, <1>16, <1>17, <1>18, <1>19,
       <1>20, <1>21, <1>22, <1>23, <1>24, <1>25, <1>26 DEF Step,
       ClientSteps, HandlerSteps, Failures

\* One call at a time.
LEMMA StepOne ==
    ASSUME IInv, NEW c \in Calls, Step(c)
    PROVE  OneInv'
  <1>0. TypeOK /\ OneInv
    BY DEF IInv
  <1> USE <1>0 DEF goVars, netVars, tssVars
  <1>1. CASE DkgCall(c)
    <2>1. \A d \in Calls : d # c => Active(d)' = Active(d)
      BY <1>1, StateTypes DEF DkgCall, Active
    <2>2. OneAtATime => \A d \in Calls : ~Active(d)
      BY <1>1 DEF DkgCall, Active
    <2>3. UNCHANGED wallets /\ \A d \in Calls : main'[d].server = main[d].server
      BY <1>1, StateTypes DEF DkgCall
    <2>4. QED
      BY <2>1, <2>2, <2>3 DEF OneInv
  <1>2. CASE Probe(c)
    BY <1>2, ClientMoves DEF Probe, ClientStates, Returned
  <1>3. CASE SendPeerId(c)
    BY <1>3, ClientMoves DEF SendPeerId, ClientStates, Returned
  <1>4. CASE ClientMetadata(c)
    BY <1>4 DEF OneInv, Active, ClientMetadata
  <1>5. CASE ClientTssFailed(c)
    BY <1>5, ClientMoves DEF ClientTssFailed, ClientReturns, ClientStates,
       Returned
  <1>6. CASE ClientTssDone(c)
    BY <1>6, ClientMoves DEF ClientTssDone, ClientReturns, ClientStates,
       Returned
  <1>7. CASE ClientServerDone(c)
    BY <1>7, ClientMoves DEF ClientServerDone, ClientReturns, ClientStates,
       Returned
  <1>8. CASE DkgHandler(c)
    <2>1. Active(c)
      BY <1>8 DEF DkgHandler, Active, Returned
    <2>2. CASE main' = [main EXCEPT ![c].client = "err"]
      BY <1>8, <2>2, ClientMoves DEF DkgHandler, ClientStates, Returned
    <2>3. CASE main' = [main EXCEPT ![c].server = "wait"] /\ ~WalletExists
      BY <1>8, <2>1, <2>3, HandlerMoves
         DEF DkgHandler, HandlerStates, WalletExists
    <2>4. QED
      BY <1>8, <2>2, <2>3 DEF DkgHandler
  <1>9. CASE HandlerPeer(c)
    <2>1. OneAtATime => wallets = {}
      BY <1>9 DEF HandlerPeer, OneInv
    <2>2. QED
      BY <1>9, <2>1, HandlerMoves DEF HandlerPeer, HandlerStates, Active
  <1>10. CASE HandlerMetadataAck(c)
    BY <1>10 DEF OneInv, Active, HandlerMetadataAck
  <1>11. CASE HandlerProcess(c)
    <2>1. OneAtATime => wallets = {}
      BY <1>11 DEF HandlerProcess, OneInv
    <2>2. QED
      BY <1>11, <2>1, HandlerMoves DEF HandlerProcess, HandlerReturns,
         HandlerStates, Active
  <1>12. CASE StoreWallet(c)
    <2>1. Active(c) /\ (OneAtATime => wallets = {})
      BY <1>12 DEF StoreWallet, Active, OneInv
    <2>2. \A d \in Calls : Active(d)' => Active(d)
      BY <1>12, StateTypes DEF StoreWallet, Active
    <2>3. \A d \in Calls :
             main'[d].server = IF d = c THEN "stored" ELSE main[d].server
      BY <1>12, StateTypes DEF StoreWallet
    <2>4. \A d \in Calls :
             main[d].server \in {"wait", "tss", "store"} => Active(d)
      BY DEF Active
    <2>5. wallets' = wallets \cup {c}
      BY <1>12 DEF StoreWallet
    <2>6. QED
      BY <2>1, <2>2, <2>3, <2>4, <2>5 DEF OneInv
  <1>13. CASE HandlerSendMetadata(c)
    BY <1>13, HandlerMoves DEF HandlerSendMetadata, HandlerReturns,
       HandlerStates, Active
  <1>14. CASE HandlerFinish(c)
    BY <1>14, HandlerMoves DEF HandlerFinish, HandlerReturns, HandlerStates,
       Active
  <1>15. CASE ReceiveTss(c)
    BY <1>15 DEF OneInv, Active, ReceiveTss
  <1>16. CASE ReadEnds(c)
    BY <1>16 DEF OneInv, Active, ReadEnds
  <1>17. CASE \E s \in Sides : MakeLast(c, s)
    BY <1>17 DEF OneInv, Active, MakeLast
  <1>18. CASE \E s \in Sides : TssSend(c, s)
    BY <1>18 DEF OneInv, Active, TssSend
  <1>19. CASE \E s \in Sides : TssDone(c, s)
    BY <1>19 DEF OneInv, Active, TssDone
  <1>20. CASE DialFails(c)
    BY <1>20, ClientMoves DEF DialFails, ClientStates, Returned
  <1>21. CASE HandlerPeerFails(c)
    BY <1>21 DEF OneInv, Active, HandlerPeerFails
  <1>22. CASE ReceiveTssFails(c)
    BY <1>22 DEF OneInv, Active, ReceiveTssFails
  <1>23. CASE StoreWalletFails(c)
    BY <1>23, HandlerMoves DEF StoreWalletFails, HandlerReturns,
       HandlerStates, Active
  <1>24. CASE Drop(c)
    BY <1>24 DEF OneInv, Active, Drop
  <1>25. CASE \E s \in Sides : TssFails(c, s)
    BY <1>25 DEF OneInv, Active, TssFails
  <1>26. CASE \E s \in Sides : TssSendFails(c, s)
    BY <1>26 DEF OneInv, Active, TssSendFails
  <1>27. QED
    BY <1>1, <1>2, <1>3, <1>4, <1>5, <1>6, <1>7, <1>8, <1>9, <1>10,
       <1>11, <1>12, <1>13, <1>14, <1>15, <1>16, <1>17, <1>18, <1>19,
       <1>20, <1>21, <1>22, <1>23, <1>24, <1>25, <1>26 DEF Step,
       ClientSteps, HandlerSteps, Failures

-----------------------------------------------------------------------------
LEMMA InitIInv == Init => IInv
  <1> SUFFICES ASSUME Init PROVE IInv
    OBVIOUS
  <1>1. TypeOK
    BY DkgAssumption DEF Init, TypeOK, ClientStates, HandlerStates, Sides
  <1>2. \A c \in Calls, m \in Msgs : ~In(m, toServer[c]) /\ ~In(m, toClient[c])
    BY DEF Init, In
  <1>3. ChainInv
    BY <1>2, Known DEF Init, ChainInv
  <1>4. TssInv
    BY DEF Init, TssInv, Sides
  <1>5. OneInv
    BY DEF Init, OneInv, Active
  <1>6. QED
    BY <1>1, <1>3, <1>4, <1>5 DEF IInv

LEMMA NextIInv == IInv /\ [Next]_vars => IInv'
  <1> SUFFICES ASSUME IInv, [Next]_vars PROVE IInv'
    OBVIOUS
  <1>1. CASE UNCHANGED vars
    BY <1>1 DEF vars, goVars, netVars, tssVars, IInv, TypeOK, ChainInv, TssInv,
       OneInv, Active
  <1>2. ASSUME NEW c \in Calls, Step(c) PROVE IInv'
    BY <1>2, StepTypes, StepChain, StepTss, StepOne DEF IInv
  <1>3. QED
    BY <1>1, <1>2 DEF Next, Step

\* The inductive invariant is an invariant of the specification.
THEOREM Inductive == Spec => []IInv
  <1>1. QED
    BY InitIInv, NextIInv, PTL DEF Spec

\* The variables of Dkg keep their types.
THEOREM TypeCorrect == Spec => []TypeOK
  <1>1. IInv => TypeOK
    BY DEF IInv
  <1>2. QED
    BY <1>1, Inductive, PTL

\* DkgHandler ends normally only after the client got the metadata of a stored
\* wallet.
THEOREM NormalEndDelivers == Spec => []NormalEndMeansDelivered
  <1>1. IInv => NormalEndMeansDelivered
    BY DEF IInv, ChainInv, NormalEndMeansDelivered
  <1>2. QED
    BY <1>1, Inductive, PTL

\* If calls of Dkg never overlap, a share that Dkg returns matches the only
\* wallet of the user.
THEOREM ReturnsUsable == Spec => [](OneAtATime => ReturnedIsUsable)
  <1>1. IInv => (OneAtATime => ReturnedIsUsable)
    BY StateTypes DEF IInv, ChainInv, TssInv, OneInv, ReturnedIsUsable, Sides
  <1>2. QED
    BY <1>1, Inductive, PTL
=============================================================================
