--------------------------- MODULE AddShare_proofs ---------------------------
(***************************************************************************)
(* Proofs about AddShare, whatever the order of the goroutines and of the  *)
(* messages: no message is lost, discarded or too early, and the steps are *)
(* steps of ShareProtocol.                                                 *)
(***************************************************************************)
EXTENDS AddShare, Integers, FiniteSetTheorems, TLAPS

-----------------------------------------------------------------------------
(* The messages in the queues of the connections.                          *)

\* Message m is in flight in queue q.
In(m, q) == \E i \in 1..Len(q) : q[i] = m

\* Appending, taking the head and cutting a sequence: what was written on a
\* connection is read from it, and nothing else.
LEMMA InAppend ==
    ASSUME NEW M, NEW q \in Seq(M), NEW m \in M, NEW x \in M,
           In(x, Append(q, m))
    PROVE  In(x, q) \/ x = m
  <1>1. PICK i \in 1..Len(Append(q, m)) : Append(q, m)[i] = x
    BY DEF In
  <1>2. i \in 1..(Len(q) + 1) /\ Len(q) \in Nat
    BY <1>1
  <1>3. CASE i = Len(q) + 1
    BY <1>1, <1>3
  <1>4. CASE i \in 1..Len(q)
    BY <1>1, <1>4 DEF In
  <1>5. QED
    BY <1>2, <1>3, <1>4

LEMMA InTail ==
    ASSUME NEW M, NEW q \in Seq(M), q # <<>>, NEW x \in M, In(x, Tail(q))
    PROVE  In(x, q)
  <1>1. PICK i \in 1..Len(Tail(q)) : Tail(q)[i] = x
    BY DEF In
  <1>2. i + 1 \in 1..Len(q) /\ q[i + 1] = x
    BY <1>1
  <1>3. QED
    BY <1>2 DEF In

LEMMA InHead ==
    ASSUME NEW M, NEW q \in Seq(M), q # <<>>
    PROVE  In(Head(q), q)
  <1>1. 1 \in 1..Len(q) /\ q[1] = Head(q)
    OBVIOUS
  <1>2. QED
    BY <1>1 DEF In

\* Concatenation, for messages written before a connection is closed.
LEMMA InConcat ==
    ASSUME NEW M, NEW q \in Seq(M), NEW ms \in Seq(M), NEW x \in M,
           In(x, q \o ms)
    PROVE  In(x, q) \/ In(x, ms)
  <1>1. PICK i \in 1..Len(q \o ms) : (q \o ms)[i] = x
    BY DEF In
  <1>2. CASE i <= Len(q)
    BY <1>1, <1>2 DEF In
  <1>3. CASE i > Len(q)
    <2>1. i - Len(q) \in 1..Len(ms) /\ ms[i - Len(q)] = x
      BY <1>1, <1>3
    <2>2. QED
      BY <2>1 DEF In
  <1>4. QED
    BY <1>2, <1>3

\* Queues of messages M, one for each connection of K.
QueuesOf(K, M) == [K -> Seq(M)]

\* qq has no message that q did not have, but those of S on connection c.
Adds(K, M, q, qq, c, S) ==
    \A d \in K, x \in M : In(x, qq[d]) => In(x, q[d]) \/ (d = c /\ x \in S)

\* A write adds its message.
LEMMA AppendAdds ==
    ASSUME NEW K, NEW M, NEW q \in QueuesOf(K, M), NEW c \in K, NEW m \in M
    PROVE  /\ [q EXCEPT ![c] = Append(@, m)] \in QueuesOf(K, M)
           /\ Adds(K, M, q, [q EXCEPT ![c] = Append(@, m)], c, {m})
  <1>1. \A d \in K : q[d] \in Seq(M)
    BY DEF QueuesOf
  <1>2. Append(q[c], m) \in Seq(M)
    BY <1>1
  <1>3. ASSUME NEW d \in K, NEW x \in M,
               In(x, [q EXCEPT ![c] = Append(@, m)][d])
        PROVE  In(x, q[d]) \/ (d = c /\ x = m)
    <2>1. CASE d = c
      <3>1. In(x, Append(q[c], m))
        BY <1>3, <2>1 DEF QueuesOf
      <3>2. QED
        BY <3>1, <2>1, <1>1, InAppend
    <2>2. CASE d # c
      BY <1>3, <2>2 DEF QueuesOf
    <2>3. QED
      BY <2>1, <2>2
  <1>4. QED
    BY <1>2, <1>3 DEF QueuesOf, Adds

\* A read only removes the message it returns.
LEMMA TailAdds ==
    ASSUME NEW K, NEW M, NEW q \in QueuesOf(K, M), NEW c \in K, q[c] # <<>>
    PROVE  /\ [q EXCEPT ![c] = Tail(@)] \in QueuesOf(K, M)
           /\ Adds(K, M, q, [q EXCEPT ![c] = Tail(@)], c, {})
           /\ In(Head(q[c]), q[c])
           /\ Head(q[c]) \in M
  <1>1. \A d \in K : q[d] \in Seq(M)
    BY DEF QueuesOf
  <1>2. ASSUME NEW d \in K, NEW x \in M, In(x, [q EXCEPT ![c] = Tail(@)][d])
        PROVE  In(x, q[d])
    <2>1. CASE d = c
      <3>1. In(x, Tail(q[c]))
        BY <1>2, <2>1 DEF QueuesOf
      <3>2. QED
        BY <3>1, <2>1, <1>1, InTail
    <2>2. CASE d # c
      BY <1>2, <2>2 DEF QueuesOf
    <2>3. QED
      BY <2>1, <2>2
  <1>3. Head(q[c]) \in M /\ Tail(q[c]) \in Seq(M)
    BY <1>1
  <1>4. In(Head(q[c]), q[c])
    BY <1>1, InHead
  <1>5. QED
    BY <1>2, <1>3, <1>4 DEF QueuesOf, Adds


-----------------------------------------------------------------------------
(* The inductive invariant.  The parts about the network are stated for    *)
(* queues ts, wires w, handled messages h and rounds r.                    *)

IsTss(m) == m.kind \in TssKinds

\* A message on its way from end e: from the client's device, or to it.
Home(e, m) == IF e[2] = "client" THEN m.from = e[1] ELSE m.PeerID = e[1]

\* A queue holds TSS messages of the protocol, a wire also control messages, each
\* on its way; a process gets the messages for its party.
Routed(ts, w, h) ==
    /\ \A e \in Ends, m \in Message :
          /\ In(m, ts[e]) => m \in Protocol /\ Home(e, m)
          /\ In(m, w[e])  => Home(Peer(e), m) /\ (IsTss(m) => m \in Protocol)
    /\ \A p \in Parties : \A m \in h[p] : m \in Protocol /\ m.PeerID = p

\* A TSS message exists once its sender has ended the round that sends it.
Caused(ts, w, h, r) ==
    /\ \A e \in Ends, m \in Message :
          In(m, ts[e]) \/ (In(m, w[e]) /\ IsTss(m)) => r[m.from] > SentIn(m.kind)
    /\ \A p \in Parties : \A m \in h[p] : r[m.from] > SentIn(m.kind)

\* No TSS message is twice in queue q.
Once(q) == \A i, j \in 1..Len(q) : q[i] = q[j] /\ IsTss(q[i]) => i = j

OnceEach(q) == \A e \in Ends : Once(q[e])

\* A TSS message is at one place, and at none once it is handled.
Sole(ts, w, h) ==
    \A e, f \in Ends, m \in Protocol :
        /\ In(m, ts[e]) /\ In(m, ts[f]) => e = f
        /\ In(m, w[e]) /\ In(m, w[f]) => e = f
        /\ ~(In(m, ts[e]) /\ In(m, w[f]))
        /\ In(m, ts[e]) \/ In(m, w[e]) => m \notin h[m.PeerID]

Net(ts, w, h, r) ==
    /\ Routed(ts, w, h)
    /\ Caused(ts, w, h, r)
    /\ OnceEach(ts) /\ OnceEach(w)
    /\ Sole(ts, w, h)

\* A party has what it awaited, and no round before its main has started it.
RoundInv ==
    /\ \A p \in Parties, m \in Protocol :
          m.PeerID = p /\ round[p] > AwaitedIn(m.kind) => m \in handled[p]
    /\ \A p \in Parties : main[ProcessEnd(p)] = "start" => round[p] = 0
    /\ \A p \in Parties : round[p] <= LastRound(p) + 1

\* What a client is told to start with is the first that it gets, and a handler
\* sends nothing before.
StartInv ==
    /\ \A d \in Devices :
          /\ reader[Handler(d)] \in {"adder", "write", "startTss"} =>
                main[Handler(d)] = "start" /\ sender[Handler(d)] = "off"
          /\ reader[Handler(d)] \in {"adder", "write"} => wire[Client(d)] = <<>>
          /\ d \notin adder /\ reader[Handler(d)] \notin {"adder", "write"} =>
                /\ wire[Client(d)] # <<>>
                /\ Head(wire[Client(d)]).kind \in {"pubkey", "metadataAck"}
          /\ reader[Handler(d)] # "adder" => Server \in adder
    /\ "adder" \in chan => Server \in adder

\* The process is done only after both readers of the server set the stage.
StageInv ==
    /\ \A m \in handled[Server] : reader[Handler(m.from)] = "loop"
    /\ \A e \in Ends : stage[e] = 40 => ProcessDone(Party(e))

AllDone == \A p \in Parties : ProcessDone(p)

\* The messages and channels of the end of the session.
Ending(m) == m.kind \in {"metadata", "everythingStored", "newDeviceDone",
                         "existingDeviceDone"}

\* The session is past the process.
Closing ==
    \/ main[Handler(New)] = "wait"
    \/ "newDeviceDone" \in chan
    \/ "existingDeviceDone" \in chan
    \/ serverDone # {}
    \/ \E e \in Ends : main[e] = "ret" \/ sender[e] = "ret"

\* Who says that the existing device is done is right; what comes after that is
\* the end of the process of every party.
DoneInv ==
    /\ \A e \in Ends : main[e] \notin {"start", "process"} => ProcessDone(Party(e))
    /\ \A e \in Ends, m \in Message :
          In(m, wire[e]) => /\ m.kind = "tssDone" => ProcessDone(Existing)
                            /\ Ending(m) => AllDone
    /\ "existingDeviceTssDone" \in chan => ProcessDone(Existing)
    /\ Closing => AllDone

IInv ==
    /\ TypeOK
    /\ Net(toSend, wire, handled, round)
    /\ RoundInv
    /\ StartInv
    /\ StageInv
    /\ DoneInv

-----------------------------------------------------------------------------
(* The ends, the parties and the messages.                                 *)

LEMMA EndFacts ==
    /\ \A d \in Devices : Client(d) \in Ends /\ Handler(d) \in Ends
    /\ \A e \in Ends : /\ Peer(e) \in Ends /\ Peer(e) # e /\ Peer(Peer(e)) = e
                       /\ Party(e) \in Parties
    /\ \A d \in Devices : /\ Peer(Client(d)) = Handler(d) /\ Peer(Handler(d)) = Client(d)
                          /\ Party(Client(d)) = d /\ Party(Handler(d)) = Server
    /\ \A e \in Ends : \E d \in Devices : e = Client(d) \/ e = Handler(d)
    /\ \A c, d \in Devices : /\ Client(c) # Handler(d)
                             /\ Client(c) = Client(d) => c = d
                             /\ Handler(c) = Handler(d) => c = d
  BY DEF Ends, Client, Handler, Peer, Party, Parties

LEMMA PartyFacts ==
    /\ New \in Devices /\ Existing \in Devices /\ New # Existing
    /\ Server \notin Devices /\ Server \in Parties
    /\ Devices \subseteq Parties
    /\ \A d \in Devices : d = New \/ d = Existing
    /\ \A p \in Parties : p = New \/ p = Existing \/ p = Server
    /\ \A p \in Parties : ProcessEnd(p) \in Ends
    /\ \A p, q \in Parties : ProcessEnd(p) = ProcessEnd(q) => p = q
    /\ \A p \in Parties : Party(ProcessEnd(p)) = p
    /\ \A p \in Parties : ProcessEnd(p) # Handler(New)
  BY PartiesAssumption DEF Devices, Parties, ProcessEnd, Client, Handler, Ends, Party

\* The way of a message, end by end.
LEMMA HomeFacts ==
    \A d \in Devices, m \in Message :
        /\ Home(Client(d), m) <=> m.from = d
        /\ Home(Handler(d), m) <=> m.PeerID = d
  BY DEF Home, Client, Handler

LEMMA QueueFacts ==
    \A p, q \in Parties : p # q =>
        /\ p = Server => QueueOf(p, q) = Handler(q) /\ q \in Devices
        /\ p # Server => QueueOf(p, q) = Client(p) /\ p \in Devices
        /\ QueueOf(p, q) \in Ends
  BY PartiesAssumption DEF QueueOf, Parties, Devices, Client, Handler, Ends

LEMMA ProtocolFacts ==
    \A m \in Protocol :
        /\ m \in Message /\ IsTss(m)
        /\ m.from \in Parties /\ m.PeerID \in Parties /\ m.from # m.PeerID
  BY DEF Protocol, Message, IsTss, TssKinds

LEMMA KindFacts ==
    \A m \in Message : m.kind \in Controls => ~IsTss(m)
  BY DEF Message, IsTss, TssKinds, Controls

\* What the checks of the stage compare with.
LEMMA StageFacts == \A k \in Staged : MsgStage(k) \in Nat /\ MsgStage(k) >= 40
  <1>1. \A k \in TssKinds : MsgStage(k) = 40
    BY Zenon DEF MsgStage, TssKinds
  <1>2. MsgStage("tssDone") = 50
    BY Zenon DEF MsgStage, TssKinds
  <1>3. MsgStage("newDeviceDone") = 80 /\ MsgStage("existingDeviceDone") = 80
    BY Zenon DEF MsgStage, TssKinds
  <1>4. QED
    BY <1>1, <1>2, <1>3 DEF Staged

LEMMA AwaitedFacts ==
    /\ AwaitedIn("oldPeer") = 1 /\ AwaitedIn("newBk") = 2 /\ AwaitedIn("result") = 2
    /\ AwaitedIn("compute") = 3 /\ AwaitedIn("verify") = 4
  BY Zenon DEF AwaitedIn

LEMMA RoundFacts ==
    \A m \in Protocol :
        /\ AwaitedIn(m.kind) \in 1..4 /\ SentIn(m.kind) \in 1..3
        /\ AwaitedIn(m.kind) <= LastRound(m.PeerID)
        /\ SentIn(m.kind) <= LastRound(m.from)
  BY AwaitedFacts DEF Protocol, SentIn, LastRound

-----------------------------------------------------------------------------
(* A message at one place.                                                 *)

LEMMA OnceAppend ==
    ASSUME NEW q \in Seq(Message), NEW m \in Message, Once(q), ~IsTss(m) \/ ~In(m, q)
    PROVE  Once(Append(q, m))
  <1> DEFINE s == Append(q, m)
  <1>1. Len(q) \in Nat /\ Len(s) = Len(q) + 1 /\ s[Len(q) + 1] = m
    OBVIOUS
  <1>2. \A i \in 1..Len(q) : s[i] = q[i]
    OBVIOUS
  <1> HIDE DEF s
  <1>3. ASSUME NEW i \in 1..Len(s), NEW j \in 1..Len(s), s[i] = s[j], IsTss(s[i]), i < j
        PROVE  FALSE
    <2>1. i \in 1..Len(q) /\ s[i] = q[i]
      BY <1>1, <1>2, <1>3
    <2>2. CASE j \in 1..Len(q)
      <3>1. q[i] = q[j] /\ IsTss(q[i])
        BY <1>2, <1>3, <2>1, <2>2
      <3>2. i = j
        BY <2>1, <2>2, <3>1 DEF Once
      <3>3. QED
        BY <1>1, <1>3, <3>2
    <2>3. CASE j = Len(q) + 1
      BY <1>1, <1>3, <2>1, <2>3 DEF In
    <2>4. QED
      BY <1>1, <2>2, <2>3
  <1>4. \A i, j \in 1..Len(s) : s[i] = s[j] /\ IsTss(s[i]) => i = j
    <2>1. SUFFICES ASSUME NEW i \in 1..Len(s), NEW j \in 1..Len(s), s[i] = s[j], IsTss(s[i])
                   PROVE  i = j
      OBVIOUS
    <2>2. ~(i < j)
      BY <1>3, <2>1
    <2>3. ~(j < i)
      BY <1>3, <2>1
    <2>4. QED
      BY <1>1, <2>2, <2>3
  <1>5. QED
    BY <1>4 DEF Once, s

LEMMA OnceTail ==
    ASSUME NEW q \in Seq(Message), q # <<>>, Once(q)
    PROVE  Once(Tail(q)) /\ (IsTss(Head(q)) => ~In(Head(q), Tail(q)))
  <1>1. Len(q) \in Nat /\ Len(q) > 0 /\ Len(Tail(q)) = Len(q) - 1 /\ Head(q) = q[1]
    OBVIOUS
  <1>2. \A i \in 1..Len(q) - 1 : Tail(q)[i] = q[i + 1]
    OBVIOUS
  <1>3. Once(Tail(q))
    BY <1>1, <1>2 DEF Once
  <1>4. ASSUME IsTss(Head(q)), In(Head(q), Tail(q))
        PROVE  FALSE
    <2>1. PICK i \in 1..Len(q) - 1 : Tail(q)[i] = q[1]
      BY <1>1, <1>4 DEF In
    <2>2. q[i + 1] = q[1] /\ i + 1 \in 1..Len(q) /\ 1 \in 1..Len(q) /\ i + 1 # 1
      BY <1>1, <1>2, <2>1
    <2>3. QED
      BY <1>1, <1>4, <2>2 DEF Once
  <1>5. QED
    BY <1>3, <1>4

LEMMA OnceConcat ==
    ASSUME NEW q \in Seq(Message), NEW s \in Seq(Message), Once(q), Once(s),
           \A m \in Message : ~(In(m, q) /\ In(m, s))
    PROVE  Once(q \o s)
  <1> DEFINE t == q \o s
  <1>1. Len(q) \in Nat /\ Len(s) \in Nat /\ Len(t) = Len(q) + Len(s)
    OBVIOUS
  <1>2. /\ \A i \in 1..Len(q) : t[i] = q[i]
        /\ \A i \in 1..Len(t) : i > Len(q) => t[i] = s[i - Len(q)]
    OBVIOUS
  <1> HIDE DEF t
  <1>3. ASSUME NEW i \in 1..Len(t), NEW j \in 1..Len(t), t[i] = t[j], IsTss(t[i]), i < j
        PROVE  FALSE
    <2>1. CASE j <= Len(q)
      BY <1>1, <1>2, <1>3, <2>1 DEF Once
    <2>2. CASE i > Len(q)
      <3>1. /\ i - Len(q) \in 1..Len(s) /\ j - Len(q) \in 1..Len(s) /\ i - Len(q) # j - Len(q)
            /\ t[i] = s[i - Len(q)] /\ t[j] = s[j - Len(q)]
        BY <1>1, <1>2, <1>3, <2>2
      <3>2. QED
        BY <1>3, <3>1 DEF Once
    <2>3. CASE i <= Len(q) /\ j > Len(q)
      <3>1. /\ i \in 1..Len(q) /\ j - Len(q) \in 1..Len(s)
            /\ t[i] = q[i] /\ t[j] = s[j - Len(q)]
        BY <1>1, <1>2, <1>3, <2>3
      <3>2. q[i] = s[j - Len(q)]
        BY <1>3, <3>1
      <3>3. q[i] \in Message
        BY <3>1
      <3>4. In(q[i], q) /\ In(q[i], s)
        BY <3>1, <3>2 DEF In
      <3>5. QED
        BY <3>4, <3>3
    <2>4. QED
      BY <1>1, <2>1, <2>2, <2>3
  <1>4. \A i, j \in 1..Len(t) : t[i] = t[j] /\ IsTss(t[i]) => i = j
    <2>1. SUFFICES ASSUME NEW i \in 1..Len(t), NEW j \in 1..Len(t), t[i] = t[j], IsTss(t[i])
                   PROVE  i = j
      OBVIOUS
    <2>2. ~(i < j)
      BY <1>3, <2>1
    <2>3. ~(j < i)
      BY <1>3, <2>1
    <2>4. QED
      BY <1>1, <2>2, <2>3
  <1>5. QED
    BY <1>4 DEF Once, t

Queued == QueuesOf(Ends, Message)

\* A message is written to queue e, and the head of queue e is taken.
LEMMA Put ==
    ASSUME NEW q \in Queued, NEW e \in Ends, NEW m \in Message, OnceEach(q),
           ~IsTss(m) \/ ~In(m, q[e]),
           NEW qq, qq = [q EXCEPT ![e] = Append(@, m)]
    PROVE  qq \in Queued /\ Adds(Ends, Message, q, qq, e, {m}) /\ OnceEach(qq)
  <1>1. qq \in Queued /\ Adds(Ends, Message, q, qq, e, {m})
    BY AppendAdds DEF Queued
  <1>2. \A f \in Ends : q[f] \in Seq(Message) /\ Once(q[f])
    BY DEF Queued, QueuesOf, OnceEach
  <1>3. Once(Append(q[e], m))
    BY <1>2, OnceAppend
  <1>4. \A f \in Ends : qq[f] = IF f = e THEN Append(q[e], m) ELSE q[f]
    BY DEF Queued, QueuesOf
  <1>5. QED
    BY <1>1, <1>2, <1>3, <1>4 DEF OnceEach

\* The queues qq without the first message of e.
Shifted(q, qq, e) == qq = [q EXCEPT ![e] = Tail(@)]

LEMMA Got ==
    ASSUME NEW q \in Queued, NEW e \in Ends, q[e] # <<>>, OnceEach(q),
           NEW qq, Shifted(q, qq, e)
    PROVE  /\ qq \in Queued /\ Adds(Ends, Message, q, qq, e, {}) /\ OnceEach(qq)
           /\ Head(q[e]) \in Message /\ In(Head(q[e]), q[e])
           /\ IsTss(Head(q[e])) => ~In(Head(q[e]), qq[e])
  <1>1. /\ qq \in Queued /\ Adds(Ends, Message, q, qq, e, {})
        /\ Head(q[e]) \in Message /\ In(Head(q[e]), q[e])
    BY TailAdds DEF Queued, Shifted
  <1>2. \A f \in Ends : q[f] \in Seq(Message) /\ Once(q[f])
    BY DEF Queued, QueuesOf, OnceEach
  <1>3. Once(Tail(q[e])) /\ (IsTss(Head(q[e])) => ~In(Head(q[e]), Tail(q[e])))
    BY <1>2, OnceTail
  <1>4. \A f \in Ends : qq[f] = IF f = e THEN Tail(q[e]) ELSE q[f]
    BY DEF Queued, QueuesOf, Shifted
  <1>5. QED
    BY <1>1, <1>2, <1>3, <1>4 DEF OnceEach

Handlings == [Parties -> SUBSET Message]

\* Control messages come and messages go.
LEMMA NetControl ==
    ASSUME NEW ts, NEW w, NEW h, NEW r, Net(ts, w, h, r),
           NEW ww, NEW e \in Ends, NEW S, Adds(Ends, Message, w, ww, e, S), OnceEach(ww),
           \A m \in S : m \in Message /\ ~IsTss(m) /\ Home(Peer(e), m)
    PROVE  Net(ts, ww, h, r)
  <1>1. Routed(ts, ww, h)
    BY DEF Net, Routed, Adds
  <1>2. Caused(ts, ww, h, r)
    BY DEF Net, Caused, Adds
  <1>3. Sole(ts, ww, h)
    BY ProtocolFacts DEF Net, Sole, Adds
  <1>4. QED
    BY <1>1, <1>2, <1>3 DEF Net

LEMMA NetTake ==
    ASSUME NEW ts, NEW w, NEW h, NEW r, Net(ts, w, h, r),
           NEW ww, NEW e \in Ends, Adds(Ends, Message, w, ww, e, {}), OnceEach(ww)
    PROVE  Net(ts, ww, h, r)
  <1>1. \A m \in {} : m \in Message /\ ~IsTss(m) /\ Home(Peer(e), m)
    OBVIOUS
  <1>2. QED
    BY <1>1, NetControl

\* TssSend puts a message on the wire.
LEMMA NetSend ==
    ASSUME NEW ts, NEW w, NEW h, NEW r, Net(ts, w, h, r),
           NEW tt, NEW ww, NEW e \in Ends, NEW m \in Message,
           In(m, ts[e]), ~In(m, tt[e]),
           Adds(Ends, Message, ts, tt, e, {}), OnceEach(tt),
           Adds(Ends, Message, w, ww, Peer(e), {m}), OnceEach(ww)
    PROVE  Net(tt, ww, h, r)
  <1>1. m \in Protocol /\ Home(e, m) /\ r[m.from] > SentIn(m.kind)
    BY DEF Net, Routed, Caused
  <1>2. Peer(e) \in Ends /\ Peer(Peer(e)) = e
    BY EndFacts
  <1>3. Routed(tt, ww, h)
    BY <1>1, <1>2 DEF Net, Routed, Adds
  <1>4. Caused(tt, ww, h, r)
    BY <1>1 DEF Net, Caused, Adds
  <1>5. Sole(tt, ww, h)
    <2>1. \A x \in Protocol : x \in Message
      BY ProtocolFacts
    <2>2. QED
      BY <1>1, <1>2, <2>1 DEF Net, Sole, Adds
  <1>6. QED
    BY <1>3, <1>4, <1>5 DEF Net

\* AdderGenericHandle puts a message for the other device back into the queue.
LEMMA NetRelay ==
    ASSUME NEW ts, NEW w, NEW h, NEW r, Net(ts, w, h, r),
           NEW tt, NEW ww, NEW e \in Ends, NEW f \in Ends, NEW m \in Message,
           IsTss(m), In(m, w[e]), ~In(m, ww[e]), Home(f, m),
           Adds(Ends, Message, w, ww, e, {}), OnceEach(ww),
           Adds(Ends, Message, ts, tt, f, {m}), OnceEach(tt)
    PROVE  Net(tt, ww, h, r)
  <1>1. m \in Protocol /\ r[m.from] > SentIn(m.kind)
    BY DEF Net, Routed, Caused
  <1>2. Routed(tt, ww, h)
    BY <1>1 DEF Net, Routed, Adds
  <1>3. Caused(tt, ww, h, r)
    BY <1>1 DEF Net, Caused, Adds
  <1>4. Sole(tt, ww, h)
    <2>1. \A x \in Protocol : x \in Message
      BY ProtocolFacts
    <2>2. QED
      BY <1>1, <2>1 DEF Net, Sole, Adds
  <1>5. QED
    BY <1>2, <1>3, <1>4 DEF Net

\* ... and gives one for its own party to the process.
LEMMA NetHandle ==
    ASSUME NEW ts, NEW w, NEW h \in Handlings, NEW r, Net(ts, w, h, r),
           NEW ww, NEW hh, NEW e \in Ends, NEW m \in Message,
           IsTss(m), In(m, w[e]), ~In(m, ww[e]),
           Adds(Ends, Message, w, ww, e, {}), OnceEach(ww),
           hh = [h EXCEPT ![m.PeerID] = @ \cup {m}]
    PROVE  Net(ts, ww, hh, r)
  <1>1. m \in Protocol /\ r[m.from] > SentIn(m.kind) /\ m.PeerID \in Parties
    BY ProtocolFacts DEF Net, Routed, Caused
  <1>2. \A p \in Parties : hh[p] = IF p = m.PeerID THEN h[p] \cup {m} ELSE h[p]
    BY DEF Handlings
  <1>3. Routed(ts, ww, hh)
    BY <1>1, <1>2 DEF Net, Routed, Adds
  <1>4. Caused(ts, ww, hh, r)
    BY <1>1, <1>2 DEF Net, Caused, Adds
  <1>5. Sole(ts, ww, hh)
    <2>1. \A x \in Protocol : x \in Message /\ x.PeerID \in Parties
      BY ProtocolFacts
    <2>2. \A x \in Protocol : x \notin h[x.PeerID] /\ x # m => x \notin hh[x.PeerID]
      BY <1>2, <2>1
    <2>3. \A f \in Ends : ~In(m, ts[f]) /\ ~In(m, ww[f])
      BY <1>1, <2>1 DEF Net, Sole, Adds
    <2>4. QED
      BY <2>1, <2>2, <2>3 DEF Net, Sole, Adds
  <1>6. QED
    BY <1>3, <1>4, <1>5 DEF Net

\* The messages that a round sends: of one kind, in one queue.
LEMMA SendsFacts ==
    ASSUME NEW p \in Parties, NEW k
    PROVE  /\ Sends(p, k) \subseteq Protocol
           /\ \A m, n \in Sends(p, k) : m.kind = n.kind
           /\ \A m, n \in Sends(p, k) : QueueOf(p, m.PeerID) = QueueOf(p, n.PeerID)
           /\ \A m \in Sends(p, k) : Home(QueueOf(p, m.PeerID), m)
  <1>1. Sends(p, k) \subseteq Protocol
    BY DEF Sends
  <1>2. \A m, n \in Sends(p, k) : m.kind = n.kind
    BY DEF Sends, Protocol, SentIn
  <1>3. p = Server => \A m, n \in Sends(p, k) : m.PeerID = n.PeerID
    BY PartyFacts DEF Sends, Protocol, Message, SentIn
  <1>4. \A m, n \in Sends(p, k) : QueueOf(p, m.PeerID) = QueueOf(p, n.PeerID)
    BY <1>3 DEF QueueOf
  <1>5. ASSUME NEW m \in Sends(p, k)
        PROVE  Home(QueueOf(p, m.PeerID), m)
    <2>1. m \in Message /\ m.from = p /\ m.PeerID \in Parties /\ m.PeerID # p
      BY ProtocolFacts DEF Sends
    <2>2. QED
      BY <2>1, QueueFacts, HomeFacts
  <1>6. QED
    BY <1>1, <1>2, <1>4, <1>5

LEMMA SendsFinite ==
    ASSUME NEW p \in Parties, NEW k
    PROVE  IsFiniteSet(Sends(p, k))
  <1>1. CASE Sends(p, k) = {}
    BY <1>1, FS_EmptySet
  <1>2. CASE Sends(p, k) # {}
    <2>1. PICK n \in Sends(p, k) : TRUE
      BY <1>2
    <2> DEFINE M(q) == [kind |-> n.kind, from |-> p, PeerID |-> q]
    <2>2. ASSUME NEW m \in Sends(p, k)
          PROVE  m \in {M(New), M(Existing), M(Server)}
      <3>1. m.kind = n.kind /\ m.from = p /\ m \in Message
        BY SendsFacts, ProtocolFacts DEF Sends
      <3>2. m = M(m.PeerID) /\ m.PeerID \in Parties
        BY <3>1 DEF Message
      <3>3. QED
        BY <3>2, PartyFacts
    <2> HIDE DEF M
    <2>3. IsFiniteSet({M(New)})
      BY FS_Singleton
    <2>4. IsFiniteSet({M(New)} \cup {M(Existing)})
      BY <2>3, FS_AddElement
    <2>5. IsFiniteSet({M(New)} \cup {M(Existing)} \cup {M(Server)})
      BY <2>4, FS_AddElement
    <2>6. Sends(p, k) \subseteq {M(New)} \cup {M(Existing)} \cup {M(Server)}
      BY <2>2
    <2>7. QED
      BY <2>5, <2>6, FS_Subset
  <1>3. QED
    BY <1>1, <1>2

LEMMA OrderFacts ==
    ASSUME NEW p \in Parties, NEW k, NEW order \in SetToSeqs(Sends(p, k))
    PROVE  /\ order \in Seq(Message) /\ Once(order)
           /\ \A m \in Message : In(m, order) => m \in Sends(p, k)
  <1> DEFINE n == Cardinality(Sends(p, k))
  <1>1. n \in Nat
    BY SendsFinite, FS_CardinalityType
  <1>2. order \in [1..n -> Sends(p, k)] /\ \A i, j \in 1..n : i # j => order[i] # order[j]
    BY DEF SetToSeqs
  <1>3. Sends(p, k) \subseteq Message
    BY SendsFacts, ProtocolFacts
  <1> HIDE DEF n
  <1>4. order \in Seq(Message) /\ Len(order) = n
    BY <1>1, <1>2, <1>3
  <1>5. QED
    BY <1>2, <1>4 DEF Once, In

\* The queues and the rounds when party p has sent the messages of round k.
SentOff(ts, p, k, order) ==
    [e \in Ends |-> IF \E m \in Sends(p, k) : e = QueueOf(p, m.PeerID)
                    THEN ts[e] \o order ELSE ts[e]]

Later(r, p) == [r EXCEPT ![p] = @ + 1]

\* A round sends its messages, which were nowhere before.
LEMMA NetAdvance ==
    ASSUME NEW ts \in Queued, NEW w, NEW h, NEW r \in [Parties -> 0..5], Net(ts, w, h, r),
           NEW p \in Parties, NEW order \in SetToSeqs(Sends(p, r[p])),
           NEW tt, tt = SentOff(ts, p, r[p], order), NEW rr, rr = Later(r, p)
    PROVE  tt \in Queued /\ Net(tt, w, h, rr)
  <1> DEFINE S == Sends(p, r[p])
             Fits(e) == \E m \in S : e = QueueOf(p, m.PeerID)
  <1>1. /\ order \in Seq(Message) /\ Once(order)
        /\ \A m \in Message : In(m, order) => m \in S
    BY OrderFacts
  <1>2. \A e \in Ends : ts[e] \in Seq(Message) /\ Once(ts[e])
    BY DEF Net, OnceEach, Queued, QueuesOf
  <1>3. \A m \in S : m \in Protocol /\ m \in Message /\ m.from = p /\ SentIn(m.kind) = r[p]
    BY ProtocolFacts DEF Sends
  <1>4. /\ \A m, n \in S : QueueOf(p, m.PeerID) = QueueOf(p, n.PeerID)
        /\ \A m \in S : Home(QueueOf(p, m.PeerID), m)
    BY SendsFacts
  <1> HIDE DEF S
  <1>5. ASSUME NEW m \in S
        PROVE  /\ \A e \in Ends : ~In(m, ts[e]) /\ ~In(m, w[e])
               /\ \A q \in Parties : m \notin h[q]
    <2>1. ~(r[m.from] > SentIn(m.kind)) /\ IsTss(m) /\ m \in Message
      BY <1>3, ProtocolFacts
    <2>2. QED
      BY <2>1 DEF Net, Caused
  <1>6. ASSUME NEW e \in Ends
        PROVE  /\ tt[e] \in Seq(Message) /\ Once(tt[e])
               /\ \A x \in Message :
                     In(x, tt[e]) => In(x, ts[e]) \/ (x \in S /\ e = QueueOf(p, x.PeerID))
    <2>1. CASE Fits(e)
      <3>1. tt[e] = ts[e] \o order /\ ts[e] \o order \in Seq(Message)
        BY <1>1, <1>2, <2>1 DEF S, SentOff
      <3>2. \A m \in Message : ~(In(m, ts[e]) /\ In(m, order))
        BY <1>1, <1>5
      <3>3. Once(ts[e] \o order)
        BY <1>1, <1>2, <3>2, OnceConcat
      <3>4. \A x \in Message : In(x, ts[e] \o order) => In(x, ts[e]) \/ In(x, order)
        BY <1>1, <1>2, InConcat
      <3>5. \A x \in S : e = QueueOf(p, x.PeerID)
        BY <1>4, <2>1
      <3>6. QED
        BY <1>1, <3>1, <3>3, <3>4, <3>5
    <2>2. CASE ~Fits(e)
      <3>1. tt[e] = ts[e]
        BY <2>2 DEF S, SentOff
      <3>2. QED
        BY <1>2, <3>1
    <2>3. QED
      BY <2>1, <2>2
  <1>7. tt \in Queued
    <2>1. DOMAIN tt = Ends /\ tt = [e \in Ends |-> tt[e]]
      BY DEF SentOff
    <2>2. QED
      BY <1>6, <2>1 DEF Queued, QueuesOf
  <1> DEFINE Comes(e, x) == In(x, ts[e]) \/ (x \in S /\ e = QueueOf(p, x.PeerID))
  <1>8. \A e \in Ends : \A x \in Message : In(x, tt[e]) => Comes(e, x)
    BY <1>6
  <1>9. \A q \in Parties : rr[q] = IF q = p THEN r[p] + 1 ELSE r[q]
    BY DEF Later
  <1>10. Routed(tt, w, h)
    BY <1>3, <1>4, <1>8 DEF Net, Routed
  <1>11. Caused(tt, w, h, rr)
    <2>1. ASSUME NEW m \in Message, r[m.from] > SentIn(m.kind) \/ m \in S
          PROVE  rr[m.from] > SentIn(m.kind)
      <3>1. m.from \in Parties /\ SentIn(m.kind) \in Nat /\ r[m.from] \in Nat /\ r[p] \in Nat
        BY DEF Message, SentIn
      <3>2. CASE m \in S
        BY <1>3, <1>9, <3>1, <3>2
      <3>3. CASE r[m.from] > SentIn(m.kind)
        BY <1>9, <3>1, <3>3
      <3>4. QED
        BY <2>1, <3>2, <3>3
    <2>2. \A q \in Parties : \A m \in h[q] : m \in Message /\ r[m.from] > SentIn(m.kind)
      BY ProtocolFacts DEF Net, Routed, Caused
    <2>3. QED
      BY <1>8, <2>1, <2>2 DEF Net, Caused
  <1>12. Sole(tt, w, h)
    <2>1. \A x \in Protocol : x \in Message /\ x.PeerID \in Parties
      BY ProtocolFacts
    <2>2. QED
      BY <1>5, <1>8, <2>1 DEF Net, Sole
  <1>13. QED
    BY <1>6, <1>7, <1>10, <1>11, <1>12 DEF Net, OnceEach

-----------------------------------------------------------------------------
(* What the operations on the wires preserve.                              *)

Note(e, kind) == [kind |-> kind, from |-> Party(e), PeerID |-> Party(Peer(e))]

LEMMA NoteFacts ==
    ASSUME NEW e \in Ends, NEW kind \in Controls
    PROVE  /\ Note(e, kind) \in Message /\ ~IsTss(Note(e, kind))
           /\ Note(e, kind).kind = kind /\ Home(e, Note(e, kind))
  <1>1. Note(e, kind) \in Message /\ Note(e, kind).kind = kind
    BY EndFacts DEF Note, Message
  <1>2. ~IsTss(Note(e, kind))
    BY <1>1, KindFacts
  <1>3. Home(e, Note(e, kind))
    <2>1. PICK d \in Devices : e = Client(d) \/ e = Handler(d)
      BY EndFacts
    <2>2. CASE e = Client(d)
      BY <1>1, <2>2, EndFacts, HomeFacts DEF Note
    <2>3. CASE e = Handler(d)
      BY <1>1, <2>3, EndFacts, HomeFacts DEF Note
    <2>4. QED
      BY <2>1, <2>2, <2>3
  <1>4. QED
    BY <1>1, <1>2, <1>3

LEMMA Typed ==
    ASSUME TypeOK
    PROVE  /\ toSend \in Queued /\ wire \in Queued /\ handled \in Handlings
           /\ \A e \in Ends : toSend[e] \in Seq(Message) /\ wire[e] \in Seq(Message)
  BY DEF TypeOK, Queued, QueuesOf, Handlings

\* The queues at the ends but e are unchanged.
Elsewhere(q, qq, e) == \A f \in Ends : f # e => qq[f] = q[f]

LEMMA WriteFacts ==
    ASSUME IInv, NEW e \in Ends, NEW kind \in Controls, Write(e, kind)
    PROVE  /\ wire' \in Queued /\ Net(toSend, wire', handled, round)
           /\ Adds(Ends, Message, wire, wire', Peer(e), {Note(e, kind)})
           /\ Elsewhere(wire, wire', Peer(e))
           /\ wire'[Peer(e)] = Append(wire[Peer(e)], Note(e, kind))
  <1> DEFINE m == Note(e, kind)
  <1>1. wire' = [wire EXCEPT ![Peer(e)] = Append(@, m)]
    BY DEF Write, Note
  <1>2. m \in Message /\ ~IsTss(m) /\ Home(e, m)
    BY NoteFacts
  <1>3. Peer(e) \in Ends /\ Peer(Peer(e)) = e
    BY EndFacts
  <1>4. wire \in Queued /\ OnceEach(wire) /\ Net(toSend, wire, handled, round)
    BY Typed DEF IInv, Net
  <1> HIDE DEF m
  <1>5. /\ wire' \in Queued /\ OnceEach(wire')
        /\ Adds(Ends, Message, wire, wire', Peer(e), {m})
    BY <1>1, <1>2, <1>3, <1>4, Put
  <1>6. \A x \in {m} : x \in Message /\ ~IsTss(x) /\ Home(Peer(Peer(e)), x)
    BY <1>2, <1>3
  <1>7. Net(toSend, wire', handled, round)
    BY <1>3, <1>4, <1>5, <1>6, NetControl
  <1>8. Elsewhere(wire, wire', Peer(e)) /\ wire'[Peer(e)] = Append(wire[Peer(e)], m)
    BY <1>1, <1>3, <1>4 DEF Queued, QueuesOf, Elsewhere
  <1>9. QED
    BY <1>5, <1>7, <1>8 DEF m

LEMMA TakenFacts ==
    ASSUME IInv, NEW e \in Ends, wire[e] # <<>>, Taken(e)
    PROVE  /\ wire' \in Queued /\ OnceEach(wire') /\ Net(toSend, wire', handled, round)
           /\ Adds(Ends, Message, wire, wire', e, {})
           /\ Elsewhere(wire, wire', e)
           /\ Head(wire[e]) \in Message /\ In(Head(wire[e]), wire[e])
           /\ IsTss(Head(wire[e])) => ~In(Head(wire[e]), wire'[e])
  <1>1. wire' = [wire EXCEPT ![e] = Tail(@)]
    BY DEF Taken
  <1>2. wire \in Queued /\ OnceEach(wire) /\ Net(toSend, wire, handled, round)
    BY Typed DEF IInv, Net
  <1>3. /\ wire' \in Queued /\ OnceEach(wire') /\ Adds(Ends, Message, wire, wire', e, {})
        /\ Head(wire[e]) \in Message /\ In(Head(wire[e]), wire[e])
        /\ IsTss(Head(wire[e])) => ~In(Head(wire[e]), wire'[e])
    <2>1. Shifted(wire, wire', e)
      BY <1>1 DEF Shifted
    <2>2. QED
      BY <1>2, <2>1, Got
  <1>4. Net(toSend, wire', handled, round)
    BY <1>2, <1>3, NetTake
  <1>5. Elsewhere(wire, wire', e)
    BY <1>1, <1>2 DEF Queued, QueuesOf, Elsewhere
  <1>6. QED
    BY <1>3, <1>4, <1>5

\* The wires have no message that they did not have, but those of S.
Brings(w, ww, S) == \A e \in Ends, x \in Message : In(x, ww[e]) => In(x, w[e]) \/ x \in S

LEMMA AnswerFacts ==
    ASSUME IInv, NEW e \in Ends, NEW kind \in Controls, wire[e] # <<>>, Answer(e, kind)
    PROVE  /\ wire' \in Queued /\ Net(toSend, wire', handled, round)
           /\ Brings(wire, wire', {Note(e, kind)})
           /\ \A f \in Ends : f # e /\ f # Peer(e) => wire'[f] = wire[f]
           /\ In(Head(wire[e]), wire[e]) /\ Head(wire[e]) \in Message
  <1> DEFINE m == Note(e, kind)
             w == [wire EXCEPT ![e] = Tail(@)]
  <1>1. Peer(e) \in Ends /\ Peer(Peer(e)) = e /\ Peer(e) # e
    BY EndFacts
  <1>2. wire \in Queued /\ OnceEach(wire) /\ Net(toSend, wire, handled, round)
    BY Typed DEF IInv, Net
  <1>3. wire' = [w EXCEPT ![Peer(e)] = Append(@, m)]
    BY <1>1, <1>2 DEF Answer, Note, Queued, QueuesOf
  <1>4. m \in Message /\ ~IsTss(m) /\ Home(e, m)
    BY NoteFacts
  <1>5. \A f \in Ends : f # e => w[f] = wire[f]
    BY <1>2 DEF Queued, QueuesOf
  <1> HIDE DEF m
  <1>6. /\ w \in Queued /\ OnceEach(w) /\ Adds(Ends, Message, wire, w, e, {})
        /\ In(Head(wire[e]), wire[e]) /\ Head(wire[e]) \in Message
    <2>1. Shifted(wire, w, e)
      BY DEF Shifted
    <2> HIDE DEF w
    <2>2. QED
      BY <1>2, <2>1, Got
  <1> HIDE DEF w
  <1>7. Net(toSend, w, handled, round)
    BY <1>2, <1>6, NetTake
  <1>8. /\ wire' \in Queued /\ OnceEach(wire')
        /\ Adds(Ends, Message, w, wire', Peer(e), {m})
    BY <1>1, <1>3, <1>4, <1>6, Put
  <1>9. \A x \in {m} : x \in Message /\ ~IsTss(x) /\ Home(Peer(Peer(e)), x)
    BY <1>1, <1>4
  <1>10. Net(toSend, wire', handled, round)
    BY <1>1, <1>7, <1>8, <1>9, NetControl
  <1>11. Brings(wire, wire', {m})
    BY <1>6, <1>8 DEF Adds, Brings
  <1>12. \A f \in Ends : f # Peer(e) => wire'[f] = w[f]
    BY <1>3, <1>6 DEF Queued, QueuesOf
  <1>13. QED
    BY <1>5, <1>6, <1>8, <1>10, <1>11, <1>12 DEF m

-----------------------------------------------------------------------------
(* What the steps that leave a part of the state alone preserve.           *)

LEMMA HandledFrom ==
    ASSUME IInv, NEW m \in handled[Server]
    PROVE  m \in Protocol /\ m.from \in Devices
  <1>1. m \in Protocol /\ m.PeerID = Server
    BY PartyFacts DEF IInv, Net, Routed
  <1>2. QED
    BY <1>1, ProtocolFacts, PartyFacts DEF Parties

LEMMA RoundKept ==
    ASSUME IInv, UNCHANGED <<round, handled>>,
           \A e \in Ends : main'[e] = "start" => main[e] = "start"
    PROVE  RoundInv'
  <1>1. \A p \in Parties : main'[ProcessEnd(p)] = "start" => main[ProcessEnd(p)] = "start"
    BY PartyFacts
  <1>2. QED
    BY <1>1 DEF IInv, RoundInv

\* A process that is done stays done.
Lasting == \A p \in Parties : ProcessDone(p) => ProcessDone(p)'

LEMMA SameRound ==
    ASSUME UNCHANGED round
    PROVE  Lasting
  BY DEF Lasting, ProcessDone

LEMMA StageKept ==
    ASSUME IInv, Lasting, UNCHANGED <<handled, stage>>,
           \A d \in Devices : reader[Handler(d)] = "loop" => reader'[Handler(d)] = "loop"
    PROVE  StageInv'
  <1>1. \A m \in handled'[Server] : reader'[Handler(m.from)] = "loop"
    BY HandledFrom DEF IInv, StageInv
  <1>2. \A e \in Ends : stage'[e] = 40 => ProcessDone(Party(e))'
    BY EndFacts DEF IInv, StageInv, Lasting
  <1>3. QED
    BY <1>1, <1>2 DEF StageInv

\* The wire to a client is unchanged, or its handler, which has started, writes
\* on it, or something else than the start is at its head.
WireStep(d) ==
    \/ wire'[Client(d)] = wire[Client(d)]
    \/ /\ main[Handler(d)] # "start" \/ sender[Handler(d)] # "off"
       /\ \E m \in Message : wire'[Client(d)] = Append(wire[Client(d)], m)
    \/ /\ wire[Client(d)] # <<>>
       /\ Head(wire[Client(d)]).kind \notin {"pubkey", "metadataAck"}

LEMMA StartKept ==
    ASSUME IInv, UNCHANGED <<reader, adder>>,
           "adder" \in chan' => "adder" \in chan,
           \A d \in Devices : /\ main[Handler(d)] = "start" => main'[Handler(d)] = "start"
                              /\ sender[Handler(d)] = "off" => sender'[Handler(d)] = "off"
                              /\ WireStep(d)
    PROVE  StartInv'
  <1>1. ASSUME NEW d \in Devices
        PROVE  /\ reader[Handler(d)] \in {"adder", "write"} => wire'[Client(d)] = <<>>
               /\ d \notin adder /\ reader[Handler(d)] \notin {"adder", "write"} =>
                     /\ wire'[Client(d)] # <<>>
                     /\ Head(wire'[Client(d)]).kind \in {"pubkey", "metadataAck"}
    <2>1. WireStep(d) /\ wire[Client(d)] \in Seq(Message)
      BY EndFacts, Typed DEF IInv
    <2>2. CASE wire'[Client(d)] = wire[Client(d)]
      BY <2>2 DEF IInv, StartInv
    <2>3. CASE /\ main[Handler(d)] # "start" \/ sender[Handler(d)] # "off"
               /\ \E m \in Message : wire'[Client(d)] = Append(wire[Client(d)], m)
      <3>1. PICK m \in Message : wire'[Client(d)] = Append(wire[Client(d)], m)
        BY <2>3
      <3>2. wire'[Client(d)] # <<>>
        BY <2>1, <3>1
      <3>3. wire[Client(d)] # <<>> => Head(wire'[Client(d)]) = Head(wire[Client(d)])
        BY <2>1, <3>1
      <3>4. reader[Handler(d)] \notin {"adder", "write"}
        BY <2>3 DEF IInv, StartInv
      <3>5. QED
        BY <3>2, <3>3, <3>4 DEF IInv, StartInv
    <2>4. CASE /\ wire[Client(d)] # <<>>
               /\ Head(wire[Client(d)]).kind \notin {"pubkey", "metadataAck"}
      BY <2>4 DEF IInv, StartInv
    <2>5. QED
      BY <2>1, <2>2, <2>3, <2>4 DEF WireStep
  <1>2. \A d \in Devices :
            reader[Handler(d)] \in {"adder", "write", "startTss"} =>
                main'[Handler(d)] = "start" /\ sender'[Handler(d)] = "off"
    BY DEF IInv, StartInv
  <1>3. \A d \in Devices : reader[Handler(d)] # "adder" => Server \in adder
    BY DEF IInv, StartInv
  <1>4. "adder" \in chan' => Server \in adder
    BY DEF IInv, StartInv
  <1>5. QED
    BY <1>1, <1>2, <1>3, <1>4 DEF StartInv

LEMMA DoneKept ==
    ASSUME IInv, Lasting, NEW S, Brings(wire, wire', S),
           \A m \in S : /\ m.kind = "tssDone" => ProcessDone(Existing)
                        /\ Ending(m) => AllDone,
           \A e \in Ends : main'[e] \notin {"start", "process"} =>
                             main[e] \notin {"start", "process"} \/ ProcessDone(Party(e)),
           "existingDeviceTssDone" \in chan' =>
               "existingDeviceTssDone" \in chan \/ ProcessDone(Existing),
           Closing' => Closing \/ AllDone
    PROVE  DoneInv'
  <1>1. AllDone => AllDone'
    BY DEF AllDone, Lasting
  <1>2. ProcessDone(Existing) => ProcessDone(Existing)'
    BY PartyFacts DEF Lasting
  <1>3. \A e \in Ends, m \in Message :
            In(m, wire'[e]) => /\ m.kind = "tssDone" => ProcessDone(Existing)'
                               /\ Ending(m) => AllDone'
    BY <1>1, <1>2 DEF IInv, DoneInv, Brings
  <1>4. \A e \in Ends : main'[e] \notin {"start", "process"} => ProcessDone(Party(e))'
    BY EndFacts DEF IInv, DoneInv, Lasting
  <1>5. "existingDeviceTssDone" \in chan' => ProcessDone(Existing)'
    BY <1>2 DEF IInv, DoneInv
  <1>6. Closing' => AllDone'
    BY <1>1 DEF IInv, DoneInv
  <1>7. QED
    BY <1>3, <1>4, <1>5, <1>6 DEF DoneInv

\* The new party is done before the existing one.
LEMMA AllDoneFrom ==
    ASSUME IInv, ProcessDone(Server), ProcessDone(Existing)
    PROVE  AllDone
  <1> DEFINE v == [kind |-> "verify", from |-> New, PeerID |-> Existing]
  <1>1. v \in Protocol
    BY PartyFacts DEF Protocol, Message, TssKinds
  <1>2. round[Existing] > AwaitedIn(v.kind)
    BY AwaitedFacts, PartyFacts DEF ProcessDone, LastRound
  <1>3. v \in handled[Existing]
    BY <1>1, <1>2, PartyFacts DEF IInv, RoundInv
  <1>4. round[New] > 2
    BY <1>3, PartyFacts DEF IInv, Net, Caused, SentIn
  <1>5. QED
    BY <1>4, PartyFacts DEF AllDone, ProcessDone, LastRound

LEMMA AddsBrings ==
    ASSUME NEW q, NEW qq, NEW e, NEW S, Adds(Ends, Message, q, qq, e, S)
    PROVE  Brings(q, qq, S)
  BY DEF Adds, Brings

LEMMA SameBrings ==
    ASSUME UNCHANGED wire
    PROVE  Brings(wire, wire', {})
  BY DEF Brings

\* A step that sends nothing and leaves the process alone.
LEMMA NetKept ==
    ASSUME IInv, UNCHANGED <<toSend, wire, handled, round>>
    PROVE  Net(toSend, wire, handled, round)'
  BY DEF IInv, Net, Routed, Caused, Sole, OnceEach

-----------------------------------------------------------------------------
(* The steps.                                                              *)

LEMMA InitInvariant == Init => IInv
  <1> SUFFICES ASSUME Init PROVE IInv
    OBVIOUS
  <1>1. \A e \in Ends : \A m : ~In(m, toSend[e]) /\ ~In(m, wire[e])
    BY DEF Init, In
  <1>2. \A p \in Parties : handled[p] = {} /\ round[p] = 0
    BY DEF Init
  <1>3. TypeOK
    <2>1. /\ round \in [Parties -> 0..5] /\ handled \in [Parties -> SUBSET Message]
          /\ adder \subseteq Parties
      BY DEF Init
    <2>2. /\ main \in [Ends -> {"start", "process", "done", "wait", "finish", "ret"}]
          /\ stage \in [Ends -> {0, 30, 40}] /\ sender \in [Ends -> {"off", "run", "ret"}]
      BY DEF Init
    <2>3. reader \in [Ends -> {"adder", "write", "startTss", "stage", "loop"}]
      BY DEF Init
    <2>4. toSend \in [Ends -> Seq(Message)] /\ wire \in [Ends -> Seq(Message)]
      BY DEF Init
    <2>5. QED
      BY <2>1, <2>2, <2>3, <2>4 DEF Init, TypeOK
  <1>4. OnceEach(toSend) /\ OnceEach(wire)
    BY DEF Init, OnceEach, Once
  <1>5. Net(toSend, wire, handled, round)
    BY <1>1, <1>2, <1>4 DEF Net, Routed, Caused, Sole
  <1>6. RoundInv
    <2>1. \A m \in Protocol : AwaitedIn(m.kind) \in 1..4
      BY RoundFacts
    <2>2. \A p \in Parties : LastRound(p) \in Nat
      BY DEF LastRound
    <2>3. QED
      BY <1>2, <2>1, <2>2 DEF RoundInv
  <1>7. \A d \in Devices : /\ reader[Handler(d)] = "adder" /\ wire[Client(d)] = <<>>
                           /\ main[Handler(d)] = "start" /\ sender[Handler(d)] = "off"
    BY EndFacts DEF Init, Handler
  <1>8. StartInv
    BY <1>7 DEF Init, StartInv
  <1>9. StageInv
    BY <1>2, PartyFacts DEF Init, StageInv
  <1>10. DoneInv
    BY <1>1, EndFacts, PartyFacts DEF Init, DoneInv, Closing
  <1>11. QED
    BY <1>3, <1>5, <1>6, <1>8, <1>9, <1>10 DEF IInv

\* Types of what the readers of the handlers do before the process starts.
LEMMA AdderStep ==
    ASSUME IInv, CreateAdder \/ TakeAdder
    PROVE  IInv'
  <1>1. UNCHANGED <<round, handled, main, stage, sender, toSend, wire, serverDone, stored>>
    BY DEF CreateAdder, TakeAdder, procVars, netVars
  <1>2. TypeOK'
    <2>1. adder' \subseteq Parties
      BY PartyFacts DEF IInv, TypeOK, CreateAdder, TakeAdder, procVars
    <2>2. reader' \in [Ends -> {"adder", "write", "startTss", "stage", "loop"}]
      <3>1. reader \in [Ends -> {"adder", "write", "startTss", "stage", "loop"}]
        BY DEF IInv, TypeOK
      <3>2. \/ reader' = [reader EXCEPT ![Handler(New)] = "write"]
            \/ reader' = [reader EXCEPT ![Handler(Existing)] = "write"]
        BY DEF CreateAdder, TakeAdder
      <3>3. QED
        BY <3>1, <3>2
    <2>3. chan' \subseteq chan \cup {"adder"}
      BY DEF CreateAdder, TakeAdder
    <2>4. QED
      BY <1>1, <2>1, <2>2, <2>3 DEF IInv, TypeOK
  <1>3. PICK d \in Devices : /\ reader[Handler(d)] = "adder"
                             /\ reader' = [reader EXCEPT ![Handler(d)] = "write"]
    BY PartyFacts DEF CreateAdder, TakeAdder
  <1>4. \A c \in Devices :
            reader'[Handler(c)] = IF c = d THEN "write" ELSE reader[Handler(c)]
    BY <1>3, EndFacts DEF IInv, TypeOK
  <1>5. Server \in adder' /\ (adder \subseteq adder') /\ (adder' \ {Server} \subseteq adder)
    BY DEF CreateAdder, TakeAdder, procVars, IInv, StartInv
  <1>6. StartInv'
    BY <1>1, <1>3, <1>4, <1>5, PartyFacts DEF IInv, StartInv
  <1>7. RoundInv'
    BY <1>1, RoundKept
  <1>8. StageInv'
    BY <1>1, <1>3, <1>4, SameRound, StageKept
  <1>9. DoneInv'
    <2>1. \A x \in {"existingDeviceTssDone", "newDeviceDone", "existingDeviceDone"} :
              x \in chan' => x \in chan
      BY DEF CreateAdder, TakeAdder
    <2>2. Closing' => Closing
      BY <1>1, <2>1 DEF Closing
    <2>3. QED
      BY <1>1, <2>1, <2>2, SameRound, SameBrings, DoneKept
  <1>10. QED
    BY <1>1, <1>2, <1>6, <1>7, <1>8, <1>9, NetKept DEF IInv

LEMMA NetLater ==
    ASSUME NEW ts, NEW w, NEW h, NEW r \in [Parties -> Nat], Net(ts, w, h, r),
           NEW rr \in [Parties -> Nat], \A p \in Parties : rr[p] >= r[p]
    PROVE  Net(ts, w, h, rr)
  <1>1. ASSUME NEW m \in Message, r[m.from] > SentIn(m.kind)
        PROVE  rr[m.from] > SentIn(m.kind)
    <2>1. m.from \in Parties /\ SentIn(m.kind) \in Nat
      BY DEF Message, SentIn
    <2>2. QED
      BY <1>1, <2>1
  <1>2. \A p \in Parties : \A m \in h[p] : m \in Message
    BY ProtocolFacts DEF Net, Routed
  <1>3. Caused(ts, w, h, rr)
    BY <1>1, <1>2 DEF Net, Caused
  <1>4. QED
    BY <1>3 DEF Net

\* WriteStart: the first message to a client.
LEMMA WriteStartStep ==
    ASSUME IInv, NEW d \in Devices, WriteStart(d)
    PROVE  IInv'
  <1> DEFINE kind == IF d = New THEN "pubkey" ELSE "metadataAck"
             e == Handler(d)
  <1>1. kind \in Controls /\ e \in Ends /\ Peer(e) = Client(d) /\ Client(d) \in Ends
    BY EndFacts DEF Controls
  <1>2. /\ UNCHANGED <<round, handled, adder, main, stage, sender, toSend, serverDone, chan, stored>>
        /\ reader[e] = "write" /\ reader' = [reader EXCEPT ![e] = "startTss"]
        /\ Write(e, kind)
    BY DEF WriteStart, procVars, endVars
  <1>3. kind \in {"pubkey", "metadataAck"}
    OBVIOUS
  <1> HIDE DEF kind, e
  <1>4. /\ wire' \in Queued /\ Net(toSend, wire', handled, round)
        /\ Brings(wire, wire', {Note(e, kind)})
        /\ Elsewhere(wire, wire', Client(d))
        /\ wire'[Client(d)] = Append(wire[Client(d)], Note(e, kind))
    BY <1>1, <1>2, WriteFacts, AddsBrings
  <1>5. TypeOK'
    <2>1. reader' \in [Ends -> {"adder", "write", "startTss", "stage", "loop"}]
      BY <1>2 DEF IInv, TypeOK
    <2>2. QED
      BY <1>2, <1>4, <2>1 DEF IInv, TypeOK, Queued, QueuesOf
  <1>6. \A c \in Devices : reader'[Handler(c)] = IF c = d THEN "startTss" ELSE reader[Handler(c)]
    BY <1>2, EndFacts DEF IInv, TypeOK, e
  <1>7. wire'[Client(d)] # <<>> /\ Head(wire'[Client(d)]).kind \in {"pubkey", "metadataAck"}
    <2>1. wire[Client(d)] = <<>>
      BY <1>2 DEF IInv, StartInv, e
    <2>2. wire'[Client(d)] = <<Note(e, kind)>>
      BY <1>4, <2>1
    <2>3. QED
      BY <1>1, <1>3, <2>2, NoteFacts
  <1>8. StartInv'
    <2>1. \A c \in Devices : c # d => wire'[Client(c)] = wire[Client(c)]
      BY <1>4, EndFacts DEF Elsewhere
    <2>2. reader[Handler(d)] = "write"
      BY <1>2 DEF e
    <2>3. QED
      BY <1>2, <1>6, <1>7, <2>1, <2>2 DEF IInv, StartInv
  <1>9. RoundInv'
    BY <1>2, RoundKept
  <1>10. StageInv'
    BY <1>2, <1>6, SameRound, StageKept DEF e
  <1>11. DoneInv'
    <2>1. Closing' => Closing
      BY <1>2 DEF Closing
    <2>2. \A m \in {Note(e, kind)} : m.kind # "tssDone" /\ ~Ending(m)
      BY <1>1, <1>3, NoteFacts DEF Ending
    <2>3. QED
      BY <1>2, <1>4, <2>1, <2>2, SameRound, DoneKept
  <1>12. Net(toSend, wire, handled, round)'
    BY <1>2, <1>4 DEF Net, Routed, Caused, Sole, OnceEach
  <1>13. QED
    BY <1>5, <1>8, <1>9, <1>10, <1>11, <1>12 DEF IInv

\* ClientStart: the client takes it.
LEMMA ClientStartStep ==
    ASSUME IInv, NEW d \in Devices, ClientStart(d)
    PROVE  IInv'
  <1> DEFINE e == Client(d)
  <1>1. /\ UNCHANGED <<round, handled, main, stage, sender, toSend, serverDone, chan, stored>>
        /\ wire[e] # <<>> /\ Taken(e) /\ e \in Ends
        /\ reader' = [reader EXCEPT ![e] = "startTss"]
        /\ adder' = adder \cup {d}
    BY EndFacts DEF ClientStart, Take, endVars
  <1>2. /\ wire' \in Queued /\ Net(toSend, wire', handled, round)
        /\ Brings(wire, wire', {}) /\ Elsewhere(wire, wire', e)
    BY <1>1, TakenFacts, AddsBrings
  <1>3. TypeOK'
    <2>1. reader' \in [Ends -> {"adder", "write", "startTss", "stage", "loop"}]
      BY <1>1 DEF IInv, TypeOK
    <2>2. adder' \subseteq Parties
      BY <1>1, PartyFacts DEF IInv, TypeOK
    <2>3. QED
      BY <1>1, <1>2, <2>1, <2>2 DEF IInv, TypeOK, Queued, QueuesOf
  <1>4. \A c \in Devices : reader'[Handler(c)] = reader[Handler(c)]
    BY <1>1, EndFacts DEF IInv, TypeOK
  <1>5. StartInv'
    <2>1. \A c \in Devices : c # d => wire'[Client(c)] = wire[Client(c)]
      BY <1>2, EndFacts DEF Elsewhere
    <2>2. reader[Handler(d)] \notin {"adder", "write"}
      BY <1>1 DEF IInv, StartInv
    <2>3. QED
      BY <1>1, <1>4, <2>1, <2>2 DEF IInv, StartInv
  <1>6. RoundInv'
    BY <1>1, RoundKept
  <1>7. StageInv'
    BY <1>1, <1>4, SameRound, StageKept
  <1>8. DoneInv'
    <2>1. Closing' => Closing
      BY <1>1 DEF Closing
    <2>2. QED
      BY <1>1, <1>2, <2>1, SameRound, DoneKept
  <1>9. Net(toSend, wire, handled, round)'
    BY <1>1, <1>2 DEF Net, Routed, Caused, Sole, OnceEach
  <1>10. QED
    BY <1>3, <1>5, <1>6, <1>7, <1>8, <1>9 DEF IInv

\* StartTss: the process of a party is in its first round.
LEMMA StartTssStep ==
    ASSUME IInv, NEW e \in Ends, StartTss(e)
    PROVE  IInv'
  <1>1. /\ UNCHANGED <<handled, adder, stage, toSend, wire, serverDone, chan, stored>>
        /\ reader[e] = "startTss" /\ main[e] = "start"
        /\ main' = [main EXCEPT ![e] = "process"]
        /\ reader' = [reader EXCEPT ![e] = IF e[2] = "handler" THEN "stage" ELSE "loop"]
        /\ sender' = [sender EXCEPT ![e] = "run"]
        /\ round' = [p \in Parties |-> IF e = ProcessEnd(p) THEN 1 ELSE round[p]]
    BY DEF StartTss, endVars
  <1>2. /\ \A f \in Ends : main'[f] = IF f = e THEN "process" ELSE main[f]
        /\ \A f \in Ends : sender'[f] = IF f = e THEN "run" ELSE sender[f]
        /\ \A f \in Ends : f # e => reader'[f] = reader[f]
        /\ \A p \in Parties : round'[p] = IF e = ProcessEnd(p) THEN 1 ELSE round[p]
    BY <1>1 DEF IInv, TypeOK
  <1>3. \A p \in Parties : e = ProcessEnd(p) => round[p] = 0
    BY <1>1 DEF IInv, RoundInv
  <1>4. \A d \in Devices : e = Handler(d) => reader'[e] = "stage"
    BY <1>1 DEF IInv, TypeOK, Handler
  <1>5. round \in [Parties -> Nat] /\ round' \in [Parties -> Nat]
    <2>1. round \in [Parties -> 0..5]
      BY DEF IInv, TypeOK
    <2>2. round \in [Parties -> Nat]
      BY <2>1
    <2>3. QED
      BY <1>1, <2>2
  <1>6. \A p \in Parties : round'[p] >= round[p]
    BY <1>2, <1>3, <1>5
  <1>7. Lasting
    BY <1>5, <1>6 DEF Lasting, ProcessDone, LastRound
  <1>8. TypeOK'
    <2>1. reader' \in [Ends -> {"adder", "write", "startTss", "stage", "loop"}]
      BY <1>1 DEF IInv, TypeOK
    <2>2. main' \in [Ends -> {"start", "process", "done", "wait", "finish", "ret"}]
      BY <1>1 DEF IInv, TypeOK
    <2>3. sender' \in [Ends -> {"off", "run", "ret"}]
      BY <1>1 DEF IInv, TypeOK
    <2>4. round' \in [Parties -> 0..5]
      BY <1>1 DEF IInv, TypeOK
    <2>5. QED
      BY <1>1, <2>1, <2>2, <2>3, <2>4 DEF IInv, TypeOK
  <1>9. Net(toSend, wire, handled, round)'
    <2>1. Net(toSend, wire, handled, round')
      BY <1>5, <1>6, NetLater DEF IInv
    <2>2. QED
      BY <1>1, <2>1 DEF Net, Routed, Caused, Sole, OnceEach
  <1>10. RoundInv'
    <2>1. ASSUME NEW p \in Parties, NEW m \in Protocol, m.PeerID = p,
                 round'[p] > AwaitedIn(m.kind)
          PROVE  m \in handled'[p]
      <3>1. AwaitedIn(m.kind) \in 1..4
        BY RoundFacts
      <3>2. e # ProcessEnd(p)
        BY <1>2, <2>1, <3>1
      <3>3. QED
        BY <1>1, <1>2, <2>1, <3>2 DEF IInv, RoundInv
    <2>2. \A p \in Parties : main'[ProcessEnd(p)] = "start" => round'[p] = 0
      BY <1>2, PartyFacts DEF IInv, RoundInv
    <2>3. \A p \in Parties : round'[p] <= LastRound(p) + 1
      BY <1>2 DEF IInv, RoundInv, LastRound
    <2>4. QED
      BY <2>1, <2>2, <2>3 DEF RoundInv
  <1>11. StartInv'
    <2>1. \A d \in Devices :
              /\ Handler(d) = e => reader'[Handler(d)] = "stage"
              /\ Handler(d) # e => /\ reader'[Handler(d)] = reader[Handler(d)]
                                   /\ main'[Handler(d)] = main[Handler(d)]
                                   /\ sender'[Handler(d)] = sender[Handler(d)]
      BY <1>2, <1>4, EndFacts
    <2>2. QED
      BY <1>1, <2>1 DEF IInv, StartInv
  <1>12. StageInv'
    <2>1. \A d \in Devices : reader[Handler(d)] = "loop" => reader'[Handler(d)] = "loop"
      BY <1>1, <1>2, EndFacts
    <2>2. QED
      BY <1>1, <1>7, <2>1, StageKept
  <1>13. DoneInv'
    <2>1. Closing' => Closing
      BY <1>1, <1>2, EndFacts, PartyFacts DEF Closing
    <2>2. QED
      BY <1>1, <1>2, <1>7, <2>1, SameBrings, DoneKept
  <1>14. QED
    BY <1>8, <1>9, <1>10, <1>11, <1>12, <1>13 DEF IInv

LEMMA StageStartedStep ==
    ASSUME IInv, NEW d \in Devices, StageStarted(d)
    PROVE  IInv'
  <1> DEFINE e == Handler(d)
  <1>1. /\ UNCHANGED <<round, handled, adder, main, sender, toSend, wire, serverDone, chan, stored>>
        /\ reader[e] = "stage" /\ reader' = [reader EXCEPT ![e] = "loop"]
        /\ stage' = [stage EXCEPT ![e] = 30] /\ e \in Ends
    BY EndFacts DEF StageStarted, procVars, netVars, endVars
  <1>2. /\ \A f \in Ends : reader'[f] = IF f = e THEN "loop" ELSE reader[f]
        /\ \A f \in Ends : stage'[f] = IF f = e THEN 30 ELSE stage[f]
    BY <1>1 DEF IInv, TypeOK
  <1>3. TypeOK'
    BY <1>1 DEF IInv, TypeOK
  <1>4. StartInv'
    BY <1>1, <1>2, EndFacts DEF IInv, StartInv
  <1>5. StageInv'
    <2>1. \A m \in handled'[Server] : reader'[Handler(m.from)] = "loop"
      BY <1>1, <1>2, HandledFrom, EndFacts DEF IInv, StageInv
    <2>2. \A f \in Ends : stage'[f] = 40 => ProcessDone(Party(f))'
      BY <1>1, <1>2 DEF IInv, StageInv, ProcessDone
    <2>3. QED
      BY <2>1, <2>2 DEF StageInv
  <1>6. DoneInv'
    <2>1. Closing' => Closing
      BY <1>1 DEF Closing
    <2>2. QED
      BY <1>1, <2>1, SameRound, SameBrings, DoneKept
  <1>7. QED
    BY <1>1, <1>3, <1>4, <1>5, <1>6, RoundKept, NetKept DEF IInv

\* TssSend: a message of the process goes on the wire.
LEMMA TssSendStep ==
    ASSUME IInv, NEW e \in Ends, TssSend(e)
    PROVE  IInv'
  <1> DEFINE m == Head(toSend[e])
  <1>1. /\ UNCHANGED <<round, handled, adder, main, reader, stage, sender, serverDone, chan, stored>>
        /\ sender[e] = "run" /\ toSend[e] # <<>>
        /\ wire' = [wire EXCEPT ![Peer(e)] = Append(@, m)]
        /\ toSend' = [toSend EXCEPT ![e] = Tail(@)]
    BY DEF TssSend, procVars, goVars, endVars
  <1>2. /\ wire \in Queued /\ toSend \in Queued /\ OnceEach(wire) /\ OnceEach(toSend)
        /\ Net(toSend, wire, handled, round)
    BY Typed DEF IInv, Net
  <1>3. Peer(e) \in Ends
    BY EndFacts
  <1>4. /\ toSend' \in Queued /\ OnceEach(toSend')
        /\ Adds(Ends, Message, toSend, toSend', e, {})
        /\ m \in Message /\ In(m, toSend[e]) /\ (IsTss(m) => ~In(m, toSend'[e]))
    <2>1. Shifted(toSend, toSend', e) /\ toSend[e] # <<>>
      BY <1>1 DEF Shifted
    <2>2. QED
      BY <1>2, <2>1, Got
  <1>5. m \in Protocol /\ IsTss(m)
    BY <1>2, <1>4, ProtocolFacts DEF Net, Routed
  <1>6. ~In(m, wire[Peer(e)])
    BY <1>2, <1>3, <1>4, <1>5 DEF Net, Sole
  <1> HIDE DEF m
  <1>7. /\ wire' \in Queued /\ OnceEach(wire')
        /\ Adds(Ends, Message, wire, wire', Peer(e), {m})
    BY <1>1, <1>2, <1>3, <1>4, <1>6, Put
  <1>8. Net(toSend', wire', handled, round)
    BY <1>2, <1>4, <1>5, <1>7, NetSend
  <1>9. Net(toSend, wire, handled, round)'
    BY <1>1, <1>8 DEF Net, Routed, Caused, Sole, OnceEach
  <1>10. TypeOK'
    BY <1>1, <1>4, <1>7 DEF IInv, TypeOK, Queued, QueuesOf
  <1>11. StartInv'
    <2>1. ASSUME NEW d \in Devices PROVE WireStep(d)
      <3>1. CASE Client(d) = Peer(e)
        <4>1. e = Handler(d) /\ wire'[Client(d)] = Append(wire[Client(d)], m)
          BY <1>1, <1>2, <1>3, <3>1, EndFacts DEF Queued, QueuesOf
        <4>2. QED
          BY <1>1, <1>4, <4>1 DEF WireStep
      <3>2. CASE Client(d) # Peer(e)
        BY <1>1, <1>2, <3>2, EndFacts DEF WireStep, Queued, QueuesOf
      <3>3. QED
        BY <3>1, <3>2
    <2>2. QED
      BY <1>1, <2>1, StartKept
  <1>12. DoneInv'
    <2>1. Closing' => Closing
      BY <1>1 DEF Closing
    <2>2. \A x \in {m} : /\ x.kind = "tssDone" => ProcessDone(Existing)
                         /\ Ending(x) => AllDone
      BY <1>5 DEF IsTss, TssKinds, Ending
    <2>3. Brings(wire, wire', {m})
      BY <1>7, AddsBrings
    <2>4. UNCHANGED <<round, main, chan>>
      BY <1>1
    <2>5. QED
      BY <2>1, <2>2, <2>3, <2>4, SameRound, DoneKept
  <1>13. RoundInv' /\ StageInv'
    BY <1>1, RoundKept, SameRound, StageKept
  <1>14. QED
    BY <1>9, <1>10, <1>11, <1>12, <1>13 DEF IInv

\* TssSendStops, TssIsDone and Return: nothing moves on the wires.
LEMMA TssSendStopsStep ==
    ASSUME IInv, NEW e \in Ends, TssSendStops(e)
    PROVE  IInv'
  <1>1. /\ UNCHANGED <<round, handled, adder, main, reader, stage, toSend, wire, serverDone, chan, stored>>
        /\ sender[e] = "run" /\ sender' = [sender EXCEPT ![e] = "ret"]
        /\ e \in serverDone \/ main[e] = "ret"
    BY DEF TssSendStops, procVars, goVars, endVars
  <1>2. Closing
    BY <1>1 DEF Closing
  <1>3. TypeOK'
    BY <1>1 DEF IInv, TypeOK
  <1>4. \A d \in Devices : sender[Handler(d)] = "off" => sender'[Handler(d)] = "off"
    BY <1>1, EndFacts DEF IInv, TypeOK
  <1>5. StartInv'
    BY <1>1, <1>4, StartKept DEF WireStep
  <1>6. DoneInv'
    BY <1>1, <1>2, SameRound, SameBrings, DoneKept
  <1>7. RoundInv' /\ StageInv'
    BY <1>1, RoundKept, SameRound, StageKept
  <1>8. QED
    BY <1>1, <1>3, <1>5, <1>6, <1>7, NetKept DEF IInv

LEMMA TssIsDoneStep ==
    ASSUME IInv, NEW e \in Ends, TssIsDone(e)
    PROVE  IInv'
  <1>1. /\ UNCHANGED <<round, handled, adder, reader, sender, toSend, wire, serverDone, chan>>
        /\ main[e] = "process" /\ main' = [main EXCEPT ![e] = "done"]
        /\ stage' = [stage EXCEPT ![e] = 40] /\ ProcessDone(Party(e))
    BY DEF TssIsDone, procVars, netVars
  <1>2. /\ \A f \in Ends : main'[f] = IF f = e THEN "done" ELSE main[f]
        /\ \A f \in Ends : stage'[f] = IF f = e THEN 40 ELSE stage[f]
    BY <1>1 DEF IInv, TypeOK
  <1>3. TypeOK'
    <2>1. stored' \in BOOLEAN
      BY Zenon DEF TssIsDone
    <2>2. QED
      BY <1>1, <2>1 DEF IInv, TypeOK
  <1>4. StartInv'
    <2>1. \A d \in Devices : main[Handler(d)] = "start" => main'[Handler(d)] = "start"
      BY <1>1, <1>2, EndFacts
    <2>2. QED
      BY <1>1, <2>1, StartKept DEF WireStep
  <1>5. StageInv'
    BY <1>1, <1>2 DEF IInv, StageInv, ProcessDone
  <1>6. DoneInv'
    <2>1. Closing' => Closing
      BY <1>1, <1>2, EndFacts, PartyFacts DEF Closing
    <2>2. QED
      BY <1>1, <1>2, <2>1, SameRound, SameBrings, DoneKept
  <1>7. RoundInv'
    BY <1>1, <1>2, RoundKept
  <1>8. QED
    BY <1>1, <1>3, <1>4, <1>5, <1>6, <1>7, NetKept DEF IInv

LEMMA ReturnStep ==
    ASSUME IInv, NEW e \in Ends, Return(e)
    PROVE  IInv'
  <1>1. /\ UNCHANGED <<round, handled, adder, reader, stage, sender, toSend, wire, serverDone, chan, stored>>
        /\ main[e] \in {"done", "finish"} /\ main' = [main EXCEPT ![e] = "ret"]
        /\ e \in serverDone
    BY DEF Return, procVars, netVars, endVars
  <1>2. \A f \in Ends : main'[f] = IF f = e THEN "ret" ELSE main[f]
    BY <1>1 DEF IInv, TypeOK
  <1>3. Closing
    BY <1>1 DEF Closing
  <1>4. TypeOK'
    BY <1>1 DEF IInv, TypeOK
  <1>5. StartInv'
    <2>1. \A d \in Devices : main[Handler(d)] = "start" => main'[Handler(d)] = "start"
      BY <1>1, <1>2, EndFacts
    <2>2. QED
      BY <1>1, <2>1, StartKept DEF WireStep
  <1>6. DoneInv'
    BY <1>1, <1>2, <1>3, SameRound, SameBrings, DoneKept
  <1>7. RoundInv' /\ StageInv'
    BY <1>1, <1>2, RoundKept, SameRound, StageKept
  <1>8. QED
    BY <1>1, <1>4, <1>5, <1>6, <1>7, NetKept DEF IInv

\* Advance: a party ends a round and sends the messages of the next.
LEMMA AdvanceStep ==
    ASSUME IInv, NEW p \in Parties, Advance(p)
    PROVE  IInv' /\ Lasting
  <1>1. /\ UNCHANGED <<handled, adder, main, reader, stage, sender, wire, serverDone, chan, stored>>
        /\ round[p] \in 1..LastRound(p) /\ Awaits(p, round[p]) \subseteq handled[p]
        /\ round' = [round EXCEPT ![p] = @ + 1]
    BY DEF Advance, goVars, endVars
  <1>2. PICK order \in SetToSeqs(Sends(p, round[p])) :
            toSend' = SentOff(toSend, p, round[p], order)
    BY DEF Advance, SentOff
  <1>3. round \in [Parties -> 0..5] /\ toSend \in Queued
    BY Typed DEF IInv, TypeOK
  <1>4. toSend' \in Queued /\ Net(toSend', wire, handled, round')
    <2>1. Net(toSend, wire, handled, round)
      BY DEF IInv
    <2>2. round' = Later(round, p)
      BY <1>1 DEF Later
    <2>3. QED
      BY <1>2, <1>3, <2>1, <2>2, NetAdvance
  <1>5. \A q \in Parties : round'[q] = IF q = p THEN round[p] + 1 ELSE round[q]
    BY <1>1, <1>3
  <1>6. Lasting
    BY <1>3, <1>5 DEF Lasting, ProcessDone, LastRound
  <1>7. TypeOK'
    <2>1. round' \in [Parties -> 0..5]
      BY <1>1, <1>3 DEF LastRound
    <2>2. QED
      BY <1>1, <1>4, <2>1 DEF IInv, TypeOK, Queued, QueuesOf
  <1>8. Net(toSend, wire, handled, round)'
    BY <1>1, <1>4 DEF Net, Routed, Caused, Sole, OnceEach
  <1>9. RoundInv'
    <2>1. ASSUME NEW q \in Parties, NEW m \in Protocol, m.PeerID = q,
                 round'[q] > AwaitedIn(m.kind)
          PROVE  m \in handled'[q]
      <3>1. AwaitedIn(m.kind) \in Nat /\ round[q] \in Nat
        BY <1>3, RoundFacts
      <3>2. CASE round[q] > AwaitedIn(m.kind)
        BY <1>1, <2>1, <3>2 DEF IInv, RoundInv
      <3>3. CASE q = p /\ round[p] = AwaitedIn(m.kind)
        BY <1>1, <2>1, <3>3 DEF Awaits
      <3>4. QED
        BY <1>5, <2>1, <3>1, <3>2, <3>3
    <2>2. \A q \in Parties : main'[ProcessEnd(q)] = "start" => round'[q] = 0
      BY <1>1, <1>5 DEF IInv, RoundInv, LastRound
    <2>3. \A q \in Parties : round'[q] <= LastRound(q) + 1
      BY <1>1, <1>3, <1>5 DEF IInv, RoundInv, LastRound
    <2>4. QED
      BY <2>1, <2>2, <2>3 DEF RoundInv
  <1>10. StartInv'
    BY <1>1, StartKept DEF WireStep
  <1>11. StageInv'
    BY <1>1, <1>6, StageKept
  <1>12. DoneInv'
    <2>1. Closing' => Closing
      BY <1>1 DEF Closing
    <2>2. QED
      BY <1>1, <1>6, <2>1, SameBrings, DoneKept
  <1>13. QED
    BY <1>6, <1>7, <1>8, <1>9, <1>10, <1>11, <1>12 DEF IInv

\* TssMessage: a message is handled, relayed or, were it too late, discarded.
LEMMA TssMessageStep ==
    ASSUME IInv, NEW e \in Ends, TssMessage(e)
    PROVE  IInv'
  <1> DEFINE m == Head(wire[e])
             f == QueueOf(Party(e), m.PeerID)
  <1>1. /\ UNCHANGED <<round, adder, main, reader, stage, sender, serverDone, chan, stored>>
        /\ reader[e] = "loop" /\ wire[e] # <<>> /\ IsTss(m) /\ Taken(e)
        /\ \/ UNCHANGED <<handled, toSend>>
           \/ /\ m.PeerID = Party(e) /\ handled' = [handled EXCEPT ![m.PeerID] = @ \cup {m}]
              /\ UNCHANGED toSend
           \/ /\ m.PeerID # Party(e) /\ toSend' = [toSend EXCEPT ![f] = Append(@, m)]
              /\ UNCHANGED handled
    BY DEF TssMessage, Take, IsTss, goVars, endVars
  <1>2. /\ wire' \in Queued /\ OnceEach(wire') /\ Net(toSend, wire', handled, round)
        /\ Adds(Ends, Message, wire, wire', e, {}) /\ Elsewhere(wire, wire', e)
        /\ m \in Message /\ In(m, wire[e]) /\ ~In(m, wire'[e])
    BY <1>1, TakenFacts
  <1>3. /\ wire \in Queued /\ toSend \in Queued /\ handled \in Handlings
        /\ OnceEach(toSend) /\ Net(toSend, wire, handled, round)
    BY Typed DEF IInv, Net
  <1>4. m \in Protocol /\ Home(Peer(e), m) /\ m.from \in Parties /\ m.PeerID \in Parties
    BY <1>1, <1>2, <1>3, ProtocolFacts DEF Net, Routed
  <1>5. PICK d \in Devices : e = Client(d) \/ e = Handler(d)
    BY EndFacts
  <1>6. /\ e = Client(d) => m.PeerID = d /\ Party(e) = d
        /\ e = Handler(d) => m.from = d /\ Party(e) = Server
    BY <1>2, <1>4, EndFacts, HomeFacts
  <1> HIDE DEF m, f
  <1>7. /\ toSend' \in Queued /\ handled' \in Handlings
        /\ Net(toSend', wire', handled', round)
        /\ \A p \in Parties : handled[p] \subseteq handled'[p]
        /\ \A x \in handled'[Server] : x \in handled[Server] \/ (x = m /\ m.PeerID = Party(e))
    <2>1. CASE UNCHANGED <<handled, toSend>>
      <3>1. Net(toSend', wire', handled', round)
        BY <1>2, <2>1
      <3>2. QED
        BY <1>3, <2>1, <3>1
    <2>2. CASE /\ m.PeerID = Party(e) /\ handled' = [handled EXCEPT ![m.PeerID] = @ \cup {m}]
               /\ UNCHANGED toSend
      <3>1. Net(toSend, wire', handled', round)
        BY <1>1, <1>2, <1>3, <2>2, NetHandle
      <3>2. Net(toSend', wire', handled', round)
        BY <2>2, <3>1
      <3>3. \A p \in Parties : handled'[p] = IF p = m.PeerID THEN handled[p] \cup {m} ELSE handled[p]
        BY <1>3, <2>2 DEF Handlings
      <3>4. handled' \in Handlings
        BY <1>2, <1>3, <2>2 DEF Handlings
      <3>5. QED
        BY <1>3, <2>2, <3>2, <3>3, <3>4, PartyFacts
    <2>3. CASE /\ m.PeerID # Party(e) /\ toSend' = [toSend EXCEPT ![f] = Append(@, m)]
               /\ UNCHANGED handled
      <3>1. e = Handler(d) /\ Party(e) = Server
        BY <1>5, <1>6, <2>3
      <3>2. f = Handler(m.PeerID) /\ m.PeerID \in Devices /\ f \in Ends
        BY <1>4, <2>3, <3>1, QueueFacts, PartyFacts DEF f
      <3>3. Home(f, m)
        BY <1>2, <3>2, HomeFacts
      <3>4. ~In(m, toSend[f])
        BY <1>2, <1>3, <1>4, <3>2 DEF Net, Sole
      <3>5. /\ toSend' \in Queued /\ OnceEach(toSend')
            /\ Adds(Ends, Message, toSend, toSend', f, {m})
        BY <1>2, <1>3, <2>3, <3>2, <3>4, Put
      <3>6. Net(toSend', wire', handled, round)
        BY <1>1, <1>2, <1>3, <3>2, <3>3, <3>5, NetRelay
      <3>7. Net(toSend', wire', handled', round)
        BY <2>3, <3>6
      <3>8. QED
        BY <1>3, <2>3, <3>5, <3>7
    <2>4. QED
      BY <1>1, <2>1, <2>2, <2>3
  <1>8. TypeOK'
    BY <1>1, <1>2, <1>7 DEF IInv, TypeOK, Queued, QueuesOf, Handlings
  <1>9. Net(toSend, wire, handled, round)'
    BY <1>1, <1>7 DEF Net, Routed, Caused, Sole, OnceEach
  <1>10. RoundInv'
    BY <1>1, <1>7 DEF IInv, RoundInv
  <1>11. StartInv'
    <2>1. ASSUME NEW c \in Devices PROVE WireStep(c)
      <3>1. CASE e = Client(c)
        <4>1. wire[Client(c)] # <<>> /\ Head(wire[Client(c)]).kind \notin {"pubkey", "metadataAck"}
          BY <1>1, <3>1 DEF IsTss, TssKinds, m
        <4>2. QED
          BY <4>1 DEF WireStep
      <3>2. CASE e # Client(c)
        BY <1>2, <3>2, EndFacts DEF WireStep, Elsewhere
      <3>3. QED
        BY <3>1, <3>2
    <2>2. QED
      BY <1>1, <2>1, StartKept
  <1>12. StageInv'
    <2>1. ASSUME NEW x \in handled'[Server] PROVE reader'[Handler(x.from)] = "loop"
      <3>1. CASE x \in handled[Server]
        BY <1>1, <3>1 DEF IInv, StageInv
      <3>2. CASE x = m /\ m.PeerID = Party(e)
        <4>1. e = Handler(d) /\ m.from = d
          <5>1. Party(e) = Server
            <6>1. x.PeerID = Server
              BY <1>7, PartyFacts DEF Net, Routed
            <6>2. QED
              BY <3>2, <6>1
          <5>2. QED
            BY <1>5, <1>6, <5>1, PartyFacts
        <4>2. QED
          BY <1>1, <3>2, <4>1
      <3>3. QED
        BY <1>7, <3>1, <3>2
    <2>2. \A c \in Ends : stage'[c] = 40 => ProcessDone(Party(c))'
      BY <1>1 DEF IInv, StageInv, ProcessDone
    <2>3. QED
      BY <2>1, <2>2 DEF StageInv
  <1>13. DoneInv'
    <2>1. Closing' => Closing
      BY <1>1 DEF Closing
    <2>2. Brings(wire, wire', {})
      BY <1>2, AddsBrings
    <2>3. QED
      BY <1>1, <2>1, <2>2, SameRound, DoneKept
  <1>14. QED
    BY <1>8, <1>9, <1>10, <1>11, <1>12, <1>13 DEF IInv

-----------------------------------------------------------------------------
(* The end of the session.                                                 *)

\* A main that is past the process writes a control message.
LEMMA MainWrites ==
    ASSUME IInv, NEW e \in Ends, NEW kind \in Controls, Write(e, kind),
           main[e] \notin {"start", "process"},
           NEW x \in {"wait", "finish", "ret"}, main' = [main EXCEPT ![e] = x],
           UNCHANGED <<round, handled, adder, reader, stage, sender, toSend, stored>>,
           chan' \subseteq chan, serverDone' \subseteq Ends,
           \/ AllDone
           \/ /\ kind = "tssDone" /\ ProcessDone(Existing)
              /\ x = "finish" /\ serverDone' = serverDone
    PROVE  IInv'
  <1>1. /\ wire' \in Queued /\ Net(toSend, wire', handled, round)
        /\ Brings(wire, wire', {Note(e, kind)})
        /\ Elsewhere(wire, wire', Peer(e))
        /\ wire'[Peer(e)] = Append(wire[Peer(e)], Note(e, kind))
    BY WriteFacts, AddsBrings
  <1>2. Note(e, kind) \in Message /\ Note(e, kind).kind = kind
    BY NoteFacts
  <1>3. \A f \in Ends : main'[f] = IF f = e THEN x ELSE main[f]
    BY DEF IInv, TypeOK
  <1>4. TypeOK'
    <2>1. main' \in [Ends -> {"start", "process", "done", "wait", "finish", "ret"}]
      BY DEF IInv, TypeOK
    <2>2. QED
      BY <1>1, <2>1 DEF IInv, TypeOK, Queued, QueuesOf
  <1>5. StartInv'
    <2>1. ASSUME NEW d \in Devices PROVE WireStep(d)
      <3>1. CASE Client(d) = Peer(e)
        <4>1. e = Handler(d)
          BY <3>1, EndFacts
        <4>2. QED
          BY <1>1, <1>2, <3>1, <4>1 DEF WireStep
      <3>2. CASE Client(d) # Peer(e)
        BY <1>1, <3>2, EndFacts DEF WireStep, Elsewhere
      <3>3. QED
        BY <3>1, <3>2
    <2>2. \A d \in Devices : main[Handler(d)] = "start" => main'[Handler(d)] = "start"
      BY <1>3, EndFacts
    <2>3. QED
      BY <2>1, <2>2, StartKept
  <1>6. DoneInv'
    <2>1. Closing' => Closing \/ AllDone
      <3>1. CASE AllDone
        BY <3>1
      <3>2. CASE x = "finish" /\ serverDone' = serverDone
        BY <1>3, <3>2, EndFacts, PartyFacts DEF Closing
      <3>3. QED
        BY <3>1, <3>2
    <2>2. AllDone => ProcessDone(Existing)
      BY PartyFacts DEF AllDone
    <2>3. \A m \in {Note(e, kind)} : /\ m.kind = "tssDone" => ProcessDone(Existing)
                                     /\ Ending(m) => AllDone
      BY <1>2, <2>2 DEF Ending
    <2>4. \A f \in Ends : main'[f] \notin {"start", "process"} =>
                             main[f] \notin {"start", "process"} \/ ProcessDone(Party(f))
      BY <1>3
    <2>5. Lasting
      BY SameRound
    <2>6. QED
      BY <1>1, <2>1, <2>3, <2>4, <2>5, DoneKept
  <1>7. RoundInv'
    BY <1>3, RoundKept
  <1>8. StageInv'
    BY SameRound, StageKept
  <1>9. Net(toSend, wire, handled, round)'
    BY <1>1 DEF Net, Routed, Caused, Sole, OnceEach
  <1>10. QED
    BY <1>4, <1>5, <1>6, <1>7, <1>8, <1>9 DEF IInv

\* What the invariant says of the messages and channels that are there.
LEMMA DoneMeans ==
    ASSUME IInv
    PROVE  /\ \A e \in Ends : main[e] \notin {"start", "process"} => ProcessDone(Party(e))
           /\ "existingDeviceTssDone" \in chan => ProcessDone(Existing)
           /\ Closing => AllDone
           /\ \A e \in Ends : wire[e] # <<>> =>
                 /\ Head(wire[e]).kind = "tssDone" => ProcessDone(Existing)
                 /\ Ending(Head(wire[e])) => AllDone
  <1>1. ASSUME NEW e \in Ends, wire[e] # <<>>
        PROVE  Head(wire[e]) \in Message /\ In(Head(wire[e]), wire[e])
    <2>1. wire[e] \in Seq(Message)
      BY Typed DEF IInv
    <2>2. Head(wire[e]) \in Message
      BY <1>1, <2>1
    <2>3. QED
      BY <1>1, <2>1, <2>2, InHead
  <1>2. QED
    BY <1>1 DEF IInv, DoneInv

LEMMA MainSendStep ==
    ASSUME IInv,
           SendTssDone \/ SendMetadata \/ SendExistingDeviceDone \/ SendNewDeviceDone
    PROVE  IInv'
  <1> USE EndFacts, PartyFacts
  <1>1. CASE SendTssDone
    <2> DEFINE e == Client(Existing)
    <2>1. /\ Write(e, "tssDone") /\ main[e] = "done" /\ main' = [main EXCEPT ![e] = "finish"]
          /\ UNCHANGED <<round, handled, adder, reader, stage, sender, toSend, stored>>
          /\ chan' = chan /\ serverDone' = serverDone
      BY <1>1 DEF SendTssDone, procVars, endVars
    <2>2. ProcessDone(Existing)
      BY <2>1, DoneMeans
    <2>3. "tssDone" \in Controls /\ serverDone \subseteq Ends /\ e \in Ends
      BY DEF Controls, IInv, TypeOK
    <2> HIDE DEF e
    <2>4. QED
      BY <2>1, <2>2, <2>3, MainWrites
  <1>2. CASE SendMetadata
    <2> DEFINE e == Handler(New)
    <2>1. /\ Write(e, "metadata") /\ main[e] = "done" /\ main' = [main EXCEPT ![e] = "wait"]
          /\ UNCHANGED <<round, handled, adder, reader, stage, sender, toSend, stored>>
          /\ chan' \subseteq chan /\ serverDone' = serverDone
          /\ "existingDeviceTssDone" \in chan
      BY <1>2 DEF SendMetadata, procVars
    <2>2. AllDone
      BY <2>1, DoneMeans, AllDoneFrom
    <2>3. "metadata" \in Controls /\ serverDone \subseteq Ends /\ e \in Ends
      BY DEF Controls, IInv, TypeOK
    <2> HIDE DEF e
    <2>4. QED
      BY <2>1, <2>2, <2>3, MainWrites
  <1>3. CASE SendExistingDeviceDone
    <2> DEFINE e == Handler(New)
    <2>1. /\ Write(e, "existingDeviceDone") /\ main[e] = "wait" /\ main' = [main EXCEPT ![e] = "ret"]
          /\ UNCHANGED <<round, handled, adder, reader, stage, sender, toSend, stored>>
          /\ chan' \subseteq chan /\ serverDone' = serverDone \cup {e}
      BY <1>3 DEF SendExistingDeviceDone, procVars
    <2>2. AllDone
      BY <2>1, DoneMeans DEF Closing
    <2>3. "existingDeviceDone" \in Controls /\ serverDone' \subseteq Ends /\ e \in Ends
      BY <2>1 DEF Controls, IInv, TypeOK
    <2> HIDE DEF e
    <2>4. QED
      BY <2>1, <2>2, <2>3, MainWrites
  <1>4. CASE SendNewDeviceDone
    <2> DEFINE e == Handler(Existing)
    <2>1. /\ Write(e, "newDeviceDone") /\ main[e] = "done" /\ main' = [main EXCEPT ![e] = "finish"]
          /\ UNCHANGED <<round, handled, adder, reader, stage, sender, toSend, stored>>
          /\ chan' \subseteq chan /\ serverDone' = serverDone
          /\ "newDeviceDone" \in chan
      BY <1>4 DEF SendNewDeviceDone, procVars
    <2>2. AllDone
      BY <2>1, DoneMeans DEF Closing
    <2>3. "newDeviceDone" \in Controls /\ serverDone \subseteq Ends /\ e \in Ends
      BY DEF Controls, IInv, TypeOK
    <2> HIDE DEF e
    <2>4. QED
      BY <2>1, <2>2, <2>3, MainWrites
  <1>5. QED
    BY <1>1, <1>2, <1>3, <1>4

\* A reader takes a control message, and may write one.
LEMMA ReaderTakes ==
    ASSUME IInv, UNCHANGED <<round, handled, adder, main, reader, stage, sender, toSend, stored>>,
           wire' \in Queued, Net(toSend, wire', handled, round),
           NEW S, Brings(wire, wire', S),
           \A m \in S : /\ m.kind = "tssDone" => ProcessDone(Existing)
                        /\ Ending(m) => AllDone,
           \A d \in Devices : WireStep(d),
           chan' \subseteq chan \cup {"existingDeviceTssDone", "newDeviceDone",
                                      "existingDeviceDone"},
           "existingDeviceTssDone" \in chan' \ chan => ProcessDone(Existing),
           \A c \in {"newDeviceDone", "existingDeviceDone"} : c \in chan' \ chan => AllDone,
           serverDone' \subseteq Ends, serverDone' # serverDone => AllDone
    PROVE  IInv'
  <1>1. TypeOK'
    BY DEF IInv, TypeOK, Queued, QueuesOf
  <1>2. StartInv'
    <2>1. "adder" \in chan' => "adder" \in chan
      OBVIOUS
    <2>2. QED
      BY <2>1, StartKept
  <1>3. DoneInv'
    <2>1. Closing' => Closing \/ AllDone
      BY DEF Closing
    <2>2. Lasting
      BY SameRound
    <2>3. QED
      BY <2>1, <2>2, DoneKept
  <1>4. RoundInv'
    BY RoundKept
  <1>5. StageInv'
    BY SameRound, StageKept
  <1>6. Net(toSend, wire, handled, round)'
    BY DEF Net, Routed, Caused, Sole, OnceEach
  <1>7. QED
    BY <1>1, <1>2, <1>3, <1>4, <1>5, <1>6 DEF IInv

\* The confirmations that the handlers get.
LEMMA ConfirmStep ==
    ASSUME IInv, NEW d \in Devices,
           NEW kind \in {"tssDone", "everythingStored", "existingDeviceDone"},
           NEW channel \in {"existingDeviceTssDone", "newDeviceDone", "existingDeviceDone"},
           kind = "tssDone" <=> channel = "existingDeviceTssDone",
           Confirm(d, kind, channel)
    PROVE  IInv'
  <1> DEFINE e == Handler(d)
  <1>1. /\ UNCHANGED <<round, handled, adder, main, reader, stage, sender, toSend, stored>>
        /\ wire[e] # <<>> /\ Head(wire[e]).kind = kind /\ Taken(e) /\ e \in Ends
        /\ chan' \subseteq chan \cup {channel}
        /\ serverDone' \subseteq serverDone \cup {e}
        /\ kind # "existingDeviceDone" => serverDone' = serverDone
    BY EndFacts DEF Confirm, Take, procVars, goVars
  <1>2. /\ kind = "tssDone" => ProcessDone(Existing)
        /\ kind # "tssDone" => AllDone
    BY <1>1, DoneMeans DEF Ending
  <1>3. /\ wire' \in Queued /\ Net(toSend, wire', handled, round)
        /\ Brings(wire, wire', {}) /\ Elsewhere(wire, wire', e)
    BY <1>1, TakenFacts, AddsBrings
  <1>4. \A c \in Devices : WireStep(c)
    BY <1>3, EndFacts DEF WireStep, Elsewhere
  <1>5. /\ "existingDeviceTssDone" \in chan' \ chan => ProcessDone(Existing)
        /\ \A c \in {"newDeviceDone", "existingDeviceDone"} : c \in chan' \ chan => AllDone
        /\ serverDone' # serverDone => AllDone
        /\ serverDone' \subseteq Ends
    BY <1>1, <1>2 DEF IInv, TypeOK
  <1>6. chan' \subseteq chan \cup {"existingDeviceTssDone", "newDeviceDone", "existingDeviceDone"}
    BY <1>1
  <1>7. QED
    BY <1>1, <1>3, <1>4, <1>5, <1>6, ReaderTakes

\* A reader of a client answers the last messages, or ends the session.
LEMMA ClientReadStep ==
    ASSUME IInv, MetadataMessage \/ NewDeviceDoneMessage \/ ExistingDeviceDoneMessage
    PROVE  IInv'
  <1>1. PICK d \in Devices, kind \in {"everythingStored", "existingDeviceDone"} :
            /\ wire[Client(d)] # <<>> /\ Ending(Head(wire[Client(d)]))
            /\ Answer(Client(d), kind) \/ Taken(Client(d))
            /\ serverDone' \subseteq serverDone \cup {Client(d)}
    <2>1. CASE MetadataMessage
      BY <2>1, PartyFacts DEF MetadataMessage, Take, endVars, Ending
    <2>2. CASE NewDeviceDoneMessage
      BY <2>2, PartyFacts DEF NewDeviceDoneMessage, Take, Ending
    <2>3. CASE ExistingDeviceDoneMessage
      BY <2>3, PartyFacts DEF ExistingDeviceDoneMessage, Take, Ending
    <2>4. QED
      BY <2>1, <2>2, <2>3
  <1>2. UNCHANGED <<round, handled, adder, main, reader, stage, sender, toSend, chan, stored>>
    BY DEF MetadataMessage, NewDeviceDoneMessage, ExistingDeviceDoneMessage, procVars,
           goVars, endVars
  <1> DEFINE e == Client(d)
  <1>3. e \in Ends /\ Peer(e) = Handler(d) /\ kind \in Controls
    BY EndFacts DEF Controls
  <1>4. AllDone /\ ProcessDone(Existing)
    BY <1>1, <1>3, DoneMeans, PartyFacts DEF AllDone
  <1>5. /\ wire' \in Queued /\ Net(toSend, wire', handled, round)
        /\ Brings(wire, wire', {Note(e, kind)})
        /\ \A f \in Ends : f # e /\ f # Peer(e) => wire'[f] = wire[f]
    <2>1. CASE Answer(e, kind)
      BY <1>1, <1>3, <2>1, AnswerFacts
    <2>2. CASE Taken(e)
      <3>1. /\ wire' \in Queued /\ Net(toSend, wire', handled, round)
            /\ Brings(wire, wire', {}) /\ Elsewhere(wire, wire', e)
        BY <1>1, <1>3, <2>2, TakenFacts, AddsBrings
      <3>2. QED
        BY <3>1 DEF Brings, Elsewhere
    <2>3. QED
      BY <1>1, <2>1, <2>2
  <1>6. ASSUME NEW c \in Devices PROVE WireStep(c)
    <2>1. CASE c = d
      BY <1>1, <2>1 DEF WireStep, Ending
    <2>2. CASE c # d
      BY <1>3, <1>5, <2>2, EndFacts DEF WireStep
    <2>3. QED
      BY <2>1, <2>2
  <1>7. serverDone' \subseteq Ends
    BY <1>1, <1>3 DEF IInv, TypeOK
  <1> HIDE DEF e
  <1>8. QED
    BY <1>2, <1>4, <1>5, <1>6, <1>7, ReaderTakes

-----------------------------------------------------------------------------
(* The theorems.                                                           *)

LEMMA Inductive ==
    ASSUME IInv, [Next]_vars
    PROVE  IInv'
  <1>1. CASE ReaderSteps
    <2> USE PartyFacts
    <2>1. CASE TssDoneMessage
      BY <2>1, ConfirmStep DEF TssDoneMessage
    <2>2. CASE EverythingStoredClientMessage
      BY <2>2, ConfirmStep DEF EverythingStoredClientMessage
    <2>3. CASE HandlerExistingDeviceDone
      BY <2>3, ConfirmStep DEF HandlerExistingDeviceDone
    <2>4. QED
      BY <1>1, <2>1, <2>2, <2>3, AdderStep, ClientReadStep, WriteStartStep, ClientStartStep,
         StageStartedStep, TssMessageStep DEF ReaderSteps
  <1>2. CASE MainSteps
    BY <1>2, MainSendStep, StartTssStep, TssIsDoneStep, ReturnStep DEF MainSteps
  <1>3. CASE \E e \in Ends : TssSend(e) \/ TssSendStops(e)
    BY <1>3, TssSendStep, TssSendStopsStep
  <1>4. CASE \E p \in Parties : Advance(p)
    BY <1>4, AdvanceStep
  <1>5. CASE UNCHANGED vars
    <2>1. UNCHANGED <<round, handled, adder, main, reader, stage, sender, toSend, wire,
                      serverDone, chan, stored>>
      BY <1>5 DEF vars, procVars, goVars, netVars, endVars
    <2>2. TypeOK'
      BY <2>1 DEF IInv, TypeOK
    <2>3. StartInv'
      BY <2>1, StartKept DEF WireStep
    <2>4. Closing' => Closing
      BY <2>1 DEF Closing
    <2>5. DoneInv'
      BY <2>1, <2>4, SameRound, SameBrings, DoneKept
    <2>6. QED
      BY <2>1, <2>2, <2>3, <2>5, NetKept, RoundKept, SameRound, StageKept DEF IInv
  <1>6. QED
    BY <1>1, <1>2, <1>3, <1>4, <1>5 DEF Next

LEMMA Invariance == Spec => []IInv
  <1>1. IInv /\ [Next]_vars => IInv'
    BY Inductive
  <1>2. QED
    BY InitInvariant, <1>1, PTL DEF Spec

LEMMA RoundType ==
    ASSUME IInv
    PROVE  \A p \in Parties : round[p] \in Nat
  <1>1. round \in [Parties -> 0..5]
    BY DEF IInv, TypeOK
  <1>2. QED
    BY <1>1

\* The queues, the wires and the processes of a session keep their types.
THEOREM TypeCorrect == Spec => []TypeOK
  <1>1. IInv => TypeOK
    BY DEF IInv
  <1>2. QED
    BY <1>1, Invariance, PTL

\* No reader gets a TSS message before CreateAdder or the client's case of the
\* first message has made its party's adder.
THEOREM AddersReady == Spec => []AdderReady
  <1>1. ASSUME IInv PROVE AdderReady
    <2>1. SUFFICES ASSUME NEW e \in Ends, wire[e] # <<>>, Head(wire[e]).kind \in TssKinds,
                          reader[e] = "loop"
                   PROVE  Party(e) \in adder
      BY DEF AdderReady
    <2>2. PICK d \in Devices : e = Client(d) \/ e = Handler(d)
      BY EndFacts
    <2>3. CASE e = Client(d)
      <3>1. d \in adder
        BY <1>1, <2>1, <2>3 DEF IInv, StartInv, TssKinds
      <3>2. QED
        BY <2>3, <3>1, EndFacts
    <2>4. CASE e = Handler(d)
      BY <1>1, <2>1, <2>4, EndFacts DEF IInv, StartInv
    <2>5. QED
      BY <2>2, <2>3, <2>4
  <1>2. QED
    BY <1>1, Invariance, PTL

\* No case of a reader discards a message because of the stage.
THEOREM NoneTooLate == Spec => []NothingTooLate
  <1>1. ASSUME IInv PROVE NothingTooLate
    <2>1. \A e \in Ends : stage[e] \in {0, 30, 40}
      BY <1>1 DEF IInv, TypeOK
    <2>2. QED
      BY <2>1, StageFacts DEF NothingTooLate, Late
  <1>2. QED
    BY <1>1, Invariance, PTL

\* When a TssSend has stopped every process is done, so that every message was
\* handled; as a message is at one place at most, none is left in its queue.
THEOREM NoneLeftBehind == Spec => []NothingLeftBehind
  <1>1. ASSUME IInv PROVE NothingLeftBehind
    <2>1. SUFFICES ASSUME NEW e \in Ends, sender[e] = "ret", toSend[e] # <<>>
                   PROVE  FALSE
      BY DEF NothingLeftBehind
    <2>2. AllDone
      BY <1>1, <2>1, DoneMeans DEF Closing
    <2> DEFINE m == Head(toSend[e])
    <2>3. toSend[e] \in Seq(Message)
      BY <1>1, Typed DEF IInv
    <2>4. m \in Message /\ In(m, toSend[e])
      BY <2>1, <2>3, InHead
    <2> HIDE DEF m
    <2>5. m \in Protocol /\ m.PeerID \in Parties
      BY <1>1, <2>4, ProtocolFacts DEF IInv, Net, Routed
    <2>6. round[m.PeerID] > LastRound(m.PeerID) /\ round[m.PeerID] \in Nat
      BY <1>1, <2>2, <2>5, RoundType DEF AllDone, ProcessDone
    <2>7. AwaitedIn(m.kind) <= LastRound(m.PeerID) /\ AwaitedIn(m.kind) \in Nat
      BY <2>5, RoundFacts
    <2>8. LastRound(m.PeerID) \in Nat
      BY DEF LastRound
    <2>9. round[m.PeerID] > AwaitedIn(m.kind)
      BY <2>6, <2>7, <2>8
    <2>10. m \in handled[m.PeerID]
      BY <1>1, <2>5, <2>9 DEF IInv, RoundInv
    <2>11. QED
      BY <1>1, <2>4, <2>5, <2>10 DEF IInv, Net, Sole
  <1>2. QED
    BY <1>1, Invariance, PTL

\* The server's process is done only after messages of both devices, which their
\* handlers' readers take once they have set the stage.
LEMMA ServerDone ==
    ASSUME IInv, ProcessDone(Server), NEW d \in Devices
    PROVE  reader[Handler(d)] = "loop"
  <1> DEFINE m == [kind |-> IF d = New THEN "verify" ELSE "compute",
                   from |-> d, PeerID |-> Server]
  <1>1. m \in Protocol /\ m.from = d /\ m.PeerID = Server /\ m.kind \in {"verify", "compute"}
    BY PartyFacts DEF Protocol, Message, TssKinds
  <1> HIDE DEF m
  <1>2. round[Server] > 4 /\ round[Server] \in Nat
    BY PartyFacts, RoundType DEF ProcessDone, LastRound
  <1>3. round[Server] > AwaitedIn(m.kind)
    BY <1>1, <1>2, AwaitedFacts
  <1>4. m \in handled[Server]
    BY <1>1, <1>3, PartyFacts DEF IInv, RoundInv
  <1>5. QED
    BY <1>1, <1>4 DEF IInv, StageInv

\* The reader of a handler does not take back the stage that the main has set.
THEOREM StageOnlyForward == Spec => StageNeverBack
  <1>1. ASSUME IInv, [Next]_vars
        PROVE  [\A e \in Ends : stage'[e] >= stage[e]]_vars
    <2>1. \A e \in Ends : stage[e] \in {0, 30, 40}
      BY <1>1 DEF IInv, TypeOK
    <2>2. CASE UNCHANGED stage
      BY <2>1, <2>2
    <2>3. ASSUME NEW d \in Devices, StageStarted(d)
          PROVE  \A e \in Ends : stage'[e] >= stage[e]
      <3>1. reader[Handler(d)] # "loop"
        BY <2>3 DEF StageStarted
      <3>2. stage[Handler(d)] # 40
        BY <1>1, <3>1, ServerDone, EndFacts DEF IInv, StageInv
      <3>3. \A e \in Ends : stage'[e] = IF e = Handler(d) THEN 30 ELSE stage[e]
        BY <1>1, <2>3 DEF StageStarted, IInv, TypeOK
      <3>4. QED
        BY <2>1, <3>2, <3>3
    <2>4. ASSUME NEW e \in Ends, TssIsDone(e)
          PROVE  \A f \in Ends : stage'[f] >= stage[f]
      <3>1. \A f \in Ends : stage'[f] = IF f = e THEN 40 ELSE stage[f]
        BY <1>1, <2>4 DEF TssIsDone, IInv, TypeOK
      <3>2. QED
        BY <2>1, <3>1
    <2>5. \/ UNCHANGED stage
          \/ \E d \in Devices : StageStarted(d)
          \/ \E e \in Ends : TssIsDone(e)
      BY <1>1 DEF Next, ReaderSteps, MainSteps, vars, procVars, goVars, netVars, endVars,
         CreateAdder, TakeAdder, TssDoneMessage, EverythingStoredClientMessage,
         HandlerExistingDeviceDone, Confirm, MetadataMessage, NewDeviceDoneMessage,
         ExistingDeviceDoneMessage, WriteStart, ClientStart, TssMessage, SendTssDone,
         SendMetadata, SendExistingDeviceDone, SendNewDeviceDone, StartTss, Return, TssSend,
         TssSendStops, Advance
    <2>6. QED
      BY <2>2, <2>3, <2>4, <2>5
  <1>2. IInv /\ [Next]_vars => [\A e \in Ends : stage'[e] >= stage[e]]_vars
    BY <1>1
  <1>3. QED
    BY <1>2, Invariance, PTL DEF Spec, StageNeverBack

\* The rounds change only when a process starts and when a round ends.
LEMMA RoundSteps ==
    ASSUME [Next]_vars
    PROVE  \/ UNCHANGED round
           \/ \E e \in Ends : StartTss(e)
           \/ \E p \in Parties : Advance(p)
  BY DEF Next, ReaderSteps, MainSteps, vars, procVars, goVars, netVars, endVars,
     CreateAdder, TakeAdder, TssDoneMessage, EverythingStoredClientMessage,
     HandlerExistingDeviceDone, Confirm, MetadataMessage, NewDeviceDoneMessage,
     ExistingDeviceDoneMessage, WriteStart, ClientStart, StageStarted, TssMessage, SendTssDone,
     SendMetadata, SendExistingDeviceDone, SendNewDeviceDone, TssIsDone, Return, TssSend,
     TssSendStops

\* Every step of the session is a step of ShareProtocol or leaves it alone: the new
\* party is done only when all three take part, the others only after it.
THEOREM ImplementsStepwise == Spec => Process!Init /\ [][Process!Next]_(Process!vars)
  <1> DEFINE running == {p \in Parties : round[p] > 0}
             done    == {p \in Parties : ProcessDone(p)}
  <1>1. Init => Process!Init
    <2>1. SUFFICES ASSUME Init PROVE running = {} /\ done = {}
      BY DEF Process!Init
    <2>2. \A p \in Parties : round[p] = 0
      BY <2>1 DEF Init
    <2>3. QED
      BY <2>2 DEF ProcessDone, LastRound
  <1>2. ASSUME IInv, [Next]_vars
        PROVE  [Process!Next]_(Process!vars)
    <2>1. round \in [Parties -> 0..5]
      BY <1>2 DEF IInv, TypeOK
    <2>2. CASE UNCHANGED round
      BY <2>2 DEF Process!vars, ProcessDone
    <2>3. ASSUME NEW e \in Ends, StartTss(e)
          PROVE  Process!Next \/ UNCHANGED Process!vars
      <3>1. round' = [p \in Parties |-> IF e = ProcessEnd(p) THEN 1 ELSE round[p]]
        BY <2>3 DEF StartTss
      <3>2. CASE \E p \in Parties : e = ProcessEnd(p)
        <4>1. PICK p \in Parties : e = ProcessEnd(p)
          BY <3>2
        <4>2. \A q \in Parties : round'[q] = IF q = p THEN 1 ELSE round[q]
          BY <3>1, <4>1, PartyFacts
        <4>3. round[p] = 0
          BY <1>2, <2>3, <4>1 DEF StartTss, IInv, RoundInv
        <4>4. running' = running \cup {p}
          BY <2>1, <4>2
        <4>5. done' = done
          BY <2>1, <4>2, <4>3 DEF ProcessDone, LastRound
        <4>6. Process!Start(p)
          BY <4>4, <4>5 DEF Process!Start
        <4>7. QED
          BY <4>6 DEF Process!Next
      <3>3. CASE ~\E p \in Parties : e = ProcessEnd(p)
        <4>1. \A q \in Parties : round'[q] = round[q]
          BY <3>1, <3>3
        <4>2. running' = running /\ done' = done
          BY <4>1 DEF ProcessDone
        <4>3. QED
          BY <4>2 DEF Process!vars
      <3>4. QED
        BY <3>2, <3>3
    <2>4. ASSUME NEW p \in Parties, Advance(p)
          PROVE  Process!Next \/ UNCHANGED Process!vars
      <3>1. /\ round[p] \in 1..LastRound(p) /\ Awaits(p, round[p]) \subseteq handled[p]
            /\ round' = [round EXCEPT ![p] = @ + 1]
        BY <2>4 DEF Advance
      <3>2. \A q \in Parties : round'[q] = IF q = p THEN round[p] + 1 ELSE round[q]
        BY <2>1, <3>1
      <3>3. running' = running
        BY <2>1, <3>1, <3>2 DEF LastRound
      <3>4. CASE round[p] < LastRound(p)
        <4>1. done' = done
          BY <2>1, <3>1, <3>2, <3>4 DEF ProcessDone, LastRound
        <4>2. QED
          BY <3>3, <4>1 DEF Process!vars
      <3>5. CASE round[p] = LastRound(p)
        <4>1. done' = done \cup {p}
          BY <2>1, <3>1, <3>2, <3>5 DEF ProcessDone, LastRound
        <4>2. CASE p = New
          <5>1. ASSUME NEW q \in Parties PROVE round[q] > 0
            <6> DEFINE m == [kind |-> "result", from |-> q, PeerID |-> New]
            <6>1. CASE q = New
              BY <2>1, <3>1, <4>2, <6>1 DEF LastRound
            <6>2. CASE q # New
              <7>1. m \in Protocol /\ m \in Awaits(p, round[p])
                BY <3>5, <4>2, <6>2, PartyFacts, AwaitedFacts
                   DEF Protocol, Message, TssKinds, Awaits, LastRound
              <7>2. round[m.from] > SentIn(m.kind)
                BY <1>2, <3>1, <7>1, <4>2 DEF IInv, Net, Caused
              <7>3. QED
                BY <2>1, <7>2 DEF SentIn
            <6>3. QED
              BY <6>1, <6>2
          <5>2. running = Parties
            BY <5>1
          <5>3. Process!NewPeerDone
            BY <3>3, <4>1, <4>2, <5>2 DEF Process!NewPeerDone
          <5>4. QED
            BY <5>3 DEF Process!Next
        <4>3. CASE p # New
          <5> DEFINE m == [kind |-> "verify", from |-> New, PeerID |-> p]
          <5>1. m \in Protocol /\ m \in Awaits(p, round[p])
            BY <3>5, <4>3, PartyFacts, AwaitedFacts
               DEF Protocol, Message, TssKinds, Awaits, LastRound
          <5>2. round[New] > 2
            BY <1>2, <3>1, <5>1 DEF IInv, Net, Caused, SentIn
          <5>3. New \in done
            BY <5>2, PartyFacts DEF ProcessDone, LastRound
          <5>4. Process!OldPeerDone(p)
            BY <3>3, <4>1, <5>3 DEF Process!OldPeerDone
          <5>5. QED
            BY <4>3, <5>4 DEF Process!Next
        <4>4. QED
          BY <4>2, <4>3
      <3>6. QED
        BY <2>1, <3>1, <3>4, <3>5 DEF LastRound
    <2>5. QED
      BY <1>2, <2>2, <2>3, <2>4, RoundSteps
  <1>3. IInv /\ [Next]_vars => [Process!Next]_(Process!vars)
    BY <1>2
  <1>4. QED
    BY <1>1, <1>3, Invariance, PTL DEF Spec
=============================================================================
