--------------------------- MODULE Requests_proofs ---------------------------
(***************************************************************************)
(* Proofs about Requests, for any sets of calls and any number of failures.*)
(***************************************************************************)
EXTENDS Requests, TLAPS

\* Message m is in flight in queue q.
In(m, q) == \E i \in 1..Len(q) : q[i] = m

Msgs == {"tss", "end"}

\* The steps of one call: Next is \E c \in Calls : Step(c), with slow and
\* devMode unchanged.
Step(c) ==
    \/ ClientSteps(c)
    \/ HandlerSteps(c)
    \/ Failures(c)
    \/ \E s \in Sides : \/ ReceiveSteps(c, s)
                        \/ SendSteps(c, s)
                        \/ MakeLast(c, s)
                        \/ TssDone(c, s)
                        \/ Deadline(c, s)

-----------------------------------------------------------------------------
(* The inductive invariant, call by call.                                  *)

\* The connection is there between the dial and the return of the client, and
\* it is open only while the handler has not closed it.
ConnInv(c) ==
    /\ conn[c] = "open" => main[c].server \in {"tss", "sleep"}
    /\ main[c].client \in {"dialled", "tss", "wait"} =>
          conn[c] # "none" /\ c \in Signs
    /\ main[c].client \in {"idle", "token"} =>
          conn[c] = "none" /\ main[c].server = "none"
    /\ main[c].client = "post" => c \notin Signs

\* A connection that is over is one whose end is on its way to the client, if no
\* goroutine of the client knows of it yet.
EndInv(c) ==
    main[c].client \in {"dialled", "tss", "wait"} /\ conn[c] = "over" /\ errs[c] = {}
        => In("end", wire[c]["client"])

\* Receive of the client starts with its signer.  After it handled the last
\* message its context is not over unless it left an error: it can only find the
\* context over at its select before that message.
ReadInv(c) ==
    /\ main[c].client \in {"idle", "token", "dialled"} =>
          receive[c]["client"] = "off" /\ "client" \notin got[c]
    /\ Prompt /\ main[c].client \in {"tss", "wait"} =>
          /\ receive[c]["client"] # "off"
          /\ receive[c]["client"] = "read" => "client" \notin expired[c]
          /\ receive[c]["client"] = "top" /\ "client" \in got[c] =>
                "client" \notin expired[c]
          /\ receive[c]["client"] = "ret" => errs[c] # {} \/ "client" \notin got[c]

\* A last message that is in flight or was handled was sent by the other side,
\* and it was made before; a process is done once it made one and got one.
LastInv(c) ==
    /\ \A s \in Sides :
          /\ In("tss", wire[c][s]) \/ s \in got[c] => Other(s) \in sent[c]
          /\ s \in sent[c] => s \in made[c]
          /\ tss[c][s] = "done" => s \in made[c] \cap got[c]
    /\ c \in Signs /\ main[c].client \in {"wait", "ok"} => tss[c]["client"] = "done"

\* In dev mode and without a failure the token is there for the request, and
\* nothing fails.
CleanInv(c) ==
    devMode /\ faults = 0 =>
        /\ main[c].client = "token" => c \in tokens
        /\ main[c].client # "err"
        /\ main[c].server # "ret"
        /\ \A s \in Sides : tss[c][s] # "failed"
        /\ response[c] # "text"
        /\ c \in Exports /\ main[c].client = "ok" => response[c] = "key"

\* Outside dev mode a call ends before it has a token.
ProdInv(c) ==
    ~devMode =>
        /\ main[c].client \in {"idle", "err"}
        /\ main[c].server = "none"
        /\ c \notin tokens

CallInv(c) ==
    ConnInv(c) /\ EndInv(c) /\ ReadInv(c) /\ LastInv(c) /\ CleanInv(c) /\ ProdInv(c)

IInv == TypeOK /\ \A c \in Calls : CallInv(c)

-----------------------------------------------------------------------------
(* The queues of a connection.                                             *)

Queue == Seq(Msgs)

\* A write adds its message and keeps the others.
LEMMA InAppend ==
    ASSUME NEW q \in Queue, NEW m \in Msgs
    PROVE  /\ Append(q, m) \in Queue
           /\ In(m, Append(q, m))
           /\ \A x \in Msgs : In(x, Append(q, m)) <=> In(x, q) \/ x = m
  <1>1. /\ Append(q, m) \in Queue /\ Len(q) \in Nat
        /\ Len(Append(q, m)) = Len(q) + 1 /\ Append(q, m)[Len(q) + 1] = m
        /\ \A i \in 1..Len(q) : Append(q, m)[i] = q[i]
    BY DEF Queue
  <1>2. In(m, Append(q, m))
    BY <1>1 DEF In
  <1>3. ASSUME NEW x \in Msgs, In(x, q)
        PROVE  In(x, Append(q, m))
    BY <1>1, <1>3 DEF In
  <1>4. ASSUME NEW x \in Msgs, In(x, Append(q, m)), x # m
        PROVE  In(x, q)
    BY <1>1, <1>4 DEF In
  <1>5. QED
    BY <1>1, <1>2, <1>3, <1>4

\* A read takes the first message and keeps the others.
LEMMA InTail ==
    ASSUME NEW q \in Queue, q # <<>>
    PROVE  /\ Tail(q) \in Queue
           /\ In(Head(q), q)
           /\ \A x \in Msgs : In(x, Tail(q)) => In(x, q)
           /\ \A x \in Msgs : In(x, q) /\ x # Head(q) => In(x, Tail(q))
  <1>1. /\ Tail(q) \in Queue /\ Len(q) \in Nat \ {0} /\ Len(Tail(q)) = Len(q) - 1
        /\ q[1] = Head(q)
        /\ \A i \in 1..(Len(q) - 1) : Tail(q)[i] = q[i + 1]
    BY DEF Queue
  <1>2. In(Head(q), q)
    BY <1>1 DEF In
  <1>3. ASSUME NEW x \in Msgs, In(x, Tail(q))
        PROVE  In(x, q)
    <2>1. PICK i \in 1..(Len(q) - 1) : q[i + 1] = x
      BY <1>1, <1>3 DEF In
    <2>2. i + 1 \in 1..Len(q)
      BY <1>1
    <2>3. QED
      BY <2>1, <2>2 DEF In
  <1>4. ASSUME NEW x \in Msgs, In(x, q), x # Head(q)
        PROVE  In(x, Tail(q))
    <2>1. PICK i \in 1..Len(q) : q[i] = x
      BY <1>4 DEF In
    <2>2. i # 1
      BY <1>1, <1>4, <2>1
    <2>3. i - 1 \in 1..(Len(q) - 1) /\ Tail(q)[i - 1] = q[(i - 1) + 1]
      BY <1>1, <2>2
    <2>4. (i - 1) + 1 = i
      OBVIOUS
    <2>5. QED
      BY <1>1, <2>1, <2>3, <2>4 DEF In
  <1>5. QED
    BY <1>1, <1>2, <1>3, <1>4

\* A connection that is lost loses the last messages.
LEMMA InCut ==
    ASSUME NEW q \in Queue, NEW k \in 0..Len(q)
    PROVE  /\ SubSeq(q, 1, k) \in Queue
           /\ \A x \in Msgs : In(x, SubSeq(q, 1, k)) => In(x, q)
  <1>1. /\ SubSeq(q, 1, k) \in Queue /\ Len(q) \in Nat /\ Len(SubSeq(q, 1, k)) = k
        /\ \A i \in 1..k : SubSeq(q, 1, k)[i] = q[i]
    BY DEF Queue
  <1>2. QED
    BY <1>1 DEF In

-----------------------------------------------------------------------------
(* The types, and the frame of a step: it changes nothing of another call. *)

ClientStates  == {"idle", "token", "dialled", "tss", "wait", "post", "ok", "err"}
HandlerStates == {"none", "tss", "sleep", "closed", "export", "done", "ret"}
Mains         == [client : ClientStates, server : HandlerStates]
ReceiveStates == {"off", "read", "top", "ret"}
SendStates    == {"off", "run", "ret"}
TssStates     == {"off", "run", "done", "failed"}
ConnStates    == {"none", "open", "over"}

\* g is f, with another value of V for call c.
Upd(V, f, g, c) ==
    /\ g \in [Calls -> V]
    /\ \A d \in Calls : d # c => g[d] = f[d]

\* g is f, with value x for side s of call c.
Put(V, f, g, c, s, x) ==
    /\ Upd([Sides -> V], f, g, c)
    /\ g[c][s] = x
    /\ g[c][Other(s)] = f[c][Other(s)]

\* The two sides.
LEMMA Two == /\ "client" \in Sides /\ "server" \in Sides
             /\ Other("client") = "server" /\ Other("server") = "client"
             /\ \A s \in Sides : Other(s) \in Sides /\ Other(s) # s
             /\ \A s \in Sides : s = "client" \/ s = "server"
  BY DEF Sides, Other

LEMMA UpdNone ==
    ASSUME NEW V, NEW f \in [Calls -> V], NEW g, g = f, NEW c \in Calls
    PROVE  Upd(V, f, g, c)
  BY DEF Upd

\* A function after an assignment, for the frame of a step.
LEMMA UpdOne ==
    ASSUME NEW V, NEW f \in [Calls -> V], NEW c \in Calls, NEW v \in V, NEW g,
           g = [f EXCEPT ![c] = v]
    PROVE  Upd(V, f, g, c) /\ g[c] = v
  BY DEF Upd

LEMMA PutOne ==
    ASSUME NEW V, NEW f \in [Calls -> [Sides -> V]], NEW c \in Calls,
           NEW s \in Sides, NEW x \in V, NEW g, g = [f EXCEPT ![c][s] = x]
    PROVE  Put(V, f, g, c, s, x)
  <1>1. f[c] \in [Sides -> V]
    OBVIOUS
  <1>2. [f[c] EXCEPT ![s] = x] \in [Sides -> V]
    BY <1>1
  <1>3. g = [f EXCEPT ![c] = [f[c] EXCEPT ![s] = x]]
    OBVIOUS
  <1>4. Upd([Sides -> V], f, g, c) /\ g[c] = [f[c] EXCEPT ![s] = x]
    BY <1>2, <1>3, UpdOne
  <1>5. QED
    BY <1>1, <1>4, Two DEF Put

-----------------------------------------------------------------------------
(* What the assignments of the actions do.                                 *)

Types ==
    /\ main     \in [Calls -> Mains]
    /\ receive  \in [Calls -> [Sides -> ReceiveStates]]
    /\ send     \in [Calls -> [Sides -> SendStates]]
    /\ expired  \in [Calls -> SUBSET Sides]
    /\ errs     \in [Calls -> SUBSET {"Receive", "Send"}]
    /\ conn     \in [Calls -> ConnStates]
    /\ wire     \in [Calls -> [Sides -> Queue]]
    /\ tss      \in [Calls -> [Sides -> TssStates]]
    /\ made     \in [Calls -> SUBSET Sides]
    /\ sent     \in [Calls -> SUBSET Sides]
    /\ got      \in [Calls -> SUBSET Sides]
    /\ response \in [Calls -> {"none", "key", "text"}]

LEMMA TypeOKSplits ==
    TypeOK <=> /\ Types
               /\ slow \subseteq Signs
               /\ devMode \in BOOLEAN
               /\ tokens \subseteq Calls
               /\ faults \in 0..MaxFaults
  BY DEF TypeOK, Types, Mains, ClientStates, HandlerStates, ReceiveStates, SendStates,
     ConnStates, TssStates, Queue, Msgs

\* The goroutine of the client, and the handler.
MainIs(c, x, y) ==
    /\ Upd(Mains, main, main', c)
    /\ main'[c].client = x
    /\ main'[c].server = y

LEMMA MainEffect ==
    ASSUME Types, NEW c \in Calls
    PROVE  /\ main' = main => MainIs(c, main[c].client, main[c].server)
           /\ \A x \in ClientStates : ClientGoes(c, x) => MainIs(c, x, main[c].server)
           /\ \A y \in HandlerStates : HandlerGoes(c, y) => MainIs(c, main[c].client, y)
           /\ \A x \in ClientStates, y \in HandlerStates :
                 main' = [main EXCEPT ![c] = [client |-> x, server |-> y]]
                     => MainIs(c, x, y)
  <1>1. main \in [Calls -> Mains] /\ main[c] \in Mains
    BY DEF Types
  <1>2. ASSUME NEW x \in ClientStates, NEW y \in HandlerStates,
               main' = [main EXCEPT ![c] = [client |-> x, server |-> y]]
        PROVE  MainIs(c, x, y)
    <2>1. [client |-> x, server |-> y] \in Mains
      BY DEF Mains
    <2>2. QED
      BY <1>1, <1>2, <2>1, UpdOne DEF MainIs
  <1>3. /\ main[c] = [client |-> main[c].client, server |-> main[c].server]
        /\ main[c].client \in ClientStates /\ main[c].server \in HandlerStates
    BY <1>1 DEF Mains
  <1>4. ASSUME NEW x \in ClientStates, ClientGoes(c, x)
        PROVE  MainIs(c, x, main[c].server)
    <2>1. [main[c] EXCEPT !.client = x] = [client |-> x, server |-> main[c].server]
      BY <1>3
    <2>2. main' = [main EXCEPT ![c] = [main[c] EXCEPT !.client = x]]
      BY <1>4 DEF ClientGoes
    <2>3. QED
      BY <1>2, <1>3, <2>1, <2>2
  <1>5. ASSUME NEW y \in HandlerStates, HandlerGoes(c, y)
        PROVE  MainIs(c, main[c].client, y)
    <2>1. [main[c] EXCEPT !.server = y] = [client |-> main[c].client, server |-> y]
      BY <1>3
    <2>2. main' = [main EXCEPT ![c] = [main[c] EXCEPT !.server = y]]
      BY <1>5 DEF HandlerGoes
    <2>3. QED
      BY <1>2, <1>3, <2>1, <2>2
  <1>6. main' = main => MainIs(c, main[c].client, main[c].server)
    BY <1>1, UpdNone DEF MainIs
  <1>7. QED
    BY <1>2, <1>4, <1>5, <1>6

\* A wire on which no last message was written, and one that keeps its end.
WireStep(c) ==
    /\ Upd([Sides -> Queue], wire, wire', c)
    /\ \A s \in Sides : In("tss", wire'[c][s]) => In("tss", wire[c][s])
EndKept(c) == In("end", wire[c]["client"]) => In("end", wire'[c]["client"])

\* Closing: the end goes to the other side if the connection was open.
LEMMA CloseEffect ==
    ASSUME Types, NEW c \in Calls, NEW s \in Sides, Close(c, s)
    PROVE  /\ Upd(ConnStates, conn, conn', c) /\ conn'[c] = "over"
           /\ WireStep(c)
           /\ EndKept(c)
           /\ s = "server" /\ conn[c] = "open" => In("end", wire'[c]["client"])
  <1>1. Upd(ConnStates, conn, conn', c) /\ conn'[c] = "over"
    <2>1. "over" \in ConnStates /\ conn \in [Calls -> ConnStates]
      BY DEF ConnStates, Types
    <2>2. conn' = [conn EXCEPT ![c] = "over"]
      BY DEF Close
    <2>3. QED
      BY ONLY <2>1, <2>2, UpdOne, c \in Calls
  <1>2. wire \in [Calls -> [Sides -> Queue]] /\ "end" \in Msgs /\ "tss" \in Msgs
    BY DEF Types, Msgs
  <1>3. wire[c][Other(s)] \in Queue
    BY <1>2, Two
  <1>4. CASE conn[c] = "open"
    <2>1. wire' = [wire EXCEPT ![c][Other(s)] = Append(wire[c][Other(s)], "end")]
      BY <1>4 DEF Close
    <2>2. /\ Append(wire[c][Other(s)], "end") \in Queue
          /\ In("end", Append(wire[c][Other(s)], "end"))
          /\ In("tss", Append(wire[c][Other(s)], "end")) => In("tss", wire[c][Other(s)])
      BY <1>2, <1>3, InAppend
    <2>3. Put(Queue, wire, wire', c, Other(s), Append(wire[c][Other(s)], "end"))
      BY ONLY <1>2, <2>1, <2>2, Two, PutOne, c \in Calls, s \in Sides
    <2>4. /\ Upd([Sides -> Queue], wire, wire', c)
          /\ wire'[c][Other(s)] = Append(wire[c][Other(s)], "end")
          /\ wire'[c][s] = wire[c][s]
      BY <2>3, Two DEF Put
    <2>5. \A t \in Sides : t = s \/ t = Other(s)
      BY Two
    <2>6. \A t \in Sides : /\ In("tss", wire'[c][t]) => In("tss", wire[c][t])
                           /\ In("end", wire[c][t]) => In("end", wire'[c][t])
      BY <2>2, <2>4, <2>5
    <2>7. s = "server" => In("end", wire'[c]["client"])
      BY <2>2, <2>4, Two
    <2>8. WireStep(c)
      BY <2>4, <2>6 DEF WireStep
    <2>9. EndKept(c)
      BY <2>6, Two DEF EndKept
    <2>10. QED
      BY <1>1, <2>7, <2>8, <2>9
  <1>5. CASE conn[c] # "open"
    <2>1. wire' = wire
      BY <1>5 DEF Close
    <2>2. QED
      BY <1>1, <1>2, <1>5, <2>1, UpdNone DEF WireStep, EndKept
  <1>6. QED
    BY <1>4, <1>5

\* Reading: the message was there, and only a Read of the end takes the end.
LEMMA ReadsEffect ==
    ASSUME Types, NEW c \in Calls, NEW s \in Sides, NEW m \in Msgs, Reads(c, s, m)
    PROVE  /\ WireStep(c)
           /\ In(m, wire[c][s])
           /\ m # "end" \/ s # "client" => EndKept(c)
  <1>1. wire \in [Calls -> [Sides -> Queue]] /\ "end" \in Msgs /\ "tss" \in Msgs
    BY DEF Types, Msgs
  <1>2. wire[c][s] \in Queue /\ wire[c][s] # <<>> /\ Head(wire[c][s]) = m
    BY <1>1 DEF Reads
  <1>3. /\ Tail(wire[c][s]) \in Queue
        /\ In(m, wire[c][s])
        /\ In("tss", Tail(wire[c][s])) => In("tss", wire[c][s])
        /\ In("end", wire[c][s]) /\ m # "end" => In("end", Tail(wire[c][s]))
    BY <1>1, <1>2, InTail
  <1>4. wire' = [wire EXCEPT ![c][s] = Tail(wire[c][s])]
    BY DEF Reads
  <1>5. Put(Queue, wire, wire', c, s, Tail(wire[c][s]))
    BY ONLY <1>1, <1>3, <1>4, PutOne, c \in Calls, s \in Sides
  <1>6. QED
    BY <1>3, <1>5, Two DEF Put, WireStep, EndKept

\* Writing the last message.
LEMMA SendEffect ==
    ASSUME Types, NEW c \in Calls, NEW s \in Sides, Send(c, s)
    PROVE  /\ Upd([Sides -> Queue], wire, wire', c)
           /\ wire'[c][s] = wire[c][s]
           /\ EndKept(c)
  <1>1. wire \in [Calls -> [Sides -> Queue]] /\ "end" \in Msgs /\ "tss" \in Msgs
    BY DEF Types, Msgs
  <1>2. wire[c][Other(s)] \in Queue
    BY <1>1, Two
  <1>3. CASE conn[c] = "open"
    <2>1. wire' = [wire EXCEPT ![c][Other(s)] = Append(wire[c][Other(s)], "tss")]
      BY <1>3 DEF Send
    <2>2. /\ Append(wire[c][Other(s)], "tss") \in Queue
          /\ In("end", wire[c][Other(s)]) => In("end", Append(wire[c][Other(s)], "tss"))
      BY <1>1, <1>2, InAppend
    <2>3. Put(Queue, wire, wire', c, Other(s), Append(wire[c][Other(s)], "tss"))
      BY ONLY <1>1, <2>1, <2>2, Two, PutOne, c \in Calls, s \in Sides
    <2>4. QED
      BY <2>2, <2>3, Two DEF Put, EndKept
  <1>4. CASE conn[c] # "open"
    <2>1. wire' = wire
      BY <1>4 DEF Send
    <2>2. QED
      BY <1>1, <2>1, UpdNone DEF EndKept
  <1>5. QED
    BY <1>3, <1>4

\* Losing the connection: the end comes after the messages that were not lost.
LEMMA DropEffect ==
    ASSUME Types, NEW c \in Calls, Drop(c)
    PROVE  WireStep(c) /\ In("end", wire'[c]["client"])
  <1>1. PICK i \in 0..Len(wire[c]["client"]), j \in 0..Len(wire[c]["server"]) :
           wire' = [wire EXCEPT
                       ![c]["client"] = Append(SubSeq(@, 1, i), "end"),
                       ![c]["server"] = Append(SubSeq(@, 1, j), "end")]
    BY DEF Drop
  <1>2. wire \in [Calls -> [Sides -> Queue]] /\ "end" \in Msgs /\ "tss" \in Msgs
    BY DEF Types, Msgs
  <1> DEFINE cut == Append(SubSeq(wire[c]["client"], 1, i), "end")
             cut2 == Append(SubSeq(wire[c]["server"], 1, j), "end")
             mid == [wire EXCEPT ![c]["client"] = cut]
  <1>3. wire[c]["client"] \in Queue /\ wire[c]["server"] \in Queue
    BY <1>2, Two
  <1>4. /\ cut \in Queue /\ In("end", cut)
        /\ In("tss", cut) => In("tss", wire[c]["client"])
    <2>1. /\ SubSeq(wire[c]["client"], 1, i) \in Queue
          /\ In("tss", SubSeq(wire[c]["client"], 1, i)) => In("tss", wire[c]["client"])
      BY <1>2, <1>3, InCut
    <2>2. QED
      BY <1>2, <2>1, InAppend
  <1>5. /\ cut2 \in Queue
        /\ In("tss", cut2) => In("tss", wire[c]["server"])
    <2>1. /\ SubSeq(wire[c]["server"], 1, j) \in Queue
          /\ In("tss", SubSeq(wire[c]["server"], 1, j)) => In("tss", wire[c]["server"])
      BY <1>2, <1>3, InCut
    <2>2. QED
      BY <1>2, <2>1, InAppend
  <1>6. wire' = [mid EXCEPT ![c]["server"] = cut2]
    <2>1. mid[c]["server"] = wire[c]["server"]
      BY <1>2, Two
    <2>2. QED
      BY <1>1, <2>1
  <1> HIDE DEF cut, cut2
  <1>7. Put(Queue, wire, mid, c, "client", cut)
    BY ONLY <1>2, <1>4, Two, PutOne, c \in Calls
  <1>8. mid \in [Calls -> [Sides -> Queue]]
    BY ONLY <1>7 DEF Put, Upd
  <1>9. Put(Queue, mid, wire', c, "server", cut2)
    BY ONLY <1>5, <1>6, <1>8, Two, PutOne, c \in Calls
  <1> HIDE DEF mid
  <1>10. QED
    BY <1>4, <1>5, <1>7, <1>9, Two DEF Put, Upd, WireStep

\* What a step may assign: the goroutines of a side,
GoChange(c) ==
    /\ \/ receive' = receive
       \/ \E s \in Sides, x \in ReceiveStates : receive' = [receive EXCEPT ![c][s] = x]
    /\ \/ send' = send
       \/ \E s \in Sides, x \in SendStates : send' = [send EXCEPT ![c][s] = x]
    /\ \/ expired' = expired
       \/ \E s \in Sides : expired' = [expired EXCEPT ![c] = @ \cup {s}]
    /\ \/ errs' = errs
       \/ \E s \in Sides, g \in {"Receive", "Send"} : Report(c, s, g)

LEMMA GoChanges == ASSUME NEW c \in Calls, Step(c) PROVE GoChange(c)
  <1>1. CASE ClientSteps(c)
    BY <1>1, Two
       DEF ClientSteps, Authorize, SchemeRefused, NewClientSigner, ClientProcess,
       ClientReturn, Export, ExportReturn, GoChange, goVars, ReceiveStates,
       SendStates
  <1>2. CASE HandlerSteps(c)
    BY <1>2, Two
       DEF HandlerSteps, SignHandler, HandlerProcess, HandlerClose,
       HandlerDelete, ExportHandler, GoChange, goVars, ReceiveStates,
       SendStates
  <1>3. CASE Failures(c)
    BY <1>3, Two
       DEF Failures, IdentityRefused, TokenLost, Expire, SignHandlerFails,
       NewClientSignerFails, Drop, ExportHandlerFails, ExportPostFails,
       ReceiveTssFails, TssFails, GoChange, goVars, ReceiveStates, SendStates
  <1>4. CASE \E s \in Sides : ReceiveSteps(c, s) \/ SendSteps(c, s)
    BY <1>4, Two
       DEF ReceiveSteps, SendSteps, ReceiveTss, ReceiveEnds, ReceiveNext,
       Send, SendFails, SendStops, GoChange, goVars, ReceiveStates, SendStates
  <1>5. CASE \E s \in Sides : MakeLast(c, s) \/ TssDone(c, s) \/ Deadline(c, s)
    BY <1>5, Two
       DEF MakeLast, TssDone, Deadline, GoChange, goVars, ReceiveStates,
       SendStates
  <1>6. QED
    BY <1>1, <1>2, <1>3, <1>4, <1>5 DEF Step

\* ... the processes and their last messages,
TssChange(c) ==
    /\ \/ tss' = tss
       \/ \E s \in Sides, x \in TssStates : tss' = [tss EXCEPT ![c][s] = x]
    /\ \/ made' = made
       \/ \E s \in Sides : made' = [made EXCEPT ![c] = @ \cup {s}]
    /\ \/ sent' = sent
       \/ \E s \in Sides : sent' = [sent EXCEPT ![c] = @ \cup {s}]
    /\ \/ got' = got
       \/ \E s \in Sides : got' = [got EXCEPT ![c] = @ \cup {s}]

LEMMA TssChanges == ASSUME NEW c \in Calls, Step(c) PROVE TssChange(c)
  <1>1. CASE ClientSteps(c)
    BY <1>1, Two
       DEF ClientSteps, Authorize, SchemeRefused, NewClientSigner, ClientProcess,
       ClientReturn, Export, ExportReturn, TssChange, tssVars, TssStates
  <1>2. CASE HandlerSteps(c)
    BY <1>2, Two
       DEF HandlerSteps, SignHandler, HandlerProcess, HandlerClose,
       HandlerDelete, ExportHandler, TssChange, tssVars, TssStates
  <1>3. CASE Failures(c)
    BY <1>3, Two
       DEF Failures, IdentityRefused, TokenLost, Expire, SignHandlerFails,
       NewClientSignerFails, Drop, ExportHandlerFails, ExportPostFails,
       ReceiveTssFails, TssFails, TssChange, tssVars, TssStates
  <1>4. CASE \E s \in Sides : ReceiveSteps(c, s) \/ SendSteps(c, s)
    BY <1>4, Two
       DEF ReceiveSteps, SendSteps, ReceiveTss, ReceiveEnds, ReceiveNext,
       Send, SendFails, SendStops, TssChange, tssVars, TssStates
  <1>5. CASE \E s \in Sides : MakeLast(c, s) \/ TssDone(c, s) \/ Deadline(c, s)
    BY <1>5, Two
       DEF MakeLast, TssDone, Deadline, TssChange, tssVars, TssStates
  <1>6. QED
    BY <1>1, <1>2, <1>3, <1>4, <1>5 DEF Step

\* ... the client's goroutine, the handler, the connection and the caches.
MainChange(c) ==
    /\ \/ main' = main
       \/ \E x \in ClientStates : ClientGoes(c, x)
       \/ \E y \in HandlerStates : HandlerGoes(c, y)
       \/ \E x \in ClientStates, y \in HandlerStates :
             main' = [main EXCEPT ![c] = [client |-> x, server |-> y]]
    /\ \/ conn' = conn
       \/ \E x \in ConnStates : conn' = [conn EXCEPT ![c] = x]
    /\ \/ response' = response
       \/ \E x \in {"key", "text"} : response' = [response EXCEPT ![c] = x]
    /\ \/ tokens' = tokens
       \/ tokens' = tokens \cup {c}
       \/ tokens' = tokens \ {c}
    /\ \/ faults' = faults
       \/ Fault

LEMMA MainChanges == ASSUME NEW c \in Calls, Step(c) PROVE MainChange(c)
  <1>1. CASE ClientSteps(c)
    BY <1>1
       DEF ClientSteps, Authorize, SchemeRefused, NewClientSigner, ClientProcess,
       ClientReturn, Export, ExportReturn, MainChange, netVars, ClientStates,
       HandlerStates, ConnStates, Close
  <1>2. CASE HandlerSteps(c)
    BY <1>2
       DEF HandlerSteps, SignHandler, HandlerProcess, HandlerClose,
       HandlerDelete, ExportHandler, MainChange, netVars, ClientStates,
       HandlerStates, ConnStates, Close
  <1>3. CASE Failures(c)
    BY <1>3
       DEF Failures, IdentityRefused, TokenLost, Expire, SignHandlerFails,
       NewClientSignerFails, Drop, ExportHandlerFails, ExportPostFails,
       ReceiveTssFails, TssFails, MainChange, netVars, ClientStates,
       HandlerStates, ConnStates, Close
  <1>4. CASE \E s \in Sides : ReceiveSteps(c, s) \/ SendSteps(c, s)
    BY <1>4
       DEF ReceiveSteps, SendSteps, ReceiveTss, ReceiveEnds, ReceiveNext,
       Send, SendFails, SendStops, MainChange, netVars, ClientStates,
       HandlerStates, ConnStates, Close
  <1>5. CASE \E s \in Sides : MakeLast(c, s) \/ TssDone(c, s) \/ Deadline(c, s)
    BY <1>5
       DEF MakeLast, TssDone, Deadline, MainChange, netVars, ClientStates,
       HandlerStates, ConnStates, Close
  <1>6. QED
    BY <1>1, <1>2, <1>3, <1>4, <1>5 DEF Step

\* The wires: a step writes to, reads from or cuts those of its call.
LEMMA WireChanges ==
    ASSUME Types, NEW c \in Calls, Step(c)
    PROVE  Upd([Sides -> Queue], wire, wire', c)
  <1>1. CASE wire' = wire
    BY <1>1, UpdNone DEF Types
  <1>2. ASSUME NEW s \in Sides, Close(c, s)
        PROVE  Upd([Sides -> Queue], wire, wire', c)
    BY <1>2, CloseEffect DEF WireStep
  <1>3. ASSUME NEW s \in Sides, NEW m \in Msgs, Reads(c, s, m)
        PROVE  Upd([Sides -> Queue], wire, wire', c)
    BY <1>3, ReadsEffect DEF WireStep
  <1>4. CASE \E s \in Sides : Send(c, s)
    BY <1>4, SendEffect
  <1>5. CASE Drop(c)
    BY <1>5, DropEffect DEF WireStep
  <1>6. CASE ClientSteps(c)
    BY <1>1, <1>2, <1>6, Two
       DEF ClientSteps, Authorize, SchemeRefused, NewClientSigner, ClientProcess, ClientReturn,
       Export, ExportReturn, netVars
  <1>7. CASE HandlerSteps(c)
    BY <1>1, <1>2, <1>7, Two
       DEF HandlerSteps, SignHandler, HandlerProcess, HandlerClose, HandlerDelete,
       ExportHandler, netVars
  <1>8. CASE Failures(c)
    BY <1>1, <1>2, <1>3, <1>5, <1>8, Two
       DEF Failures, IdentityRefused, TokenLost, Expire, SignHandlerFails,
       NewClientSignerFails, ExportHandlerFails, ExportPostFails, ReceiveTssFails,
       TssFails, netVars, Msgs
  <1>9. CASE \E s \in Sides : ReceiveSteps(c, s) \/ SendSteps(c, s)
    BY <1>1, <1>2, <1>3, <1>4, <1>9
       DEF ReceiveSteps, ReceiveTss, ReceiveEnds, ReceiveNext, SendSteps, SendFails,
       SendStops, netVars, Msgs
  <1>10. CASE \E s \in Sides : MakeLast(c, s) \/ TssDone(c, s) \/ Deadline(c, s)
    BY <1>1, <1>2, <1>10 DEF MakeLast, TssDone, Deadline, netVars
  <1>11. QED
    BY <1>6, <1>7, <1>8, <1>9, <1>10 DEF Step

\* An error of the client stays in errs.
LEMMA ReportEffect ==
    ASSUME Types, NEW c \in Calls, NEW s \in Sides, NEW g \in {"Receive", "Send"},
           Report(c, s, g)
    PROVE  /\ Upd(SUBSET {"Receive", "Send"}, errs, errs', c)
           /\ errs[c] \subseteq errs'[c]
           /\ s = "client" => errs'[c] # {}
  <1>1. errs \in [Calls -> SUBSET {"Receive", "Send"}]
    BY DEF Types
  <1>2. CASE s = "client"
    <2>1. errs' = [errs EXCEPT ![c] = errs[c] \cup {g}]
      BY <1>2 DEF Report
    <2>2. errs[c] \cup {g} \in SUBSET {"Receive", "Send"}
      BY <1>1
    <2>3. Upd(SUBSET {"Receive", "Send"}, errs, errs', c) /\ errs'[c] = errs[c] \cup {g}
      BY ONLY <1>1, <2>1, <2>2, UpdOne, c \in Calls
    <2>4. QED
      BY <2>3
  <1>3. CASE s # "client"
    BY <1>1, <1>3, UpdNone DEF Report
  <1>4. QED
    BY <1>2, <1>3

\* A set of sides, and a value of one side, after a step.
LEMMA AddEffect ==
    ASSUME NEW f \in [Calls -> SUBSET Sides], NEW g, NEW c \in Calls,
           g = f \/ \E s \in Sides : g = [f EXCEPT ![c] = @ \cup {s}]
    PROVE  Upd(SUBSET Sides, f, g, c)
  <1>1. CASE g = f
    BY <1>1, UpdNone
  <1>2. ASSUME NEW s \in Sides, g = [f EXCEPT ![c] = @ \cup {s}]
        PROVE  Upd(SUBSET Sides, f, g, c)
    <2>1. f[c] \cup {s} \in SUBSET Sides /\ g = [f EXCEPT ![c] = f[c] \cup {s}]
      BY <1>2
    <2>2. QED
      BY ONLY <2>1, UpdOne, f \in [Calls -> SUBSET Sides], c \in Calls
  <1>3. QED
    BY <1>1, <1>2

LEMMA PutEffect ==
    ASSUME NEW V, NEW f \in [Calls -> [Sides -> V]], NEW g, NEW c \in Calls,
           g = f \/ \E s \in Sides, x \in V : g = [f EXCEPT ![c][s] = x]
    PROVE  Upd([Sides -> V], f, g, c)
  <1>1. CASE g = f
    BY <1>1, UpdNone
  <1>2. CASE \E s \in Sides, x \in V : g = [f EXCEPT ![c][s] = x]
    BY <1>2, PutOne DEF Put
  <1>3. QED
    BY <1>1, <1>2

\* A step of call c changes its own part of the state only, and keeps the types.
Frame(c) ==
    /\ Upd(Mains, main, main', c)
    /\ Upd([Sides -> ReceiveStates], receive, receive', c)
    /\ Upd([Sides -> SendStates], send, send', c)
    /\ Upd(SUBSET Sides, expired, expired', c)
    /\ Upd(SUBSET {"Receive", "Send"}, errs, errs', c)
    /\ Upd(ConnStates, conn, conn', c)
    /\ Upd([Sides -> Queue], wire, wire', c)
    /\ Upd([Sides -> TssStates], tss, tss', c)
    /\ Upd(SUBSET Sides, made, made', c)
    /\ Upd(SUBSET Sides, sent, sent', c)
    /\ Upd(SUBSET Sides, got, got', c)
    /\ Upd({"none", "key", "text"}, response, response', c)
    /\ tokens' \subseteq Calls
    /\ \A d \in Calls : d # c => (d \in tokens' <=> d \in tokens)
    /\ faults' \in 0..MaxFaults
    /\ faults' = 0 => faults = 0

LEMMA Framed ==
    ASSUME TypeOK, NEW c \in Calls, Step(c)
    PROVE  Frame(c)
  <1>1. Types /\ tokens \subseteq Calls /\ faults \in 0..MaxFaults
    BY TypeOKSplits
  <1>2. /\ Upd([Sides -> ReceiveStates], receive, receive', c)
        /\ Upd([Sides -> SendStates], send, send', c)
    BY <1>1, GoChanges, PutEffect DEF Types, GoChange
  <1>3. Upd(SUBSET Sides, expired, expired', c)
    BY <1>1, GoChanges, AddEffect DEF Types, GoChange
  <1>4. Upd(SUBSET {"Receive", "Send"}, errs, errs', c)
    <2>1. CASE errs' = errs
      BY <1>1, <2>1, UpdNone DEF Types
    <2>2. CASE \E s \in Sides, g \in {"Receive", "Send"} : Report(c, s, g)
      BY <1>1, <2>2, ReportEffect
    <2>3. QED
      BY <2>1, <2>2, GoChanges DEF GoChange
  <1>5. Upd([Sides -> TssStates], tss, tss', c)
    BY <1>1, TssChanges, PutEffect DEF Types, TssChange
  <1>6. /\ Upd(SUBSET Sides, made, made', c)
        /\ Upd(SUBSET Sides, sent, sent', c)
        /\ Upd(SUBSET Sides, got, got', c)
    BY <1>1, TssChanges, AddEffect DEF Types, TssChange
  <1>7. MainChange(c)
    BY MainChanges
  <1>8. Upd(Mains, main, main', c)
    BY <1>1, <1>7, MainEffect DEF MainChange, MainIs
  <1>9. Upd(ConnStates, conn, conn', c)
    <2>1. conn \in [Calls -> ConnStates]
      BY <1>1 DEF Types
    <2>2. \/ conn' = conn
          \/ \E x \in ConnStates : conn' = [conn EXCEPT ![c] = x]
      BY <1>7 DEF MainChange
    <2>3. QED
      BY ONLY <2>1, <2>2, UpdNone, UpdOne, c \in Calls
  <1>10. Upd({"none", "key", "text"}, response, response', c)
    <2>1. response \in [Calls -> {"none", "key", "text"}]
      BY <1>1 DEF Types
    <2>2. \/ response' = response
          \/ \E x \in {"none", "key", "text"} : response' = [response EXCEPT ![c] = x]
      BY <1>7 DEF MainChange
    <2>3. QED
      BY ONLY <2>1, <2>2, UpdNone, UpdOne, c \in Calls
  <1>11. /\ tokens' \subseteq Calls
         /\ \A d \in Calls : d # c => (d \in tokens' <=> d \in tokens)
    BY <1>1, <1>7 DEF MainChange
  <1>12. /\ faults' \in 0..MaxFaults
         /\ faults' = 0 => faults = 0
    BY <1>1, <1>7, RequestsAssumption DEF MainChange, Fault
  <1>13. Upd([Sides -> Queue], wire, wire', c)
    BY <1>1, WireChanges
  <1>14. QED
    BY <1>2, <1>3, <1>4, <1>5, <1>6, <1>8, <1>9, <1>10, <1>11, <1>12, <1>13 DEF Frame

\* A step that is framed keeps the types.
LEMMA TypeStep ==
    ASSUME TypeOK, NEW c \in Calls, Frame(c), UNCHANGED <<slow, devMode>>
    PROVE  TypeOK'
  <1>1. Types'
    BY DEF Frame, Upd, Types
  <1>2. slow' \subseteq Signs /\ devMode' \in BOOLEAN
    BY DEF TypeOK
  <1>3. QED
    BY <1>1, <1>2 DEF Frame, TypeOK, Types, Mains, ClientStates, HandlerStates,
       ReceiveStates, SendStates, ConnStates, TssStates, Queue, Msgs

\* The invariant of the other calls.
LEMMA OthersKeep ==
    ASSUME NEW c \in Calls, NEW d \in Calls, d # c, Frame(c), UNCHANGED devMode,
           CallInv(d)
    PROVE  CallInv(d)'
  <1>1. /\ main'[d] = main[d] /\ receive'[d] = receive[d] /\ expired'[d] = expired[d]
        /\ errs'[d] = errs[d] /\ conn'[d] = conn[d] /\ wire'[d] = wire[d]
        /\ tss'[d] = tss[d] /\ made'[d] = made[d] /\ sent'[d] = sent[d]
        /\ got'[d] = got[d] /\ response'[d] = response[d]
        /\ d \in tokens' <=> d \in tokens
        /\ faults' = 0 => faults = 0
    BY DEF Frame, Upd
  <1>2. ConnInv(d)' /\ EndInv(d)'
    BY <1>1 DEF CallInv, ConnInv, EndInv
  <1>3. ReadInv(d)'
    BY <1>1 DEF CallInv, ReadInv
  <1>4. LastInv(d)'
    BY <1>1 DEF CallInv, LastInv
  <1>5. CleanInv(d)' /\ ProdInv(d)'
    BY <1>1 DEF CallInv, CleanInv, ProdInv
  <1>6. QED
    BY <1>2, <1>3, <1>4, <1>5 DEF CallInv

-----------------------------------------------------------------------------
(* One lemma per part of the invariant, one case per action.               *)

\* The connection after a close, a dial or a loss.
LEMMA ConnOver ==
    ASSUME Types, NEW c \in Calls
    PROVE  /\ \A s \in Sides : Close(c, s) => conn'[c] = "over"
           /\ conn' = [conn EXCEPT ![c] = "open"] => conn'[c] = "open"
           /\ conn' = [conn EXCEPT ![c] = "over"] => conn'[c] = "over"
  BY DEF Types, Close

\* The moves of the client and of the handler, by name.
LEMMA Moves ==
    ASSUME Types, NEW c \in Calls
    PROVE  /\ \A x \in {"token", "dialled", "tss", "wait", "post", "ok", "err"} :
                 ClientGoes(c, x) =>
                     main'[c].client = x /\ main'[c].server = main[c].server
           /\ \A y \in {"sleep", "closed", "export", "done", "ret"} :
                 HandlerGoes(c, y) =>
                     main'[c].client = main[c].client /\ main'[c].server = y
           /\ main' = [main EXCEPT ![c] = [client |-> "dialled", server |-> "tss"]]
                 => main'[c].client = "dialled" /\ main'[c].server = "tss"
           /\ main' = [main EXCEPT ![c] = [client |-> "post", server |-> "export"]]
                 => main'[c].client = "post" /\ main'[c].server = "export"
  BY MainEffect DEF MainIs, ClientStates, HandlerStates

\* The connection.
LEMMA ConnStep ==
    ASSUME Types, NEW c \in Calls, ConnInv(c), Step(c)
    PROVE  ConnInv(c)'
  <1>1. CASE main' = main /\ conn' = conn
    BY <1>1 DEF ConnInv
  <1>2. CASE \/ Authorize(c) \/ SchemeRefused(c) \/ IdentityRefused(c)
            \/ TokenLost(c) \/ Expire(c)
    BY <1>2, Moves
       DEF ConnInv, Authorize, SchemeRefused, IdentityRefused, TokenLost, Expire, netVars
  <1>3. CASE NewClientSigner(c) \/ NewClientSignerFails(c)
    BY <1>3, Moves, ConnOver, Two
       DEF ConnInv, NewClientSigner, NewClientSignerFails, netVars
  <1>4. CASE ClientProcess(c) \/ ClientReturn(c)
    BY <1>4, Moves, ConnOver, Two DEF ConnInv, ClientProcess, ClientReturn, netVars
  <1>5. CASE Export(c) \/ ExportReturn(c) \/ ExportPostFails(c)
    BY <1>5, Moves, RequestsAssumption
       DEF ConnInv, Export, ExportReturn, ExportPostFails, netVars
  <1>6. CASE ExportHandler(c) \/ ExportHandlerFails(c)
    BY <1>6, Moves DEF ConnInv, ExportHandler, ExportHandlerFails, netVars
  <1>7. CASE SignHandler(c) \/ SignHandlerFails(c)
    BY <1>7, Moves, ConnOver DEF ConnInv, SignHandler, SignHandlerFails, netVars
  <1>8. CASE HandlerProcess(c) \/ HandlerClose(c) \/ HandlerDelete(c)
    BY <1>8, Moves, ConnOver, Two
       DEF ConnInv, HandlerProcess, HandlerClose, HandlerDelete, netVars
  <1>9. CASE Drop(c)
    BY <1>9, ConnOver DEF ConnInv, Drop
  <1>10. ASSUME NEW s \in Sides, SendFails(c, s)
         PROVE  ConnInv(c)'
    BY <1>10, ConnOver, Two DEF ConnInv, SendFails, Running
  <1>11. ASSUME NEW s \in Sides, Deadline(c, s)
         PROVE  ConnInv(c)'
    BY <1>1, <1>11, ConnOver, Two DEF ConnInv, Deadline, Running, netVars
  <1>12. CASE Failures(c)
    BY <1>1, <1>2, <1>3, <1>5, <1>6, <1>7, <1>9, <1>12
       DEF Failures, ReceiveTssFails, TssFails, netVars
  <1>13. CASE \E s \in Sides : ReceiveSteps(c, s) \/ SendSteps(c, s)
    BY <1>1, <1>10, <1>13
       DEF ReceiveSteps, ReceiveTss, ReceiveEnds, ReceiveNext, SendSteps, Send,
       SendStops, netVars
  <1>14. CASE \E s \in Sides : MakeLast(c, s) \/ TssDone(c, s) \/ Deadline(c, s)
    BY <1>1, <1>11, <1>14 DEF MakeLast, TssDone, netVars
  <1>15. CASE ClientSteps(c) \/ HandlerSteps(c)
    BY <1>2, <1>3, <1>4, <1>5, <1>6, <1>7, <1>8, <1>15 DEF ClientSteps, HandlerSteps
  <1>16. QED
    BY <1>12, <1>13, <1>14, <1>15 DEF Step

\* A client that has no connection, or that left an error, needs no end; and
\* nothing but its own Read takes the end from it.
LEMMA EndKeeps ==
    ASSUME NEW c \in Calls, EndInv(c),
           \/ main'[c].client \notin {"dialled", "tss", "wait"}
           \/ errs'[c] # {}
           \/ conn'[c] = "open"
           \/ In("end", wire'[c]["client"])
           \/ /\ main[c].client \in {"dialled", "tss", "wait"}
              /\ conn'[c] = conn[c] /\ EndKept(c) /\ errs'[c] = errs[c]
    PROVE  EndInv(c)'
  BY DEF EndInv, EndKept

\* The handler's side of the connection is closed, once or twice.
LEMMA ServerCloses ==
    ASSUME Types, NEW c \in Calls, ConnInv(c), EndInv(c), Close(c, "server"),
           main'[c].client = main[c].client, errs' = errs
    PROVE  EndInv(c)'
  <1>1. CASE main[c].client \notin {"dialled", "tss", "wait"}
    BY <1>1, EndKeeps
  <1>2. CASE conn[c] = "open"
    BY <1>2, CloseEffect, EndKeeps, Two
  <1>3. CASE main[c].client \in {"dialled", "tss", "wait"} /\ conn[c] # "open"
    <2>1. conn[c] = "over"
      BY <1>3 DEF ConnInv, Types, ConnStates
    <2>2. conn'[c] = "over" /\ EndKept(c)
      BY CloseEffect, Two
    <2>3. QED
      BY <1>3, <2>1, <2>2, EndKeeps
  <1>4. QED
    BY <1>1, <1>2, <1>3

\* The end of the connection.
LEMMA EndStep ==
    ASSUME Types, NEW c \in Calls, ConnInv(c), EndInv(c), Step(c)
    PROVE  EndInv(c)'
  <1>1. CASE UNCHANGED <<main, conn, wire, errs>>
    BY <1>1 DEF EndInv
  <1>2. CASE \/ Authorize(c) \/ SchemeRefused(c) \/ IdentityRefused(c)
            \/ TokenLost(c) \/ Expire(c)
    BY <1>1, <1>2, Moves, EndKeeps
       DEF Authorize, SchemeRefused, IdentityRefused, TokenLost, Expire, netVars, goVars
  <1>3. CASE NewClientSigner(c)
    BY <1>3, Moves, EndKeeps DEF NewClientSigner, EndKept, netVars
  <1>4. CASE ClientProcess(c)
    BY <1>4, Moves, EndKeeps DEF ClientProcess, EndKept, netVars, goVars
  <1>5. CASE NewClientSignerFails(c) \/ ClientReturn(c) \/ SignHandlerFails(c)
    BY <1>5, Moves, EndKeeps DEF NewClientSignerFails, ClientReturn, SignHandlerFails
  <1>6. CASE Export(c) \/ ExportReturn(c) \/ ExportPostFails(c)
    BY <1>6, Moves, EndKeeps DEF Export, ExportReturn, ExportPostFails
  <1>7. CASE ExportHandler(c) \/ ExportHandlerFails(c) \/ HandlerDelete(c)
    BY <1>7, Moves, EndKeeps
       DEF ExportHandler, ExportHandlerFails, HandlerDelete, EndKept, netVars, goVars
  <1>8. CASE SignHandler(c)
    BY <1>8, Moves, ConnOver, EndKeeps DEF SignHandler
  <1>9. CASE HandlerProcess(c) \/ HandlerClose(c)
    <2>1. CASE Close(c, "server")
      BY <1>9, <2>1, Moves, ServerCloses DEF HandlerProcess, HandlerClose, goVars
    <2>2. CASE UNCHANGED netVars
      BY <1>9, <2>2, Moves, EndKeeps
         DEF HandlerProcess, HandlerClose, EndKept, netVars, goVars
    <2>3. QED
      BY <1>9, <2>1, <2>2 DEF HandlerProcess, HandlerClose
  <1>10. CASE Drop(c)
    BY <1>10, DropEffect, EndKeeps
  <1>11. ASSUME NEW s \in Sides, ReceiveTss(c, s)
         PROVE  EndInv(c)'
    <2>1. EndKept(c)
      BY <1>11, ReadsEffect DEF ReceiveTss, Msgs
    <2>2. QED
      BY <1>11, <2>1 DEF ReceiveTss, EndInv, EndKept
  <1>12. ASSUME NEW s \in Sides, ReceiveEnds(c, s) \/ ReceiveTssFails(c, s)
         PROVE  EndInv(c)'
    <2>1. Report(c, s, "Receive") /\ main' = main /\ conn' = conn
      BY <1>12 DEF ReceiveEnds, ReceiveTssFails
    <2>2. CASE s = "client"
      BY <2>1, <2>2, ReportEffect, EndKeeps
    <2>3. CASE s = "server"
      <3>1. EndKept(c)
        BY <1>12, <2>3, ReadsEffect DEF ReceiveEnds, ReceiveTssFails, Msgs
      <3>2. errs' = errs
        BY <2>1, <2>3 DEF Report
      <3>3. QED
        BY <2>1, <3>1, <3>2 DEF EndInv, EndKept
    <2>4. QED
      BY <2>2, <2>3, Two
  <1>13. ASSUME NEW s \in Sides, Close(c, s), main' = main,
                \E g \in {"Receive", "Send"} : Report(c, s, g)
         PROVE  EndInv(c)'
    <2>1. CASE s = "client"
      BY <1>13, <2>1, ReportEffect, EndKeeps
    <2>2. CASE s = "server"
      BY <1>13, <2>2, ServerCloses DEF Report
    <2>3. QED
      BY <2>1, <2>2, Two
  <1>14. ASSUME NEW s \in Sides, Send(c, s)
         PROVE  EndInv(c)'
    BY <1>14, SendEffect DEF Send, EndInv, EndKept, goVars
  <1>15. ASSUME NEW s \in Sides, Deadline(c, s)
         PROVE  EndInv(c)'
    BY <1>1, <1>13, <1>15 DEF Deadline, netVars
  <1>16. CASE Failures(c)
    BY <1>1, <1>2, <1>5, <1>6, <1>7, <1>10, <1>12, <1>16
       DEF Failures, TssFails, netVars, goVars
  <1>17. CASE \E s \in Sides : ReceiveSteps(c, s) \/ SendSteps(c, s)
    BY <1>1, <1>11, <1>12, <1>13, <1>14, <1>17
       DEF ReceiveSteps, ReceiveNext, SendSteps, SendFails, SendStops, netVars
  <1>18. CASE \E s \in Sides : MakeLast(c, s) \/ TssDone(c, s) \/ Deadline(c, s)
    BY <1>1, <1>15, <1>18 DEF MakeLast, TssDone, netVars, goVars
  <1>19. CASE ClientSteps(c) \/ HandlerSteps(c)
    BY <1>2, <1>3, <1>4, <1>5, <1>6, <1>7, <1>8, <1>9, <1>19
       DEF ClientSteps, HandlerSteps
  <1>20. QED
    BY <1>16, <1>17, <1>18, <1>19 DEF Step

\* Receive of one side changes nothing of the other's.
LEMMA ReceiveAt ==
    ASSUME Types, NEW c \in Calls, NEW s \in Sides, NEW x \in ReceiveStates,
           receive' = [receive EXCEPT ![c][s] = x]
    PROVE  receive'[c]["client"] = IF s = "client" THEN x ELSE receive[c]["client"]
  <1>1. receive \in [Calls -> [Sides -> ReceiveStates]]
    BY DEF Types
  <1>2. Put(ReceiveStates, receive, receive', c, s, x)
    BY ONLY <1>1, PutOne, c \in Calls, s \in Sides, x \in ReceiveStates,
       receive' = [receive EXCEPT ![c][s] = x]
  <1>3. QED
    BY <1>2, Two DEF Put

\* A set of sides that grows by one of them.
LEMMA AddAt ==
    ASSUME NEW f \in [Calls -> SUBSET Sides], NEW g, NEW c \in Calls, NEW s,
           g = [f EXCEPT ![c] = @ \cup {s}]
    PROVE  g[c] = f[c] \cup {s}
  OBVIOUS

\* Steps of the handler, and steps that end the client.
LEMMA ReadKeeps ==
    ASSUME NEW c \in Calls, ReadInv(c),
           \/ main'[c].client \in {"post", "ok", "err"}
           \/ /\ main'[c].client = main[c].client
              /\ receive'[c]["client"] = receive[c]["client"]
              /\ "client" \in got'[c] <=> "client" \in got[c]
              /\ "client" \in expired'[c] <=> "client" \in expired[c]
              /\ errs[c] # {} => errs'[c] # {}
    PROVE  ReadInv(c)'
  BY DEF ReadInv

\* Receive of the client and its context.
LEMMA ReadStep ==
    ASSUME Types, NEW c \in Calls, ReadInv(c), Step(c)
    PROVE  ReadInv(c)'
  <1>1. CASE UNCHANGED <<main, receive, got, expired, errs>>
    BY <1>1 DEF ReadInv
  <1>2. CASE \/ Authorize(c) \/ SchemeRefused(c) \/ IdentityRefused(c)
            \/ TokenLost(c) \/ Expire(c)
    BY <1>2, Moves
       DEF Authorize, SchemeRefused, IdentityRefused, TokenLost, Expire, ReadInv, goVars, tssVars
  <1>3. CASE NewClientSigner(c)
    <2>1. receive'[c]["client"] = "top"
      BY <1>3, ReceiveAt, Two DEF NewClientSigner, ReceiveStates
    <2>2. QED
      BY <1>3, <2>1, Moves DEF NewClientSigner, ReadInv
  <1>4. CASE ClientProcess(c)
    BY <1>4, Moves DEF ClientProcess, ReadInv, goVars, tssVars
  <1>5. CASE NewClientSignerFails(c) \/ ClientReturn(c) \/ SignHandlerFails(c)
    BY <1>5, Moves, ReadKeeps DEF NewClientSignerFails, ClientReturn, SignHandlerFails
  <1>6. CASE Export(c) \/ ExportReturn(c) \/ ExportPostFails(c)
    BY <1>6, Moves, ReadKeeps DEF Export, ExportReturn, ExportPostFails
  <1>7. CASE ExportHandler(c) \/ ExportHandlerFails(c) \/ HandlerDelete(c)
    BY <1>7, Moves, ReadKeeps
       DEF ExportHandler, ExportHandlerFails, HandlerDelete, goVars, tssVars
  <1>8. CASE HandlerProcess(c) \/ HandlerClose(c)
    BY <1>8, Moves, ReadKeeps DEF HandlerProcess, HandlerClose, goVars, tssVars
  <1>9. CASE SignHandler(c)
    <2>1. receive' = receive \/ receive' = [receive EXCEPT ![c]["server"] = "top"]
      BY <1>9 DEF SignHandler
    <2>2. receive'[c]["client"] = receive[c]["client"]
      BY <2>1, ReceiveAt, Two DEF ReceiveStates
    <2>3. main'[c].client = "dialled" \/ main'[c].client = "err"
      BY <1>9, Moves DEF SignHandler
    <2>4. QED
      BY <1>9, <2>2, <2>3 DEF SignHandler, ReadInv
  <1>10. ASSUME NEW s \in Sides, ReceiveTss(c, s)
         PROVE  ReadInv(c)'
    <2>1. receive'[c]["client"] = IF s = "client" THEN "top" ELSE receive[c]["client"]
      BY <1>10, ReceiveAt DEF ReceiveTss, ReceiveStates
    <2>2. got'[c] = got[c] \cup {s}
      BY <1>10, AddAt DEF ReceiveTss, Types
    <2>3. CASE s = "client"
      BY <1>10, <2>1, <2>2, <2>3 DEF ReceiveTss, Reads, Running, ReadInv
    <2>4. CASE s = "server"
      BY <1>10, <2>1, <2>2, <2>4, ReadKeeps DEF ReceiveTss
    <2>5. QED
      BY <2>3, <2>4, Two
  <1>11. ASSUME NEW s \in Sides, Running(c, s), UNCHANGED <<main, got>>,
                receive' = [receive EXCEPT ![c][s] = "ret"], Report(c, s, "Receive"),
                s = "client" \/ expired'[c] \ {"server"} = expired[c] \ {"server"}
         PROVE  ReadInv(c)'
    <2>1. receive'[c]["client"] = IF s = "client" THEN "ret" ELSE receive[c]["client"]
      BY <1>11, ReceiveAt DEF ReceiveStates
    <2>2. CASE s = "client"
      BY <1>11, <2>1, <2>2, ReportEffect DEF Running, ReadInv
    <2>3. CASE s = "server"
      <3>1. errs' = errs
        BY <1>11, <2>3 DEF Report
      <3>2. "client" \in expired'[c] <=> "client" \in expired[c]
        BY <1>11, <2>3
      <3>3. QED
        BY <1>11, <2>1, <2>3, <3>1, <3>2, ReadKeeps
    <2>4. QED
      BY <2>2, <2>3, Two
  <1>12. ASSUME NEW s \in Sides, ReceiveEnds(c, s) \/ ReceiveTssFails(c, s)
         PROVE  ReadInv(c)'
    BY <1>11, <1>12 DEF ReceiveEnds, ReceiveTssFails, Reads, tssVars
  <1>13. ASSUME NEW s \in Sides, ReceiveNext(c, s)
         PROVE  ReadInv(c)'
    <2>1. receive'[c]["client"] =
              IF s = "client" THEN IF s \in expired[c] THEN "ret" ELSE "read"
                              ELSE receive[c]["client"]
      <3> DEFINE next == IF s \in expired[c] THEN "ret" ELSE "read"
      <3>1. next \in ReceiveStates
        BY DEF ReceiveStates
      <3>2. receive' = [receive EXCEPT ![c][s] = next]
        BY <1>13 DEF ReceiveNext
      <3> HIDE DEF next
      <3>3. receive'[c]["client"] = IF s = "client" THEN next ELSE receive[c]["client"]
        BY <3>1, <3>2, ReceiveAt
      <3>4. QED
        BY <3>3 DEF next
    <2>2. CASE s = "client"
      BY <1>13, <2>1, <2>2 DEF ReceiveNext, Running, ReadInv, tssVars
    <2>3. CASE s = "server"
      BY <1>13, <2>1, <2>3, ReadKeeps DEF ReceiveNext, tssVars
    <2>4. QED
      BY <2>2, <2>3, Two
  <1>14. ASSUME NEW s \in Sides, Deadline(c, s)
         PROVE  ReadInv(c)'
    <2>1. expired'[c] = expired[c] \cup {s} /\ UNCHANGED <<main, got>>
      BY <1>14, AddAt DEF Deadline, Types, tssVars
    <2>2. CASE receive[c][s] = "read"
      <3>1. /\ receive' = [receive EXCEPT ![c][s] = "ret"]
            /\ Report(c, s, "Receive")
        BY <1>14, <2>2 DEF Deadline
      <3>2. CASE Running(c, s)
        BY <1>11, <2>1, <3>1, <3>2, Two
      <3>3. CASE s = "client" /\ main[c].client = "dialled"
        BY <2>2, <3>3 DEF ReadInv
      <3>4. QED
        BY <1>14, <3>2, <3>3 DEF Deadline
    <2>3. CASE receive[c][s] # "read"
      <3>1. UNCHANGED <<receive, errs>> /\ (Prompt => receive[c][s] # "top")
        BY <1>14, <2>3 DEF Deadline
      <3>2. CASE s = "client"
        BY <2>1, <2>3, <3>1, <3>2 DEF ReadInv
      <3>3. CASE s = "server"
        BY <2>1, <3>1, <3>3, ReadKeeps
      <3>4. QED
        BY <3>2, <3>3, Two
    <2>4. QED
      BY <2>2, <2>3
  <1>15. ASSUME NEW s \in Sides, SendFails(c, s)
         PROVE  ReadInv(c)'
    BY <1>15, ReportEffect, ReadKeeps DEF SendFails, tssVars
  <1>16. CASE Failures(c)
    BY <1>1, <1>2, <1>5, <1>6, <1>7, <1>12, <1>16
       DEF Failures, Drop, TssFails, goVars, tssVars
  <1>17. CASE \E s \in Sides : ReceiveSteps(c, s) \/ SendSteps(c, s)
    BY <1>1, <1>10, <1>12, <1>13, <1>15, <1>17
       DEF ReceiveSteps, SendSteps, Send, SendStops, goVars, tssVars
  <1>18. CASE \E s \in Sides : MakeLast(c, s) \/ TssDone(c, s) \/ Deadline(c, s)
    BY <1>1, <1>14, <1>18 DEF MakeLast, TssDone, goVars
  <1>19. CASE ClientSteps(c) \/ HandlerSteps(c)
    BY <1>2, <1>3, <1>4, <1>5, <1>6, <1>7, <1>8, <1>9, <1>19
       DEF ClientSteps, HandlerSteps
  <1>20. QED
    BY <1>16, <1>17, <1>18, <1>19 DEF Step

\* The process of one side changes nothing of the other's.
LEMMA TssAt ==
    ASSUME Types, NEW c \in Calls, NEW s \in Sides, NEW x \in TssStates,
           tss' = [tss EXCEPT ![c][s] = x]
    PROVE  tss'[c][s] = x /\ \A t \in Sides : t # s => tss'[c][t] = tss[c][t]
  <1>1. tss \in [Calls -> [Sides -> TssStates]]
    BY DEF Types
  <1>2. Put(TssStates, tss, tss', c, s, x)
    BY ONLY <1>1, PutOne, c \in Calls, s \in Sides, x \in TssStates,
       tss' = [tss EXCEPT ![c][s] = x]
  <1>3. QED
    BY <1>2, Two DEF Put

\* No last message is written, and the client gets no further.
LEMMA LastKeeps ==
    ASSUME NEW c \in Calls, LastInv(c),
           UNCHANGED <<made, sent, got>>,
           \A s \in Sides : In("tss", wire'[c][s]) => In("tss", wire[c][s]),
           \A s \in Sides : tss'[c][s] = "done" <=> tss[c][s] = "done",
           \/ main'[c].client = main[c].client
           \/ main'[c].client \notin {"wait", "ok"}
           \/ c \notin Signs
           \/ tss'[c]["client"] = "done"
    PROVE  LastInv(c)'
  <1>1. \A s \in Sides :
          /\ In("tss", wire'[c][s]) \/ s \in got'[c] => Other(s) \in sent'[c]
          /\ s \in sent'[c] => s \in made'[c]
          /\ tss'[c][s] = "done" => s \in made'[c] \cap got'[c]
    BY DEF LastInv
  <1>2. c \in Signs /\ main'[c].client \in {"wait", "ok"} => tss'[c]["client"] = "done"
    BY Two DEF LastInv
  <1>3. QED
    BY <1>1, <1>2 DEF LastInv

\* The last messages of the processes.
LEMMA LastStep ==
    ASSUME Types, NEW c \in Calls, ConnInv(c), LastInv(c), Step(c)
    PROVE  LastInv(c)'
  <1>1. CASE UNCHANGED <<main, wire, tss, made, sent, got>>
    BY <1>1, LastKeeps
  <1>2. CASE \/ Authorize(c) \/ SchemeRefused(c) \/ IdentityRefused(c)
            \/ TokenLost(c) \/ Expire(c)
    BY <1>2, Moves, LastKeeps
       DEF Authorize, SchemeRefused, IdentityRefused, TokenLost, Expire, netVars, tssVars
  <1>3. CASE SignHandlerFails(c) \/ Export(c) \/ ExportPostFails(c)
    <2>1. main'[c].client \notin {"wait", "ok"} /\ wire' = wire /\ UNCHANGED tssVars
      BY <1>3, Moves DEF SignHandlerFails, Export, ExportPostFails, netVars
    <2>2. QED
      BY <2>1, LastKeeps DEF tssVars
  <1>4. CASE ExportReturn(c)
    <2>1. c \notin Signs
      BY <1>4 DEF ExportReturn, ConnInv
    <2>2. QED
      BY <1>4, <2>1, LastKeeps DEF ExportReturn, netVars, tssVars
  <1>5. CASE ExportHandler(c) \/ ExportHandlerFails(c) \/ HandlerDelete(c)
    <2>1. main'[c].client = main[c].client /\ wire' = wire /\ UNCHANGED tssVars
      BY <1>5, Moves DEF ExportHandler, ExportHandlerFails, HandlerDelete, netVars
    <2>2. QED
      BY <2>1, LastKeeps DEF tssVars
  <1>6. ASSUME NEW s \in Sides, Close(c, s) \/ UNCHANGED netVars
        PROVE  \A t \in Sides : In("tss", wire'[c][t]) => In("tss", wire[c][t])
    BY <1>6, CloseEffect DEF WireStep, netVars
  <1>7. CASE NewClientSignerFails(c)
    <2>1. main'[c].client = "err" /\ Close(c, "client") /\ UNCHANGED tssVars
      BY <1>7, Moves DEF NewClientSignerFails
    <2>2. QED
      BY <1>6, <2>1, LastKeeps, Two DEF tssVars
  <1>8. CASE ClientProcess(c)
    <2>1. /\ main'[c].client = "err" \/ tss'[c]["client"] = "done"
          /\ Close(c, "client") \/ UNCHANGED netVars
          /\ UNCHANGED tssVars
      BY <1>8, Moves DEF ClientProcess, tssVars
    <2>2. QED
      BY <1>6, <2>1, LastKeeps, Two DEF tssVars
  <1>9. CASE ClientReturn(c)
    <2>1. main[c].client = "wait" /\ Close(c, "client") /\ UNCHANGED tssVars
      BY <1>9 DEF ClientReturn
    <2>2. c \notin Signs \/ tss'[c]["client"] = "done"
      BY <2>1 DEF LastInv, tssVars
    <2>3. QED
      BY <1>6, <2>1, <2>2, LastKeeps, Two DEF tssVars
  <1>10. CASE HandlerProcess(c) \/ HandlerClose(c)
    <2>1. /\ main'[c].client = main[c].client
          /\ Close(c, "server") \/ UNCHANGED netVars
          /\ UNCHANGED tssVars
      BY <1>10, Moves DEF HandlerProcess, HandlerClose
    <2>2. QED
      BY <1>6, <2>1, LastKeeps, Two DEF tssVars
  <1>11. CASE Drop(c)
    BY <1>11, DropEffect, LastKeeps DEF Drop, WireStep, tssVars
  <1>12. ASSUME NEW s \in Sides, tss' = [tss EXCEPT ![c][s] = "run"],
                UNCHANGED <<wire, made, sent, got>>,
                main'[c].client \notin {"wait", "ok"}
         PROVE  LastInv(c)'
    <2>1. \A t \in Sides : tss'[c][t] = "done" => tss[c][t] = "done"
      BY <1>12, TssAt DEF TssStates
    <2>2. QED
      BY <1>12, <2>1 DEF LastInv
  <1>13. CASE SignHandler(c)
    <2>1. CASE Authenticated(c)
      BY <1>12, <1>13, <2>1, Moves, Two DEF SignHandler
    <2>2. CASE ~Authenticated(c)
      BY <1>13, <2>2, Moves, LastKeeps DEF SignHandler
    <2>3. QED
      BY <2>1, <2>2
  <1>14. CASE NewClientSigner(c)
    BY <1>12, <1>14, Moves, Two DEF NewClientSigner, netVars
  <1>15. ASSUME NEW s \in Sides, ReceiveTss(c, s)
         PROVE  LastInv(c)'
    <2>1. WireStep(c) /\ In("tss", wire[c][s])
      BY <1>15, ReadsEffect DEF ReceiveTss, Msgs
    <2>2. got'[c] = got[c] \cup {s}
      BY <1>15, AddAt DEF ReceiveTss, Types
    <2>3. QED
      BY <1>15, <2>1, <2>2 DEF ReceiveTss, LastInv, WireStep
  <1>16. ASSUME NEW s \in Sides, ReceiveEnds(c, s) \/ ReceiveTssFails(c, s)
         PROVE  LastInv(c)'
    <2>1. WireStep(c)
      BY <1>16, ReadsEffect DEF ReceiveEnds, ReceiveTssFails, Msgs
    <2>2. QED
      BY <1>16, <2>1, LastKeeps DEF ReceiveEnds, ReceiveTssFails, WireStep, tssVars
  <1>17. ASSUME NEW s \in Sides, SendFails(c, s) \/ Deadline(c, s)
         PROVE  LastInv(c)'
    <2>1. Close(c, s) \/ UNCHANGED netVars
      BY <1>17 DEF SendFails, Deadline, netVars
    <2>2. QED
      BY <1>6, <1>17, <2>1, LastKeeps DEF SendFails, Deadline, tssVars
  <1>18. ASSUME NEW s \in Sides, Send(c, s)
         PROVE  LastInv(c)'
    <2>1. sent'[c] = sent[c] \cup {s} /\ s \in made[c]
      BY <1>18, AddAt DEF Send, Types
    <2>2. \A t \in Sides : t = s \/ t = Other(s)
      BY Two
    <2>3. \A t \in Sides : In("tss", wire'[c][t]) => Other(t) \in sent'[c]
      <3>1. wire'[c][s] = wire[c][s]
        BY <1>18, SendEffect
      <3>2. Other(Other(s)) = s
        BY Two
      <3>3. QED
        BY <2>1, <2>2, <3>1, <3>2 DEF LastInv
    <2>4. QED
      BY <1>18, <2>1, <2>3 DEF Send, LastInv
  <1>19. ASSUME NEW s \in Sides, MakeLast(c, s)
         PROVE  LastInv(c)'
    <2>1. made'[c] = made[c] \cup {s}
      BY <1>19, AddAt DEF MakeLast, Types
    <2>2. QED
      BY <1>19, <2>1 DEF MakeLast, LastInv, netVars
  <1>20. ASSUME NEW s \in Sides, TssDone(c, s)
         PROVE  LastInv(c)'
    <2>1. tss'[c][s] = "done" /\ \A t \in Sides : t # s => tss'[c][t] = tss[c][t]
      <3>1. tss' = [tss EXCEPT ![c][s] = "done"] /\ "done" \in TssStates
        BY <1>20 DEF TssDone, TssStates
      <3>2. QED
        BY ONLY Types, c \in Calls, s \in Sides, <3>1, TssAt
    <2>2. QED
      BY <1>20, <2>1, Two DEF TssDone, LastInv, netVars
  <1>21. ASSUME NEW s \in Sides, TssFails(c, s)
         PROVE  LastInv(c)'
    <2>1. tss'[c][s] = "failed" /\ \A t \in Sides : t # s => tss'[c][t] = tss[c][t]
      <3>1. tss' = [tss EXCEPT ![c][s] = "failed"] /\ "failed" \in TssStates
        BY <1>21 DEF TssFails, TssStates
      <3>2. QED
        BY ONLY Types, c \in Calls, s \in Sides, <3>1, TssAt
    <2>2. \A t \in Sides : tss'[c][t] = "done" <=> tss[c][t] = "done"
      BY <1>21, <2>1 DEF TssFails
    <2>3. QED
      BY <1>21, <2>2, LastKeeps DEF TssFails, netVars
  <1>22. CASE Failures(c)
    BY <1>2, <1>3, <1>5, <1>7, <1>11, <1>16, <1>21, <1>22 DEF Failures
  <1>23. CASE \E s \in Sides : ReceiveSteps(c, s) \/ SendSteps(c, s)
    BY <1>1, <1>15, <1>16, <1>17, <1>18, <1>23
       DEF ReceiveSteps, SendSteps, ReceiveNext, SendStops, netVars, tssVars
  <1>24. CASE \E s \in Sides : MakeLast(c, s) \/ TssDone(c, s) \/ Deadline(c, s)
    BY <1>17, <1>19, <1>20, <1>24
  <1>25. CASE ClientSteps(c) \/ HandlerSteps(c)
    BY <1>2, <1>3, <1>4, <1>5, <1>8, <1>9, <1>10, <1>13, <1>14, <1>25
       DEF ClientSteps, HandlerSteps
  <1>26. QED
    BY <1>22, <1>23, <1>24, <1>25 DEF Step

\* The steps of a behaviour without a failure.
LEMMA CleanStep ==
    ASSUME TypeOK, NEW c \in Calls, ConnInv(c), CleanInv(c), Step(c), UNCHANGED devMode
    PROVE  CleanInv(c)'
  <1>0. Types /\ faults \in Nat
    BY TypeOKSplits, RequestsAssumption
  <1>1. CASE UNCHANGED <<main, tss, response, tokens, faults>>
    BY <1>1 DEF CleanInv
  <1>2. ASSUME Fault
        PROVE  CleanInv(c)'
    BY <1>0, <1>2 DEF Fault, CleanInv
  <1>3. CASE Authorize(c) \/ SchemeRefused(c)
    BY <1>0, <1>3, Moves DEF Authorize, SchemeRefused, SchemeAccepted, CleanInv, tssVars
  <1>4. CASE SignHandler(c)
    <2>1. CASE Authenticated(c)
      <3>1. main'[c].client = "dialled" /\ main'[c].server = "tss"
        BY <1>0, <1>4, <2>1, Moves DEF SignHandler
      <3>2. \A t \in Sides : tss'[c][t] = "failed" => tss[c][t] = "failed"
        BY <1>0, <1>4, <2>1, TssAt, Two DEF SignHandler, TssStates
      <3>3. QED
        BY <1>4, <3>1, <3>2 DEF SignHandler, CleanInv
    <2>2. CASE ~Authenticated(c)
      BY <1>4, <2>2 DEF SignHandler, Authenticated, SchemeAccepted, CleanInv
    <2>3. QED
      BY <2>1, <2>2
  <1>5. CASE NewClientSigner(c)
    <2>1. \A t \in Sides : tss'[c][t] = "failed" => tss[c][t] = "failed"
      BY <1>0, <1>5, TssAt, Two DEF NewClientSigner, TssStates
    <2>2. main'[c].client = "tss" /\ main'[c].server = main[c].server
      BY <1>0, <1>5, Moves DEF NewClientSigner
    <2>3. QED
      BY <1>5, <2>1, <2>2 DEF NewClientSigner, CleanInv
  <1>6. CASE ClientProcess(c)
    BY <1>0, <1>6, Moves, Two DEF ClientProcess, CleanInv, tssVars
  <1>7. CASE ClientReturn(c)
    <2>1. c \notin Exports
      BY <1>7, RequestsAssumption DEF ClientReturn, ConnInv
    <2>2. QED
      BY <1>0, <1>7, <2>1, Moves DEF ClientReturn, CleanInv, tssVars
  <1>8. CASE HandlerProcess(c)
    BY <1>0, <1>8, Moves, Two DEF HandlerProcess, CleanInv, tssVars
  <1>9. CASE HandlerClose(c)
    BY <1>0, <1>9, Moves DEF HandlerClose, CleanInv, tssVars
  <1>10. CASE HandlerDelete(c)
    BY <1>0, <1>10, Moves DEF HandlerDelete, CleanInv, ConnInv, tssVars
  <1>11. CASE Export(c)
    BY <1>0, <1>11, Moves DEF Export, Authenticated, SchemeAccepted, CleanInv, tssVars
  <1>12. CASE ExportHandler(c)
    <2>1. response'[c] = "key"
      BY <1>0, <1>12 DEF ExportHandler, Types
    <2>2. QED
      BY <1>0, <1>12, <2>1, Moves DEF ExportHandler, CleanInv, ConnInv, tssVars
  <1>13. CASE ExportReturn(c)
    <2>1. response[c] \in {"none", "key", "text"}
      BY <1>0 DEF Types
    <2>2. QED
      BY <1>0, <1>13, <2>1, Moves DEF ExportReturn, CleanInv, tssVars
  <1>14. ASSUME NEW s \in Sides, TssDone(c, s)
         PROVE  CleanInv(c)'
    <2>1. \A t \in Sides : tss'[c][t] = "failed" => tss[c][t] = "failed"
      BY <1>0, <1>14, TssAt, Two DEF TssDone, TssStates
    <2>2. QED
      BY <1>14, <2>1 DEF TssDone, CleanInv
  <1>15. CASE Failures(c)
    BY <1>2, <1>15
       DEF Failures, IdentityRefused, TokenLost, Expire, SignHandlerFails,
       NewClientSignerFails, Drop, ExportHandlerFails, ExportPostFails,
       ReceiveTssFails, TssFails
  <1>16. CASE \E s \in Sides : ReceiveSteps(c, s) \/ SendSteps(c, s)
    BY <1>1, <1>16
       DEF ReceiveSteps, ReceiveTss, ReceiveEnds, ReceiveNext, SendSteps, Send,
       SendFails, SendStops, tssVars
  <1>17. CASE \E s \in Sides : MakeLast(c, s) \/ TssDone(c, s) \/ Deadline(c, s)
    BY <1>1, <1>14, <1>17 DEF MakeLast, Deadline, tssVars
  <1>18. CASE ClientSteps(c) \/ HandlerSteps(c)
    BY <1>3, <1>4, <1>5, <1>6, <1>7, <1>8, <1>9, <1>10, <1>11, <1>12, <1>13, <1>18
       DEF ClientSteps, HandlerSteps
  <1>19. QED
    BY <1>15, <1>16, <1>17, <1>18 DEF Step

\* The only step of a call outside dev mode is that it is refused.
LEMMA ProdStep ==
    ASSUME TypeOK, NEW c \in Calls, ConnInv(c), ProdInv(c), Step(c), UNCHANGED devMode
    PROVE  ProdInv(c)'
  <1> SUFFICES ASSUME ~devMode
               PROVE  /\ main'[c].client \in {"idle", "err"}
                      /\ main'[c].server = "none"
                      /\ c \notin tokens'
    BY DEF ProdInv
  <1>1. /\ Types
        /\ main[c].client \in {"idle", "err"}
        /\ main[c].server = "none"
        /\ c \notin tokens
        /\ conn[c] # "open"
    BY TypeOKSplits DEF ProdInv, ConnInv
  <1>2. CASE UNCHANGED <<main, tokens>>
    BY <1>1, <1>2
  <1>3. ~SchemeAccepted("https")
    BY DEF SchemeAccepted, UrlScheme
  <1>4. CASE ClientSteps(c)
    BY <1>1, <1>3, <1>4, Moves
       DEF ClientSteps, Authorize, SchemeRefused, NewClientSigner, ClientProcess,
       ClientReturn, Export, ExportReturn
  <1>5. CASE HandlerSteps(c)
    BY <1>1, <1>5
       DEF HandlerSteps, SignHandler, HandlerProcess, HandlerClose, HandlerDelete,
       ExportHandler
  <1>6. CASE Failures(c)
    BY <1>1, <1>2, <1>3, <1>6
       DEF Failures, IdentityRefused, TokenLost, Expire, SignHandlerFails,
       NewClientSignerFails, Drop, ExportHandlerFails, ExportPostFails,
       ReceiveTssFails, TssFails
  <1>7. CASE \E s \in Sides : ReceiveSteps(c, s) \/ SendSteps(c, s)
    BY <1>2, <1>7
       DEF ReceiveSteps, ReceiveTss, ReceiveEnds, ReceiveNext, SendSteps, Send,
       SendFails, SendStops
  <1>8. CASE \E s \in Sides : MakeLast(c, s) \/ TssDone(c, s) \/ Deadline(c, s)
    BY <1>2, <1>8 DEF MakeLast, TssDone, Deadline
  <1>9. QED
    BY <1>4, <1>5, <1>6, <1>7, <1>8 DEF Step

-----------------------------------------------------------------------------
(* The theorems.                                                           *)

\* The invariant holds at first and every step keeps it.
LEMMA Initial == Init => IInv
  <1> SUFFICES ASSUME Init PROVE IInv
    OBVIOUS
  <1>1. TypeOK
    BY RequestsAssumption DEF Init, TypeOK
  <1>2. ASSUME NEW c \in Calls
        PROVE  CallInv(c)
    <2>1. ConnInv(c) /\ EndInv(c) /\ ReadInv(c)
      BY Two DEF Init, ConnInv, EndInv, ReadInv
    <2>2. LastInv(c) /\ CleanInv(c) /\ ProdInv(c)
      BY Two DEF Init, LastInv, CleanInv, ProdInv, In
    <2>3. QED
      BY <2>1, <2>2 DEF CallInv
  <1>3. QED
    BY <1>1, <1>2 DEF IInv

LEMMA Inductive == IInv /\ [Next]_vars => IInv'
  <1> SUFFICES ASSUME IInv, [Next]_vars PROVE IInv'
    OBVIOUS
  <1>1. CASE Next
    <2>1. PICK c \in Calls : Step(c)
      BY <1>1 DEF Next, Step
    <2>2. TypeOK /\ Types /\ CallInv(c) /\ UNCHANGED <<slow, devMode>>
      BY <1>1, TypeOKSplits DEF IInv, Next
    <2>3. Frame(c)
      BY <2>1, <2>2, Framed
    <2>4. TypeOK'
      BY <2>2, <2>3, TypeStep
    <2>5. CallInv(c)'
      <3>1. ConnInv(c)' /\ EndInv(c)'
        BY <2>1, <2>2, ConnStep, EndStep DEF CallInv
      <3>2. ReadInv(c)' /\ LastInv(c)'
        BY <2>1, <2>2, ReadStep, LastStep DEF CallInv
      <3>3. CleanInv(c)' /\ ProdInv(c)'
        BY <2>1, <2>2, CleanStep, ProdStep DEF CallInv
      <3>4. QED
        BY <3>1, <3>2, <3>3 DEF CallInv
    <2>6. \A d \in Calls : CallInv(d)'
      BY <2>2, <2>3, <2>5, OthersKeep DEF IInv
    <2>7. QED
      BY <2>4, <2>6 DEF IInv
  <1>2. CASE UNCHANGED vars
    <2>1. TypeOK'
      BY <1>2 DEF IInv, TypeOK, vars, live, goVars, netVars, tssVars
    <2>2. ASSUME NEW c \in Calls
          PROVE  CallInv(c)'
      <3>1. CallInv(c)
        BY DEF IInv
      <3>2. UNCHANGED <<main, receive, expired, errs, conn, wire, tss, made, sent,
                        got, response, tokens, faults, devMode>>
        BY <1>2 DEF vars, live, goVars, netVars, tssVars
      <3>3. QED
        BY <3>1, <3>2 DEF CallInv, ConnInv, EndInv, ReadInv, LastInv, CleanInv, ProdInv
    <2>3. QED
      BY <2>1, <2>2 DEF IInv
  <1>3. QED
    BY <1>1, <1>2

\* The requests stay in their type.
THEOREM TypeCorrect == Spec => []TypeOK
  <1>1. IInv => TypeOK
    BY DEF IInv
  <1>2. QED
    BY <1>1, Initial, Inductive, PTL DEF Spec

\* A Sign that has its signature and waits on errs for the end of its connection
\* is sure of an error, for any number of calls and of failures: the end of the
\* connection is on its way to a Receive that is still there to read it, or the
\* handler has yet to close the connection.
THEOREM StrandedNever == Spec => []NeverStranded
  <1>1. IInv => NeverStranded
    <2> SUFFICES ASSUME IInv, Prompt, NEW c \in Signs,
                        main[c].client = "wait", errs[c] = {}
                 PROVE  /\ receive[c]["client"] \in {"top", "read"}
                        /\ "client" \notin expired[c]
                        /\ \/ In("end", wire[c]["client"])
                           \/ conn[c] = "open" /\ main[c].server \in {"tss", "sleep"}
      BY DEF NeverStranded, In
    <2>1. c \in Calls /\ CallInv(c) /\ Types
      BY TypeOKSplits DEF IInv, Calls
    <2>2. "client" \in got[c]
      BY <2>1, Two DEF CallInv, LastInv
    <2>3. receive[c]["client"] \in ReceiveStates /\ conn[c] \in ConnStates
      BY <2>1, Two DEF Types
    <2>4. /\ receive[c]["client"] \in {"top", "read"}
          /\ "client" \notin expired[c]
      BY <2>1, <2>2, <2>3 DEF CallInv, ReadInv, ReceiveStates
    <2>5. \/ In("end", wire[c]["client"])
          \/ conn[c] = "open" /\ main[c].server \in {"tss", "sleep"}
      BY <2>1, <2>3 DEF CallInv, ConnInv, EndInv, ConnStates
    <2>6. QED
      BY <2>4, <2>5
  <1>2. QED
    BY <1>1, Initial, Inductive, PTL DEF Spec

\* A signature that Sign returns is one that both sides worked on to the end, for
\* any number of calls and of failures.
THEOREM BothSigned == Spec => []SignedByBoth
  <1>1. IInv => SignedByBoth
    <2> SUFFICES ASSUME IInv, NEW c \in Signs, main[c].client = "ok"
                 PROVE  /\ tss[c]["client"] = "done"
                        /\ Sides \subseteq made[c] /\ "server" \in sent[c]
      BY DEF SignedByBoth
    <2>1. c \in Calls /\ LastInv(c)
      BY DEF IInv, CallInv, Calls
    <2>2. tss[c]["client"] = "done" /\ "client" \in made[c] \cap got[c]
      BY <2>1, Two DEF LastInv
    <2>3. "server" \in sent[c] /\ "server" \in made[c]
      BY <2>1, <2>2, Two DEF LastInv
    <2>4. QED
      BY <2>2, <2>3, Two
  <1>2. QED
    BY <1>1, Initial, Inductive, PTL DEF Spec

\* In dev mode any number of calls that meet no failure are all admitted with their
\* tokens, and none is refused, whatever the contexts do; outside it none is
\* admitted.
THEOREM NoneRefused == Spec => []RefusedOnlyOnFault
  <1>1. IInv => RefusedOnlyOnFault
    BY DEF IInv, TypeOK, CallInv, CleanInv, ProdInv, RefusedOnlyOnFault
  <1>2. QED
    BY <1>1, Initial, Inductive, PTL DEF Spec
=============================================================================
