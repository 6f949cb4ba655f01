----------------------------- MODULE PeerManager -----------------------------
(***************************************************************************)
(* The transport of TSS messages: the PeerManager of each party, the       *)
(* TssSend goroutines that empty it, the websockets, and the server that   *)
(* relays between its clients.  A client has one connection, to the server;*)
(* the server has one per client, each with a TssSend of its own, and a    *)
(* single PeerManager behind all of them.                                  *)
(* Sources: utils/tss/peerManager.go, utils/tss/serviceAdd.go,             *)
(* utils/ws/ws.go.  Connections do not fail here: see AddDevice and Dkg.   *)
(***************************************************************************)
EXTENDS Naturals, Sequences, SequencesExt

CONSTANTS Clients,  \* devices of the session
          Server,   \* _serverID
          Pairs,    \* pairs <<from, to>> of parties that exchange messages
          MaxSends  \* bound on the messages of a pair

Parties == Clients \cup {Server}

ASSUME PeersAssumption ==
    /\ Server \notin Clients
    /\ Pairs \subseteq {p \in Parties \X Parties : p[1] # p[2]}
    /\ MaxSends \in Nat

\* A connection has two directions: from the client and from the server.
Links == (Clients \X {Server}) \cup ({Server} \X Clients)

\* The PeerID of a message is the party it is for; the number and the sender
\* stand for its content.
Message == [from : Parties, PeerID : Parties, n : 1..MaxSends]

VARIABLES
    outwardMessages,  \* outwardMessages[p]: the queue of p's PeerManager
    tssMsg,           \* tssMsg[l]: what the TssSend of link l holds, if anything
    wire,             \* wire[l]: messages in flight on link l
    sent, handled     \* as in PeerNetwork

vars == <<outwardMessages, tssMsg, wire, sent, handled>>

\* The type invariant: the states that the queues can be in.
TypeOK ==
    /\ outwardMessages \in [Parties -> Seq(Message)]
    /\ tssMsg \in [Links -> Seq(Message)]
    /\ wire \in [Links -> Seq(Message)]
    /\ sent \in [Pairs -> 0..MaxSends]
    /\ handled \in [Pairs -> Seq(1..MaxSends)]

Init ==
    /\ outwardMessages = [p \in Parties |-> <<>>]
    /\ tssMsg = [l \in Links |-> <<>>]
    /\ wire = [l \in Links |-> <<>>]
    /\ sent = [p \in Pairs |-> 0]
    /\ handled = [p \in Pairs |-> <<>>]

-----------------------------------------------------------------------------
\* Mutant of MustSend: the message is stored without its PeerID.
MustSendUnaddressed(p, m) ==
    outwardMessages' = [outwardMessages EXCEPT ![p] = Append(@, [from |-> m.from, n |-> m.n])]

\* PeerManager.MustSend: append a message for peerID.
MustSend(p, m) == outwardMessages' = [outwardMessages EXCEPT ![p] = Append(@, m)]

\* The TSS service of a party sends its next message to another one.
ServiceSends(pair) ==
    /\ sent[pair] < MaxSends
    /\ sent' = [sent EXCEPT ![pair] = @ + 1]
    /\ MustSend(pair[1], [from |-> pair[1], PeerID |-> pair[2], n |-> sent[pair] + 1])
    /\ UNCHANGED <<tssMsg, wire, handled>>

\* The TssSend of link l takes the message at place i of the queue of p; the
\* rest stays as it is.
Take(p, l, i) ==
    /\ tssMsg[l] = <<>>
    /\ tssMsg' = [tssMsg EXCEPT ![l] = <<outwardMessages[p][i]>>]
    /\ outwardMessages' = [outwardMessages EXCEPT ![p] = RemoveAt(@, i)]
    /\ UNCHANGED <<wire, sent, handled>>

\* GetNextMessageToSendAll, on a client: the first message, whoever it is for.
GetNextMessageToSendAll(c) ==
    /\ outwardMessages[c] # <<>>
    /\ Take(c, <<c, Server>>, 1)

\* Mutant of GetNextMessageToSendPeer: the scan returns the last match.
GetNextMessageToSendPeerLast(c) ==
    \E i \in 1..Len(outwardMessages[Server]) :
        /\ outwardMessages[Server][i].PeerID = c
        /\ \A j \in i+1..Len(outwardMessages[Server]) :
              outwardMessages[Server][j].PeerID # c
        /\ Take(Server, <<Server, c>>, i)

\* GetNextMessageToSendPeer, on the server: the first message for client c,
\* relayed or its own; the messages for others stay in their order.
GetNextMessageToSendPeer(c) ==
    \E i \in 1..Len(outwardMessages[Server]) :
        /\ outwardMessages[Server][i].PeerID = c
        /\ \A j \in 1..i-1 : outwardMessages[Server][j].PeerID # c
        /\ Take(Server, <<Server, c>>, i)

\* TssSend writes what it holds.
TssSend(l) ==
    /\ tssMsg[l] # <<>>
    /\ wire' = [wire EXCEPT ![l] = @ \o tssMsg[l]]
    /\ tssMsg' = [tssMsg EXCEPT ![l] = <<>>]
    /\ UNCHANGED <<outwardMessages, sent, handled>>

\* AdderGenericHandle at party p: handle what is for p, pass on the rest.
HandleMessage(p, m) ==
    IF m.PeerID = p
    THEN /\ handled' = [handled EXCEPT ![<<m.from, p>>] = Append(@, m.n)]
         /\ UNCHANGED outwardMessages
    ELSE /\ MustSend(p, m)
         /\ UNCHANGED handled

\* The reader at the end of link l takes the next message.
Receive(l) ==
    /\ wire[l] # <<>>
    /\ wire' = [wire EXCEPT ![l] = Tail(@)]
    /\ HandleMessage(l[2], Head(wire[l]))
    /\ UNCHANGED <<tssMsg, sent>>

Next ==
    \/ \E p \in Pairs : ServiceSends(p)
    \/ \E c \in Clients : GetNextMessageToSendAll(c) \/ GetNextMessageToSendPeer(c)
    \/ \E l \in Links : TssSend(l) \/ Receive(l)

\* The goroutines of the connections run; what the services send is theirs.
Fairness ==
    /\ \A c \in Clients : /\ WF_vars(GetNextMessageToSendAll(c))
                          /\ WF_vars(GetNextMessageToSendPeer(c))
    /\ \A l \in Links : WF_vars(TssSend(l)) /\ WF_vars(Receive(l))

Spec == Init /\ [][Next]_vars /\ Fairness

-----------------------------------------------------------------------------
Network == INSTANCE PeerNetwork

\* The queues, the senders that share the server's queue, and the relay
\* together are a network: over each pair of parties every message is handled
\* exactly once, in the order of the sends, and none is left behind.
DeliversInOrder == Network!Spec
=============================================================================
