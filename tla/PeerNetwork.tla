----------------------------- MODULE PeerNetwork -----------------------------
(***************************************************************************)
(* What the TSS protocols of the alice library expect of the transport     *)
(* between the parties of a session: the messages of one party to another  *)
(* are handled there once each and in the order in which they were sent.   *)
(* The messages of a pair are numbered from 1.                             *)
(***************************************************************************)
EXTENDS Naturals, Sequences

CONSTANTS Pairs,    \* pairs <<from, to>> of parties that exchange messages
          MaxSends  \* bound on the messages of a pair

VARIABLES sent,     \* sent[p]: number of messages sent over pair p
          handled   \* handled[p]: the messages handled at its end

vars == <<sent, handled>>

Init ==
    /\ sent    = [p \in Pairs |-> 0]
    /\ handled = [p \in Pairs |-> <<>>]

Send(p) ==
    /\ sent[p] < MaxSends
    /\ sent' = [sent EXCEPT ![p] = @ + 1]
    /\ UNCHANGED handled

Handle(p) ==
    /\ Len(handled[p]) < sent[p]
    /\ handled' = [handled EXCEPT ![p] = Append(@, Len(@) + 1)]
    /\ UNCHANGED sent

Next == \E p \in Pairs : Send(p) \/ Handle(p)

Spec == Init /\ [][Next]_vars /\ \A p \in Pairs : WF_vars(Handle(p))
=============================================================================
