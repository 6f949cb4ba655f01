---------------------------- MODULE ShareProtocol ----------------------------
(***************************************************************************)
(* What a registration needs of the add-share process: the new party is    *)
(* done once every party takes part, the old ones after the new one has    *)
(* its share, and all of them are done in the end.  This is the abstract   *)
(* process that AddDevice uses.                                            *)
(***************************************************************************)
CONSTANTS Parties,  \* the parties of the process
          New       \* the party that gets a share

VARIABLES running,  \* the parties whose process has started
          done      \* the parties whose process is done

vars == <<running, done>>

Init == running = {} /\ done = {}

Start(p) ==
    /\ running' = running \cup {p}
    /\ UNCHANGED done

NewPeerDone ==
    /\ running = Parties
    /\ done' = done \cup {New}
    /\ UNCHANGED running

OldPeerDone(p) ==
    /\ New \in done
    /\ done' = done \cup {p}
    /\ UNCHANGED running

Next ==
    \/ \E p \in Parties : Start(p)
    \/ NewPeerDone
    \/ \E p \in Parties \ {New} : OldPeerDone(p)

Spec ==
    /\ Init
    /\ [][Next]_vars
    /\ WF_vars(NewPeerDone)
    /\ \A p \in Parties \ {New} : WF_vars(OldPeerDone(p))
=============================================================================
