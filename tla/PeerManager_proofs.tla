------------------------- MODULE PeerManager_proofs -------------------------
(***************************************************************************)
(* Proofs about PeerManager, for any number of clients, any pairs of       *)
(* parties and any number of messages: its steps are steps of PeerNetwork. *)
(***************************************************************************)
EXTENDS PeerManager, SequenceTheorems, TLAPS

-----------------------------------------------------------------------------
(* Where a message can be.                                                 *)

\* The queue of a PeerManager, what a TssSend holds, and what is on a link.
Places == ({"out"} \X Parties) \cup ({"tss", "wire"} \X Links)

\* What is at each place, for the queues o, the held messages t and the links w.
Queue(o, t, w) ==
    [a \in Places |-> IF a[1] = "out" THEN o[a[2]]
                      ELSE IF a[1] = "tss" THEN t[a[2]] ELSE w[a[2]]]

queue == Queue(outwardMessages, tssMsg, wire)

\* How far a place is on the way of a message: from a client to the server, and
\* from the server to a client.
Rank(a) ==
    IF a[1] = "out" THEN IF a[2] = Server THEN 4 ELSE 1
    ELSE (IF a[1] = "tss" THEN 2 ELSE 3) + (IF a[2][1] = Server THEN 3 ELSE 0)

\* The client that the place belongs to.
ClientOf(a) ==
    IF a[1] = "out" THEN a[2] ELSE IF a[2][1] = Server THEN a[2][2] ELSE a[2][1]

PairOf(m) == <<m.from, m.PeerID>>

\* Message m is on its way at place a.
Home(a, m) ==
    /\ PairOf(m) \in Pairs
    /\ Rank(a) <= 3 => m.from = ClientOf(a)
    /\ Rank(a) = 4  => m.PeerID # Server
    /\ Rank(a) >= 5 => m.PeerID = ClientOf(a)

-----------------------------------------------------------------------------
(* The inductive invariant, for queues q, numbers of sent messages s and   *)
(* handled messages h.                                                     *)

AtHome(q) == \A a \in Places : \A i \in 1..Len(q[a]) : Home(a, q[a][i])

\* Of two messages of a pair the one that is further on its way was sent first.
Ordered(q) ==
    \A a, b \in Places : \A i \in 1..Len(q[a]), j \in 1..Len(q[b]) :
        /\ PairOf(q[a][i]) = PairOf(q[b][j])
        /\ Rank(a) > Rank(b) \/ (a = b /\ i < j)
        => q[a][i].n < q[b][j].n

\* What is under way was sent and not handled, ...
Window(q, s, h) ==
    \A a \in Places : \A i \in 1..Len(q[a]) :
        /\ Len(h[PairOf(q[a][i])]) < q[a][i].n
        /\ q[a][i].n <= s[PairOf(q[a][i])]

\* ... and what was sent and not handled is under way.
Complete(q, s, h) ==
    \A p \in Pairs : \A n \in Nat :
        Len(h[p]) < n /\ n <= s[p] =>
            \E a \in Places : \E i \in 1..Len(q[a]) :
                q[a][i] = [from |-> p[1], PeerID |-> p[2], n |-> n]

Flight(q, s, h) == AtHome(q) /\ Ordered(q) /\ Window(q, s, h) /\ Complete(q, s, h)

\* A TssSend holds one message at most.
OneHeld == \A l \in Links : Len(tssMsg[l]) <= 1

\* No more is handled than was sent.
Behind(s, h) == \A p \in Pairs : Len(h[p]) <= s[p]

IInv ==
    /\ TypeOK
    /\ OneHeld
    /\ Behind(sent, handled)
    /\ Flight(queue, sent, handled)

-----------------------------------------------------------------------------
(* Sequences.                                                              *)

\* The scan of GetNextMessageToSendPeer takes one message out and leaves the rest
\* in order.
LEMMA RemoveAtEffect ==
    ASSUME NEW M, NEW s \in Seq(M), NEW i \in 1..Len(s)
    PROVE  /\ RemoveAt(s, i) \in Seq(M)
           /\ Len(RemoveAt(s, i)) = Len(s) - 1
           /\ \A j \in 1..Len(s) - 1 : RemoveAt(s, i)[j] = IF j < i THEN s[j] ELSE s[j + 1]
  <1> DEFINE a == SubSeq(s, 1, i - 1)
             b == SubSeq(s, i + 1, Len(s))
  <1>1. Len(s) \in Nat /\ i \in Int
    OBVIOUS
  <1>2. a \in Seq(M) /\ Len(a) = i - 1 /\ \A j \in 1..i - 1 : a[j] = s[j]
    OBVIOUS
  <1>3. b \in Seq(M) /\ Len(b) = Len(s) - i /\ \A j \in 1..Len(s) - i : b[j] = s[j + i]
    OBVIOUS
  <1>4. RemoveAt(s, i) = a \o b
    BY DEF RemoveAt
  <1> HIDE DEF a, b
  <1>5. a \o b \in Seq(M) /\ Len(a \o b) = Len(s) - 1
    <2>1. a \o b \in Seq(M) /\ Len(a \o b) = Len(a) + Len(b)
      BY <1>2, <1>3, ConcatProperties
    <2>2. QED
      BY <1>1, <1>2, <1>3, <2>1
  <1>6. ASSUME NEW j \in 1..Len(s) - 1
        PROVE  (a \o b)[j] = IF j < i THEN s[j] ELSE s[j + 1]
    <2>1. CASE j < i
      BY <1>2, <1>3, <2>1
    <2>2. CASE j >= i
      <3>1. (a \o b)[j] = b[j - (i - 1)]
        <4>1. j \in Len(a) + 1..Len(a) + Len(b)
          BY <1>2, <1>3, <2>2
        <4>2. (a \o b)[j] = b[j - Len(a)]
          BY <1>2, <1>3, <4>1
        <4>3. QED
          BY <1>2, <4>2
      <3>2. j - (i - 1) \in 1..Len(s) - i
        BY <2>2
      <3>3. b[j - (i - 1)] = s[j - (i - 1) + i]
        BY <1>3, <3>2
      <3>4. j - (i - 1) + i = j + 1
        OBVIOUS
      <3>5. QED
        BY <3>1, <3>3, <3>4, <2>2
    <2>3. j \in Int
      BY <1>1
    <2>4. j < i \/ j >= i
      BY <1>1, <2>3
    <2>5. QED
      BY ONLY <2>1, <2>2, <2>4
  <1>7. QED
    BY <1>4, <1>5, <1>6

Queues == [Places -> Seq(Message)]

\* Function g is f with value v at place e of set S.
Updated(f, g, S, e, v) == g[e] = v /\ \A x \in S \ {e} : g[x] = f[x]

\* Message i of place a goes to the end of place b, ...
Passed(q, qq, a, i, b) ==
    /\ qq[a] = RemoveAt(q[a], i)
    /\ qq[b] = Append(q[b], q[a][i])
    /\ \A c \in Places \ {a, b} : qq[c] = q[c]

\* ... and it is the first of its pair there.
Foremost(s, i) == \A j \in 1..i - 1 : PairOf(s[j]) # PairOf(s[i])

\* Message m, of pair p, is the first of sequence s.
Ahead(s, m, p) == s # <<>> /\ m = Head(s) /\ p = PairOf(m)

\* Place a is the first, or the last, of the way of the messages of pair p.
FirstPlace(a, p) ==
    \A d \in Places, x \in Message : Home(d, x) /\ PairOf(x) = p => Rank(d) >= Rank(a)
LastPlace(a, p) ==
    \A d \in Places, x \in Message : Home(d, x) /\ PairOf(x) = p => Rank(d) <= Rank(a)

LEMMA RankType == \A a : Rank(a) \in 1..6
  BY DEF Rank

\* Two places that are equally far hold no messages of the same pair.
LEMMA SameRank ==
    ASSUME NEW a \in Places, NEW b \in Places, NEW x \in Message, NEW y \in Message,
           Home(a, x), Home(b, y), PairOf(x) = PairOf(y), Rank(a) = Rank(b)
    PROVE  a = b
  <1> USE PeersAssumption
  <1>1. x.from = y.from /\ x.PeerID = y.PeerID
    BY DEF PairOf
  <1>2. Rank(a) = 4 \/ ClientOf(a) = ClientOf(b)
    BY <1>1, RankType DEF Home
  <1>3. QED
    BY <1>2 DEF Rank, ClientOf, Places, Links, Parties

-----------------------------------------------------------------------------
(* A message goes on to the next place.                                    *)

LEMMA Moved ==
    ASSUME NEW q \in Queues, NEW qq \in Queues, NEW s, NEW h,
           NEW a \in Places, NEW b \in Places, NEW i \in 1..Len(q[a]),
           Flight(q, s, h),
           Rank(b) = Rank(a) + 1,
           Foremost(q[a], i),
           Home(b, q[a][i]),
           Passed(q, qq, a, i, b)
    PROVE  Flight(qq, s, h)
  <1> DEFINE m == q[a][i]
             Old(c, j) == IF c = a /\ j >= i THEN j + 1 ELSE j
             New(c, j) == c = b /\ j = Len(q[b]) + 1
  <1>1. a # b /\ \A c \in Places : q[c] \in Seq(Message) /\ Len(q[c]) \in Nat
    <2>1. Rank(a) \in Int
      BY RankType
    <2>2. a # b
      BY <2>1
    <2>3. \A c \in Places : q[c] \in Seq(Message)
      BY DEF Queues
    <2>4. QED
      BY <2>2, <2>3, LenProperties
  <1>2. m \in Message
    BY <1>1
  <1>3. /\ Len(qq[a]) = Len(q[a]) - 1
        /\ \A j \in 1..Len(q[a]) - 1 : qq[a][j] = IF j < i THEN q[a][j] ELSE q[a][j + 1]
    <2>1. q[a] \in Seq(Message) /\ qq[a] = RemoveAt(q[a], i)
      BY <1>1 DEF Passed
    <2>2. /\ Len(RemoveAt(q[a], i)) = Len(q[a]) - 1
          /\ \A j \in 1..Len(q[a]) - 1 :
                RemoveAt(q[a], i)[j] = IF j < i THEN q[a][j] ELSE q[a][j + 1]
      BY ONLY <2>1, i \in 1..Len(q[a]), RemoveAtEffect
    <2>3. QED
      BY <2>1, <2>2, Zenon
  <1>4. /\ Len(qq[b]) = Len(q[b]) + 1
        /\ \A j \in 1..Len(q[b]) : qq[b][j] = q[b][j]
        /\ qq[b][Len(q[b]) + 1] = m
    BY <1>1, <1>2, AppendProperties DEF Passed
  <1>5. ASSUME NEW c \in Places, NEW j \in 1..Len(qq[c])
        PROVE  \/ New(c, j) /\ qq[c][j] = m
               \/ /\ ~New(c, j)
                  /\ Old(c, j) \in 1..Len(q[c])
                  /\ qq[c][j] = q[c][Old(c, j)]
                  /\ c = a => Old(c, j) # i
    <2>1. CASE c = a
      BY <1>1, <1>3, <2>1
    <2>2. CASE c = b
      <3>1. j \in 1..Len(q[b]) \/ j = Len(q[b]) + 1
        BY <1>1, <1>4, <2>2
      <3>2. QED
        BY <1>1, <1>4, <2>2, <3>1
    <2>3. CASE c \notin {a, b}
      BY <1>1, <2>3 DEF Passed
    <2>4. QED
      BY <2>1, <2>2, <2>3
  <1>6. AtHome(qq)
    BY <1>5 DEF AtHome, Flight
  <1>7. Window(qq, s, h)
    <2>1. SUFFICES ASSUME NEW c \in Places, NEW j \in 1..Len(qq[c])
                   PROVE  /\ Len(h[PairOf(qq[c][j])]) < qq[c][j].n
                          /\ qq[c][j].n <= s[PairOf(qq[c][j])]
      BY DEF Window
    <2>2. PICK d \in Places : \E k \in 1..Len(q[d]) : qq[c][j] = q[d][k]
      BY <1>5
    <2>3. QED
      BY <2>2 DEF Window, Flight
  <1>8. Ordered(qq)
    <2>1. SUFFICES ASSUME NEW c \in Places, NEW d \in Places,
                          NEW j \in 1..Len(qq[c]), NEW k \in 1..Len(qq[d]),
                          PairOf(qq[c][j]) = PairOf(qq[d][k]),
                          Rank(c) > Rank(d) \/ (c = d /\ j < k)
                   PROVE  qq[c][j].n < qq[d][k].n
      BY DEF Ordered
    <2>2. CASE ~New(c, j) /\ ~New(d, k)
      <3>1. Rank(c) > Rank(d) \/ (c = d /\ Old(c, j) < Old(d, k))
        BY <2>1
      <3>2. /\ Old(c, j) \in 1..Len(q[c]) /\ qq[c][j] = q[c][Old(c, j)]
            /\ Old(d, k) \in 1..Len(q[d]) /\ qq[d][k] = q[d][Old(d, k)]
        BY <1>5, <2>2
      <3> HIDE DEF Old
      <3>3. QED
        BY <2>1, <3>1, <3>2 DEF Ordered, Flight
    <2>3. CASE New(c, j) /\ ~New(d, k)
      <3>1. Rank(d) <= Rank(a)
        BY <1>4, <2>1, <2>3, RankType
      <3>2. Old(d, k) \in 1..Len(q[d]) /\ qq[d][k] = q[d][Old(d, k)] /\ qq[c][j] = m
        BY <1>5, <2>3
      <3>3. CASE Rank(d) < Rank(a)
        BY <2>1, <3>2, <3>3 DEF Ordered, Flight
      <3>4. CASE Rank(d) = Rank(a)
        <4>1. d = a
          <5>1. q[d][Old(d, k)] \in Message
            BY <1>1, <3>2
          <5>2. Home(a, m) /\ Home(d, q[d][Old(d, k)])
            BY <3>2 DEF AtHome, Flight
          <5>3. QED
            BY <1>2, <2>1, <3>2, <3>4, <5>1, <5>2, SameRank
        <4>2. Old(d, k) # i
          BY <1>5, <2>3, <4>1
        <4>3. Old(d, k) > i
          BY <2>1, <3>2, <4>1, <4>2 DEF Foremost
        <4>4. QED
          BY <2>1, <3>2, <4>1, <4>3 DEF Ordered, Flight
      <3>5. QED
        BY <3>1, <3>3, <3>4, RankType
    <2>4. CASE ~New(c, j) /\ New(d, k)
      <3>1. Rank(c) > Rank(a)
        BY <2>1, <2>4, RankType
      <3>2. Old(c, j) \in 1..Len(q[c]) /\ qq[c][j] = q[c][Old(c, j)] /\ qq[d][k] = m
        BY <1>5, <2>4
      <3>3. QED
        BY <2>1, <3>1, <3>2 DEF Ordered, Flight
    <2>5. CASE New(c, j) /\ New(d, k)
      BY <2>1, <2>5, RankType
    <2>6. QED
      BY <2>2, <2>3, <2>4, <2>5
  <1>9. Complete(qq, s, h)
    <2>1. ASSUME NEW c \in Places, NEW j \in 1..Len(q[c])
          PROVE  \E d \in Places : \E k \in 1..Len(qq[d]) : qq[d][k] = q[c][j]
      <3>1. CASE c = a /\ j = i
        BY <1>1, <1>4, <3>1
      <3>2. CASE c = a /\ j < i
        <4>1. j \in 1..Len(qq[a]) /\ qq[a][j] = q[a][j]
          BY <1>1, <1>3, <3>2
        <4>2. QED
          BY <4>1, <3>2
      <3>3. CASE c = a /\ j > i
        <4>1. j - 1 \in 1..Len(qq[a]) /\ qq[a][j - 1] = q[a][j]
          BY <1>1, <1>3, <3>3
        <4>2. QED
          BY <4>1, <3>3
      <3>4. CASE c = b
        BY <1>1, <1>4, <3>4
      <3>5. CASE c \notin {a, b}
        BY <3>5 DEF Passed
      <3>6. QED
        BY <1>1, <3>1, <3>2, <3>3, <3>4, <3>5
    <2>2. ASSUME NEW p \in Pairs, NEW n \in Nat, Len(h[p]) < n, n <= s[p]
          PROVE  \E d \in Places : \E k \in 1..Len(qq[d]) :
                     qq[d][k] = [from |-> p[1], PeerID |-> p[2], n |-> n]
      <3>1. PICK c \in Places : \E j \in 1..Len(q[c]) :
                q[c][j] = [from |-> p[1], PeerID |-> p[2], n |-> n]
        BY <2>2 DEF Complete, Flight
      <3>2. PICK j \in 1..Len(q[c]) :
                q[c][j] = [from |-> p[1], PeerID |-> p[2], n |-> n]
        BY <3>1
      <3>3. \E d \in Places : \E k \in 1..Len(qq[d]) : qq[d][k] = q[c][j]
        BY <2>1
      <3>4. QED
        BY <3>2, <3>3
    <2>3. QED
      BY <2>2 DEF Complete
  <1>10. QED
    BY <1>6, <1>7, <1>8, <1>9 DEF Flight

-----------------------------------------------------------------------------
(* A message enters, and a message is handled.                             *)

LEMMA Added ==
    ASSUME NEW q \in Queues, NEW qq \in Queues, NEW p \in Pairs, NEW a \in Places,
           NEW s \in [Pairs -> Nat], NEW ss \in [Pairs -> Nat], NEW h,
           NEW m \in Message,
           Flight(q, s, h),
           Len(h[p]) \in Nat, Len(h[p]) <= s[p],
           m = [from |-> p[1], PeerID |-> p[2], n |-> s[p] + 1],
           Home(a, m), PairOf(m) = p, FirstPlace(a, p),
           Updated(q, qq, Places, a, Append(q[a], m)),
           Updated(s, ss, Pairs, p, s[p] + 1)
    PROVE  Flight(qq, ss, h)
  <1> DEFINE New(c, j) == c = a /\ j = Len(q[a]) + 1
  <1>1. \A c \in Places : q[c] \in Seq(Message) /\ Len(q[c]) \in Nat
    <2>1. \A c \in Places : q[c] \in Seq(Message)
      BY DEF Queues
    <2>2. QED
      BY <2>1, LenProperties
  <1>2. /\ Len(qq[a]) = Len(q[a]) + 1
        /\ \A j \in 1..Len(q[a]) : qq[a][j] = q[a][j]
        /\ qq[a][Len(q[a]) + 1] = m
    BY <1>1, AppendProperties DEF Updated
  <1>3. \A c \in Places \ {a} : qq[c] = q[c]
    BY DEF Updated
  <1>4. ASSUME NEW c \in Places, NEW j \in 1..Len(qq[c])
        PROVE  \/ New(c, j) /\ qq[c][j] = m
               \/ ~New(c, j) /\ j \in 1..Len(q[c]) /\ qq[c][j] = q[c][j]
    <2>1. CASE c = a
      <3>1. j \in 1..Len(q[a]) \/ j = Len(q[a]) + 1
        BY <1>1, <1>2, <2>1
      <3>2. QED
        BY <1>1, <1>2, <2>1, <3>1
    <2>2. CASE c # a
      BY <1>3, <2>2
    <2>3. QED
      BY <2>1, <2>2
  <1>5. AtHome(qq)
    BY <1>4 DEF AtHome, Flight
  <1>6. /\ ss[p] = s[p] + 1
        /\ \A r \in Pairs : r # p => ss[r] = s[r]
        /\ \A r \in Pairs : s[r] \in Nat /\ ss[r] \in Nat /\ s[r] <= ss[r]
    BY DEF Updated
  <1>7. ASSUME NEW c \in Places, NEW j \in 1..Len(q[c])
        PROVE  /\ q[c][j] \in Message
               /\ q[c][j].n \in Nat
               /\ PairOf(q[c][j]) \in Pairs
               /\ Home(c, q[c][j])
               /\ Len(h[PairOf(q[c][j])]) < q[c][j].n
               /\ q[c][j].n <= s[PairOf(q[c][j])]
    <2>1. q[c][j] \in Message /\ Home(c, q[c][j])
      BY <1>1 DEF AtHome, Flight
    <2>2. q[c][j].n \in Nat /\ PairOf(q[c][j]) \in Pairs
      BY <2>1, PeersAssumption DEF Message, Home
    <2>3. QED
      BY <2>1, <2>2 DEF Window, Flight
  <1>8. Window(qq, ss, h)
    <2>1. SUFFICES ASSUME NEW c \in Places, NEW j \in 1..Len(qq[c])
                   PROVE  /\ Len(h[PairOf(qq[c][j])]) < qq[c][j].n
                          /\ qq[c][j].n <= ss[PairOf(qq[c][j])]
      BY DEF Window
    <2>2. CASE New(c, j)
      <3>1. qq[c][j] = m /\ m.n = s[p] + 1
        BY <1>4, <2>2
      <3>2. QED
        BY <1>6, <3>1
    <2>3. CASE ~New(c, j)
      <3>1. j \in 1..Len(q[c]) /\ qq[c][j] = q[c][j]
        BY <1>4, <2>3
      <3> DEFINE r == PairOf(q[c][j])
      <3>2. r \in Pairs /\ Len(h[r]) < q[c][j].n /\ q[c][j].n <= s[r] /\ q[c][j].n \in Nat
        BY <1>7, <3>1
      <3>3. s[r] \in Nat /\ ss[r] \in Nat /\ s[r] <= ss[r]
        BY <1>6, <3>2
      <3> HIDE DEF r
      <3>4. q[c][j].n <= ss[r]
        BY <3>2, <3>3
      <3>5. QED
        BY <3>1, <3>2, <3>4 DEF r
    <2>4. QED
      BY <2>2, <2>3
  <1>9. Ordered(qq)
    <2>1. SUFFICES ASSUME NEW c \in Places, NEW d \in Places,
                          NEW j \in 1..Len(qq[c]), NEW k \in 1..Len(qq[d]),
                          PairOf(qq[c][j]) = PairOf(qq[d][k]),
                          Rank(c) > Rank(d) \/ (c = d /\ j < k)
                   PROVE  qq[c][j].n < qq[d][k].n
      BY DEF Ordered
    <2>2. CASE ~New(c, j) /\ ~New(d, k)
      <3>1. /\ j \in 1..Len(q[c]) /\ qq[c][j] = q[c][j]
            /\ k \in 1..Len(q[d]) /\ qq[d][k] = q[d][k]
        BY <1>4, <2>2
      <3>2. QED
        BY <2>1, <3>1 DEF Ordered, Flight
    <2>3. CASE ~New(c, j) /\ New(d, k)
      <3>1. j \in 1..Len(q[c]) /\ qq[c][j] = q[c][j] /\ qq[d][k] = m
        BY <1>4, <2>3
      <3>2. PairOf(q[c][j]) = p
        BY <2>1, <3>1
      <3>3. q[c][j].n <= s[p] /\ q[c][j].n \in Nat
        BY <1>7, <3>1, <3>2
      <3>4. m.n = s[p] + 1
        OBVIOUS
      <3>5. QED
        BY <1>6, <3>1, <3>3, <3>4
    <2>4. CASE New(c, j) /\ ~New(d, k)
      <3>1. k \in 1..Len(q[d]) /\ qq[d][k] = q[d][k] /\ qq[c][j] = m
        BY <1>4, <2>4
      <3>2. Rank(d) >= Rank(a)
        BY <1>7, <2>1, <3>1 DEF FirstPlace
      <3>3. Rank(c) \in 1..6 /\ Rank(d) \in 1..6
        BY ONLY RankType
      <3>4. c = d /\ j < k
        <4>1. c = a /\ (Rank(c) > Rank(d) \/ (c = d /\ j < k))
          BY <2>1, <2>4
        <4>2. QED
          BY ONLY <3>2, <3>3, <4>1
      <3>5. QED
        BY <1>1, <2>4, <3>1, <3>4
    <2>5. CASE New(c, j) /\ New(d, k)
      <3>1. Rank(c) \in 1..6
        BY ONLY RankType
      <3>2. QED
        BY <1>1, <2>1, <2>5, <3>1
    <2>6. QED
      BY <2>2, <2>3, <2>4, <2>5
  <1>10. Complete(qq, ss, h)
    <2>1. SUFFICES ASSUME NEW r \in Pairs, NEW n \in Nat, Len(h[r]) < n, n <= ss[r]
                   PROVE  \E d \in Places : \E k \in 1..Len(qq[d]) :
                              qq[d][k] = [from |-> r[1], PeerID |-> r[2], n |-> n]
      BY DEF Complete
    <2>2. CASE r = p /\ n = s[p] + 1
      BY <1>1, <1>2, <2>2
    <2>3. CASE ~(r = p /\ n = s[p] + 1)
      <3>1. n <= s[r]
        BY <1>6, <2>1, <2>3
      <3>2. PICK c \in Places : \E j \in 1..Len(q[c]) :
                q[c][j] = [from |-> r[1], PeerID |-> r[2], n |-> n]
        BY <2>1, <3>1 DEF Complete, Flight
      <3>3. PICK j \in 1..Len(q[c]) :
                q[c][j] = [from |-> r[1], PeerID |-> r[2], n |-> n]
        BY <3>2
      <3>4. j \in 1..Len(qq[c]) /\ qq[c][j] = q[c][j]
        <4>1. CASE c = a
          BY <1>1, <1>2, <4>1
        <4>2. CASE c # a
          BY <1>3, <4>2
        <4>3. QED
          BY <4>1, <4>2
      <3>5. QED
        BY <3>3, <3>4
    <2>4. QED
      BY <2>2, <2>3
  <1>11. QED
    BY <1>5, <1>8, <1>9, <1>10 DEF Flight

\* The message that leaves the last place of its way is the next of its pair.
LEMMA Removed ==
    ASSUME NEW q \in Queues, NEW qq \in Queues, NEW a \in Places,
           NEW s \in [Pairs -> Nat], NEW h \in [Pairs -> Seq(Nat)], NEW hh,
           NEW m \in Message, NEW p \in Pairs,
           Flight(q, s, h),
           Ahead(q[a], m, p), LastPlace(a, p),
           Updated(q, qq, Places, a, Tail(q[a])),
           Updated(h, hh, Pairs, p, Append(h[p], m.n))
    PROVE  /\ m.n = Len(h[p]) + 1
           /\ Len(h[p]) < s[p]
           /\ Flight(qq, s, hh)
  <1>1. \A c \in Places : q[c] \in Seq(Message) /\ Len(q[c]) \in Nat
    <2>1. \A c \in Places : q[c] \in Seq(Message)
      BY DEF Queues
    <2>2. QED
      BY <2>1, LenProperties
  <1>2. /\ Len(q[a]) >= 1 /\ m = q[a][1] /\ 1 \in 1..Len(q[a])
        /\ Len(qq[a]) = Len(q[a]) - 1
        /\ \A j \in 1..Len(q[a]) - 1 : qq[a][j] = q[a][j + 1]
    <2>1. q[a] \in Seq(Message)
      BY <1>1
    <2>2. Len(q[a]) >= 1
      BY <1>1, <2>1, EmptySeq DEF Ahead
    <2>3. m = q[a][1] /\ 1 \in 1..Len(q[a])
      BY <1>1, <2>1, <2>2 DEF Ahead
    <2>4. /\ Len(qq[a]) = Len(q[a]) - 1
          /\ \A j \in 1..Len(q[a]) - 1 : qq[a][j] = q[a][j + 1]
      BY <2>1, HeadTailProperties DEF Updated, Ahead
    <2>5. QED
      BY <2>2, <2>3, <2>4
  <1>3. \A c \in Places \ {a} : qq[c] = q[c]
    BY DEF Updated
  <1>4. ASSUME NEW c \in Places, NEW j \in 1..Len(q[c])
        PROVE  /\ q[c][j] \in Message
               /\ q[c][j].n \in Nat
               /\ PairOf(q[c][j]) \in Pairs
               /\ Home(c, q[c][j])
               /\ Len(h[PairOf(q[c][j])]) < q[c][j].n
               /\ q[c][j].n <= s[PairOf(q[c][j])]
    <2>1. q[c][j] \in Message /\ Home(c, q[c][j])
      BY <1>1 DEF AtHome, Flight
    <2>2. q[c][j].n \in Nat /\ PairOf(q[c][j]) \in Pairs
      BY <2>1, PeersAssumption DEF Message, Home
    <2>3. QED
      BY <2>1, <2>2 DEF Window, Flight
  <1>5. \A r \in Pairs : Len(h[r]) \in Nat /\ s[r] \in Nat
    <2>1. \A r \in Pairs : h[r] \in Seq(Nat)
      OBVIOUS
    <2>2. QED
      BY <2>1, LenProperties
  <1>6. Len(h[p]) < m.n /\ m.n <= s[p] /\ m.n \in Nat /\ p = PairOf(m)
    BY <1>2, <1>4 DEF Ahead
  \* Any other message of the pair was sent later.
  <1>7. ASSUME NEW c \in Places, NEW j \in 1..Len(q[c]), PairOf(q[c][j]) = p,
               ~(c = a /\ j = 1)
        PROVE  m.n < q[c][j].n
    <2>1. Home(c, q[c][j]) /\ q[c][j] \in Message /\ Home(a, m)
      BY <1>2, <1>4
    <2>2. Rank(c) <= Rank(a)
      BY <1>7, <2>1 DEF LastPlace
    <2>3. CASE Rank(c) < Rank(a)
      BY <1>2, <1>6, <1>7, <2>3 DEF Ordered, Flight
    <2>4. CASE Rank(c) = Rank(a)
      <3>1. c = a
        BY <1>6, <1>7, <2>1, <2>4, SameRank
      <3>2. 1 < j
        BY <1>1, <1>7, <3>1
      <3>3. QED
        BY <1>2, <1>6, <1>7, <3>1, <3>2 DEF Ordered, Flight
    <2>5. Rank(c) \in 1..6 /\ Rank(a) \in 1..6
      BY ONLY RankType
    <2>6. QED
      BY <2>2, <2>3, <2>4, <2>5
  <1>8. m.n = Len(h[p]) + 1
    <2>1. SUFFICES ASSUME Len(h[p]) + 1 < m.n
                   PROVE  FALSE
      BY <1>5, <1>6
    <2> DEFINE n == Len(h[p]) + 1
               x == [from |-> p[1], PeerID |-> p[2], n |-> n]
    <2>2. n \in Nat /\ Len(h[p]) < n /\ n <= s[p]
      BY <1>5, <1>6, <2>1
    <2>3. PICK c \in Places : \E j \in 1..Len(q[c]) : q[c][j] = x
      BY <2>2 DEF Complete, Flight
    <2>4. PICK j \in 1..Len(q[c]) : q[c][j] = x
      BY <2>3
    <2>5. PairOf(q[c][j]) = p
      BY <2>4, PeersAssumption DEF PairOf
    <2>6. q[c][j].n = n
      BY <2>4
    <2> HIDE DEF n
    <2>7. CASE c = a /\ j = 1
      BY <1>2, <1>5, <1>6, <2>1, <2>6, <2>7 DEF n
    <2>8. CASE ~(c = a /\ j = 1)
      <3>1. m.n < n
        BY <1>7, <2>5, <2>6, <2>8
      <3>2. QED
        BY <1>5, <1>6, <2>1, <3>1 DEF n
    <2>9. QED
      BY <2>7, <2>8
  <1>9. /\ Len(hh[p]) = m.n
        /\ \A r \in Pairs : r # p => hh[r] = h[r]
    <2>1. h[p] \in Seq(Nat) /\ hh[p] = Append(h[p], m.n)
      BY DEF Updated
    <2>2. Len(hh[p]) = Len(h[p]) + 1
      BY <1>6, <2>1, AppendProperties
    <2>3. QED
      BY <1>8, <2>2 DEF Updated
  <1>10. ASSUME NEW c \in Places, NEW j \in 1..Len(qq[c])
        PROVE  \E k \in 1..Len(q[c]) : /\ qq[c][j] = q[c][k]
                                       /\ k = (IF c = a THEN j + 1 ELSE j)
    <2>1. CASE c = a
      <3>1. Len(q[a]) \in Nat /\ j \in 1..Len(q[a]) - 1
        BY <1>1, <1>2, <2>1
      <3>2. j + 1 \in 1..Len(q[a])
        BY <3>1
      <3>3. qq[a][j] = q[a][j + 1]
        BY <1>2, <3>1
      <3>4. QED
        BY <2>1, <3>2, <3>3
    <2>2. CASE c # a
      BY <1>3, <2>2
    <2>3. QED
      BY <2>1, <2>2
  <1>11. AtHome(qq)
    BY <1>4, <1>10 DEF AtHome
  <1>12. Ordered(qq)
    <2>1. SUFFICES ASSUME NEW c \in Places, NEW d \in Places,
                          NEW j \in 1..Len(qq[c]), NEW k \in 1..Len(qq[d]),
                          PairOf(qq[c][j]) = PairOf(qq[d][k]),
                          Rank(c) > Rank(d) \/ (c = d /\ j < k)
                   PROVE  qq[c][j].n < qq[d][k].n
      BY DEF Ordered
    <2>2. PICK jj \in 1..Len(q[c]) : /\ qq[c][j] = q[c][jj]
                                     /\ jj = (IF c = a THEN j + 1 ELSE j)
      BY <1>10
    <2>3. PICK kk \in 1..Len(q[d]) : /\ qq[d][k] = q[d][kk]
                                     /\ kk = (IF d = a THEN k + 1 ELSE k)
      BY <1>10
    <2>4. Rank(c) > Rank(d) \/ (c = d /\ jj < kk)
      BY <2>1, <2>2, <2>3
    <2>5. PairOf(q[c][jj]) = PairOf(q[d][kk])
      BY <2>1, <2>2, <2>3
    <2>6. q[c][jj].n < q[d][kk].n
      BY <2>4, <2>5 DEF Ordered, Flight
    <2>7. QED
      BY <2>2, <2>3, <2>6
  <1>13. Window(qq, s, hh)
    <2>1. SUFFICES ASSUME NEW c \in Places, NEW j \in 1..Len(qq[c])
                   PROVE  /\ Len(hh[PairOf(qq[c][j])]) < qq[c][j].n
                          /\ qq[c][j].n <= s[PairOf(qq[c][j])]
      BY DEF Window
    <2>2. PICK k \in 1..Len(q[c]) : /\ qq[c][j] = q[c][k]
                                    /\ k = (IF c = a THEN j + 1 ELSE j)
      BY <1>10
    <2>3. qq[c][j] = q[c][k] /\ ~(c = a /\ k = 1)
      BY <2>2
    <2>4. CASE PairOf(q[c][k]) = p
      BY <1>4, <1>7, <1>9, <2>3, <2>4
    <2>5. CASE PairOf(q[c][k]) # p
      BY <1>4, <1>9, <2>3, <2>5
    <2>6. QED
      BY <2>4, <2>5
  <1>14. Complete(qq, s, hh)
    <2>1. SUFFICES ASSUME NEW r \in Pairs, NEW n \in Nat, Len(hh[r]) < n, n <= s[r]
                   PROVE  \E d \in Places : \E k \in 1..Len(qq[d]) :
                              qq[d][k] = [from |-> r[1], PeerID |-> r[2], n |-> n]
      BY DEF Complete
    <2> DEFINE x == [from |-> r[1], PeerID |-> r[2], n |-> n]
    <2>2. Len(h[r]) < n
      <3>1. CASE r = p
        BY <1>5, <1>8, <1>9, <2>1, <3>1
      <3>2. CASE r # p
        BY <1>9, <2>1, <3>2
      <3>3. QED
        BY <3>1, <3>2
    <2>3. PICK c \in Places : \E j \in 1..Len(q[c]) : q[c][j] = x
      BY <2>1, <2>2 DEF Complete, Flight
    <2>4. PICK j \in 1..Len(q[c]) : q[c][j] = x
      BY <2>3
    <2>5. ~(c = a /\ j = 1)
      <3>1. SUFFICES ASSUME q[c][j] = m
                     PROVE  FALSE
        BY <1>2
      <3>2. m.n = n /\ m.from = r[1] /\ m.PeerID = r[2]
        BY <2>4, <3>1
      <3>3. p = r
        BY <1>6, <3>2, PeersAssumption DEF PairOf
      <3>4. QED
        BY <1>6, <1>9, <2>1, <3>2, <3>3
    <2>6. \E k \in 1..Len(qq[c]) : qq[c][k] = q[c][j]
      <3>1. CASE c = a
        <4>1. Len(q[a]) \in Nat /\ j \in 2..Len(q[a])
          BY <1>1, <2>5, <3>1
        <4>2. j - 1 \in 1..Len(qq[a]) /\ j - 1 + 1 = j
          BY <1>2, <4>1
        <4>3. qq[a][j - 1] = q[a][j]
          BY <1>2, <4>1, <4>2
        <4>4. QED
          BY <3>1, <4>2, <4>3
      <3>2. CASE c # a
        BY <1>3, <3>2
      <3>3. QED
        BY <3>1, <3>2
    <2>7. QED
      BY <2>4, <2>6
  <1>15. QED
    BY <1>5, <1>6, <1>8, <1>11, <1>12, <1>13, <1>14 DEF Flight

-----------------------------------------------------------------------------
(* What the variables say about the places.                                *)

LEMMA QueueType ==
    ASSUME NEW o \in [Parties -> Seq(Message)], NEW t \in [Links -> Seq(Message)],
           NEW w \in [Links -> Seq(Message)]
    PROVE  Queue(o, t, w) \in Queues
  BY DEF Queue, Queues, Places

LEMMA OutAt ==
    ASSUME NEW o, NEW t, NEW w, NEW p \in Parties
    PROVE  <<"out", p>> \in Places /\ Queue(o, t, w)[<<"out", p>>] = o[p]
  BY DEF Queue, Places

LEMMA TssAt ==
    ASSUME NEW o, NEW t, NEW w, NEW l \in Links
    PROVE  <<"tss", l>> \in Places /\ Queue(o, t, w)[<<"tss", l>>] = t[l]
  BY DEF Queue, Places

LEMMA WireAt ==
    ASSUME NEW o, NEW t, NEW w, NEW l \in Links
    PROVE  <<"wire", l>> \in Places /\ Queue(o, t, w)[<<"wire", l>>] = w[l]
  BY DEF Queue, Places

LEMMA SetOut ==
    ASSUME NEW o, NEW t, NEW w, NEW oo, NEW p \in Parties, NEW v,
           Updated(o, oo, Parties, p, v)
    PROVE  Updated(Queue(o, t, w), Queue(oo, t, w), Places, <<"out", p>>, v)
  <1> DEFINE e == <<"out", p>>
             L == Queue(oo, t, w)
  <1>1. e \in Places /\ L[e] = v
    BY DEF Queue, Places, Updated
  <1>2. ASSUME NEW a \in Places, a # e
        PROVE  L[a] = Queue(o, t, w)[a]
    <2>1. /\ a[1] = "out" => a[2] # p /\ a[2] \in Parties
          /\ a[1] \in {"out", "tss", "wire"}
      BY <1>2 DEF Places
    <2>2. CASE a[1] = "out"
      BY <2>1, <2>2 DEF Queue, Updated
    <2>3. CASE a[1] # "out"
      BY <2>1, <2>3 DEF Queue
    <2>4. QED
      BY <2>2, <2>3
  <1>3. QED
    BY <1>1, <1>2 DEF Updated

LEMMA SetTss ==
    ASSUME NEW o, NEW t, NEW w, NEW tt, NEW l \in Links, NEW v,
           Updated(t, tt, Links, l, v)
    PROVE  Updated(Queue(o, t, w), Queue(o, tt, w), Places, <<"tss", l>>, v)
  <1> DEFINE e == <<"tss", l>>
             L == Queue(o, tt, w)
  <1>1. e \in Places /\ L[e] = v
    BY DEF Queue, Places, Updated
  <1>2. ASSUME NEW a \in Places, a # e
        PROVE  L[a] = Queue(o, t, w)[a]
    <2>1. /\ a[1] = "tss" => a[2] # l /\ a[2] \in Links
          /\ a[1] \in {"out", "tss", "wire"}
      BY <1>2 DEF Places
    <2>2. CASE a[1] = "tss"
      BY <2>1, <2>2 DEF Queue, Updated
    <2>3. CASE a[1] # "tss"
      BY <2>1, <2>3 DEF Queue
    <2>4. QED
      BY <2>2, <2>3
  <1>3. QED
    BY <1>1, <1>2 DEF Updated

LEMMA SetWire ==
    ASSUME NEW o, NEW t, NEW w, NEW ww, NEW l \in Links, NEW v,
           Updated(w, ww, Links, l, v)
    PROVE  Updated(Queue(o, t, w), Queue(o, t, ww), Places, <<"wire", l>>, v)
  <1> DEFINE e == <<"wire", l>>
             L == Queue(o, t, ww)
  <1>1. e \in Places /\ L[e] = v
    BY DEF Queue, Places, Updated
  <1>2. ASSUME NEW a \in Places, a # e
        PROVE  L[a] = Queue(o, t, w)[a]
    <2>1. /\ a[1] = "wire" => a[2] # l /\ a[2] \in Links
          /\ a[1] \in {"out", "tss", "wire"}
      BY <1>2 DEF Places
    <2>2. CASE a[1] = "wire"
      BY <2>1, <2>2 DEF Queue, Updated
    <2>3. CASE a[1] # "wire"
      BY <2>1, <2>3 DEF Queue
    <2>4. QED
      BY <2>2, <2>3
  <1>3. QED
    BY <1>1, <1>2 DEF Updated

-----------------------------------------------------------------------------
(* The steps.                                                              *)

LEMMA TypeFacts ==
    ASSUME TypeOK
    PROVE  /\ queue \in Queues
           /\ DOMAIN outwardMessages = Parties /\ DOMAIN tssMsg = Links /\ DOMAIN wire = Links
           /\ sent \in [Pairs -> Nat]
           /\ handled \in [Pairs -> Seq(Nat)]
           /\ \A p \in Pairs : Len(handled[p]) \in Nat
  <1>1. queue \in Queues
    BY QueueType DEF TypeOK, queue
  <1>2. handled \in [Pairs -> Seq(Nat)]
    <2>1. \A p \in Pairs : handled[p] \in Seq(Nat)
      <3>1. SUFFICES ASSUME NEW p \in Pairs
                     PROVE  handled[p] \in Seq(Nat)
        OBVIOUS
      <3>2. handled[p] \in Seq(1..MaxSends)
        BY DEF TypeOK
      <3>3. QED
        BY <3>2, PeersAssumption
    <2>2. QED
      BY <2>1 DEF TypeOK
  <1>3. sent \in [Pairs -> Nat]
    BY PeersAssumption DEF TypeOK
  <1>4. \A p \in Pairs : handled[p] \in Seq(Nat)
    BY <1>2
  <1>5. QED
    BY <1>1, <1>2, <1>3, <1>4, LenProperties DEF TypeOK

LEMMA PairType ==
    ASSUME NEW p \in Pairs
    PROVE  /\ p = <<p[1], p[2]>> /\ p[1] \in Parties /\ p[2] \in Parties /\ p[1] # p[2]
  BY PeersAssumption

LEMMA SendStep ==
    ASSUME IInv, NEW p \in Pairs, ServiceSends(p)
    PROVE  IInv'
  <1> DEFINE m == [from |-> p[1], PeerID |-> p[2], n |-> sent[p] + 1]
             a == <<"out", p[1]>>
             v == Append(outwardMessages[p[1]], m)
  <1>1. TypeOK /\ OneHeld /\ Behind(sent, handled) /\ Flight(queue, sent, handled)
    BY DEF IInv
  <1>2. /\ queue \in Queues
        /\ DOMAIN outwardMessages = Parties /\ DOMAIN tssMsg = Links /\ DOMAIN wire = Links
        /\ sent \in [Pairs -> Nat]
        /\ \A r \in Pairs : Len(handled[r]) \in Nat
    BY <1>1, TypeFacts
  <1>3. /\ outwardMessages' = [outwardMessages EXCEPT ![p[1]] = v]
        /\ tssMsg' = tssMsg /\ wire' = wire /\ handled' = handled
        /\ sent' = [sent EXCEPT ![p] = @ + 1]
        /\ sent[p] < MaxSends
    BY DEF ServiceSends, MustSend
  <1>4. m \in Message /\ PairOf(m) = p
    <2>1. sent[p] + 1 \in 1..MaxSends
      BY <1>2, <1>3, PeersAssumption
    <2>2. QED
      BY <2>1, PairType DEF Message, PairOf
  <1>5. p[1] \in Parties /\ a \in Places /\ queue[a] = outwardMessages[p[1]]
    BY PairType, OutAt DEF queue
  <1>6. TypeOK'
    <2>1. v \in Seq(Message)
      BY <1>1, <1>4, <1>5 DEF TypeOK
    <2> HIDE DEF v
    <2>2. outwardMessages' \in [Parties -> Seq(Message)]
      BY <1>1, <1>3, <1>5, <2>1 DEF TypeOK
    <2>3. sent' \in [Pairs -> 0..MaxSends]
      BY <1>1, <1>3, PeersAssumption DEF TypeOK
    <2>4. QED
      BY <1>1, <1>3, <2>2, <2>3 DEF TypeOK
  <1>7. OneHeld'
    BY <1>1, <1>3 DEF OneHeld
  <1>8. Behind(sent', handled')
    BY <1>1, <1>2, <1>3 DEF Behind
  <1>9. queue' \in Queues
    BY <1>6, QueueType DEF TypeOK, queue
  <1>10. Updated(queue, queue', Places, a, Append(queue[a], m))
    <2> HIDE DEF v
    <2>1. queue' = Queue(outwardMessages', tssMsg, wire)
      BY <1>3 DEF queue
    <2>2. queue = Queue(outwardMessages, tssMsg, wire)
      BY DEF queue
    <2>3. Updated(outwardMessages, outwardMessages', Parties, p[1], v)
      BY <1>2, <1>3, <1>5 DEF Updated
    <2>4. Updated(queue, queue', Places, a, v)
      BY <1>5, <2>1, <2>2, <2>3, SetOut
    <2>5. QED
      BY <1>5, <2>4 DEF v
  <1>11. Home(a, m)
    BY <1>4, PairType DEF Home, Rank, ClientOf
  <1>12. ASSUME NEW d \in Places, NEW x \in Message, Home(d, x), PairOf(x) = p
         PROVE  Rank(d) >= Rank(a)
    <2>1. CASE p[1] # Server
      BY <2>1, RankType DEF Rank
    <2>2. CASE p[1] = Server
      <3>1. Rank(a) = 4 /\ x.from = Server
        BY <1>12, <2>2 DEF Rank, PairOf
      <3>2. Rank(d) <= 3 => ClientOf(d) # Server
        BY PeersAssumption DEF Rank, ClientOf, Places, Links, Parties
      <3>3. Rank(d) \in 1..6
        BY RankType
      <3>4. QED
        BY <1>12, <3>1, <3>2, <3>3 DEF Home
    <2>3. QED
      BY <2>1, <2>2
  <1>13. FirstPlace(a, p)
    BY <1>12 DEF FirstPlace
  <1> HIDE DEF a, v
  <1>14. Flight(queue', sent', handled)
    <2>1. Len(handled[p]) \in Nat /\ Len(handled[p]) <= sent[p]
      BY <1>1, <1>2 DEF Behind
    <2>2. m = [from |-> p[1], PeerID |-> p[2], n |-> sent[p] + 1]
      BY DEF m
    <2>3. Updated(sent, sent', Pairs, p, sent[p] + 1) /\ sent' \in [Pairs -> Nat]
      BY <1>2, <1>3 DEF Updated
    <2> HIDE DEF m
    <2>4. QED
      BY <1>1, <1>2, <1>4, <1>5, <1>9, <1>10, <1>11, <1>13, <2>1, <2>2, <2>3, Added
  <1>15. QED
    BY <1>3, <1>6, <1>7, <1>8, <1>14 DEF IInv

\* One place loses message i and another one gets it.
LEMMA TwoUpdates ==
    ASSUME NEW q, NEW q1, NEW qq, NEW a \in Places, NEW b \in Places, a # b, NEW i,
           Updated(q, q1, Places, a, RemoveAt(q[a], i)),
           Updated(q1, qq, Places, b, Append(q[b], q[a][i]))
    PROVE  Passed(q, qq, a, i, b)
  BY DEF Updated, Passed

LEMMA LinkType ==
    ASSUME NEW l \in Links
    PROVE  /\ l[1] \in Parties /\ l[2] \in Parties
           /\ l[1] = Server <=> l[2] # Server
           /\ l = <<l[1], l[2]>>
  BY PeersAssumption DEF Links, Parties

LEMMA TakeStep ==
    ASSUME IInv, NEW l \in Links, NEW i \in 1..Len(outwardMessages[l[1]]), Take(l[1], l, i),
           Foremost(outwardMessages[l[1]], i),
           Home(<<"tss", l>>, outwardMessages[l[1]][i])
    PROVE  IInv'
  <1> DEFINE p == l[1]
             a == <<"out", p>>
             b == <<"tss", l>>
             m == outwardMessages[p][i]
             v == RemoveAt(outwardMessages[p], i)
  <1>1. TypeOK /\ OneHeld /\ Behind(sent, handled) /\ Flight(queue, sent, handled)
    BY DEF IInv
  <1>2. /\ queue \in Queues
        /\ DOMAIN outwardMessages = Parties /\ DOMAIN tssMsg = Links /\ DOMAIN wire = Links
    BY <1>1, TypeFacts
  <1>3. /\ outwardMessages' = [outwardMessages EXCEPT ![p] = v]
        /\ tssMsg[l] = <<>>
        /\ tssMsg' = [tssMsg EXCEPT ![l] = <<m>>]
        /\ wire' = wire /\ handled' = handled /\ sent' = sent
    BY DEF Take
  <1>4. /\ p \in Parties /\ a \in Places /\ b \in Places /\ a # b
        /\ queue[a] = outwardMessages[p] /\ queue[b] = <<>>
    <2>1. queue = Queue(outwardMessages, tssMsg, wire)
      BY DEF queue
    <2>2. p \in Parties
      BY LinkType
    <2>3. a # b
      OBVIOUS
    <2> HIDE DEF p
    <2>4. QED
      BY <1>3, <2>1, <2>2, <2>3, OutAt, TssAt
  <1>5. m \in Message /\ v \in Seq(Message)
    BY <1>1, <1>4, RemoveAtEffect DEF TypeOK
  <1> HIDE DEF m, v, p
  <1>6. TypeOK'
    <2>1. outwardMessages' \in [Parties -> Seq(Message)]
      BY <1>1, <1>3, <1>4, <1>5 DEF TypeOK
    <2>2. tssMsg' \in [Links -> Seq(Message)]
      <3>1. <<m>> \in Seq(Message)
        BY <1>5
      <3>2. QED
        BY <1>1, <1>3, <3>1 DEF TypeOK
    <2>3. QED
      BY <1>1, <1>3, <2>1, <2>2 DEF TypeOK
  <1>7. OneHeld'
    <2>1. Len(<<m>>) = 1
      OBVIOUS
    <2>2. QED
      BY <1>1, <1>2, <1>3, <2>1 DEF OneHeld
  <1>8. Passed(queue, queue', a, i, b)
    <2>1. /\ queue = Queue(outwardMessages, tssMsg, wire)
          /\ queue' = Queue(outwardMessages', tssMsg', wire)
      BY <1>3 DEF queue
    <2> DEFINE q1 == Queue(outwardMessages', tssMsg, wire)
    <2>2. Updated(outwardMessages, outwardMessages', Parties, p, v)
      BY <1>2, <1>3, <1>4 DEF Updated
    <2>3. Updated(tssMsg, tssMsg', Links, l, <<m>>)
      BY <1>2, <1>3 DEF Updated
    <2>4. Updated(queue, q1, Places, a, v)
      BY <1>4, <2>1, <2>2, SetOut
    <2>5. Updated(q1, queue', Places, b, <<m>>)
      BY <1>4, <2>1, <2>3, SetTss
    <2>6. v = RemoveAt(queue[a], i) /\ <<m>> = Append(queue[b], queue[a][i])
      BY <1>4 DEF v, m
    <2> HIDE DEF q1, a, b
    <2>7. QED
      BY <1>4, <2>4, <2>5, <2>6, TwoUpdates
  <1>9. queue' \in Queues
    BY <1>6, QueueType DEF TypeOK, queue
  <1>10. Rank(b) = Rank(a) + 1
    BY PeersAssumption, LinkType DEF Rank, p
  <1>11. i \in 1..Len(queue[a]) /\ Foremost(queue[a], i) /\ Home(b, queue[a][i])
    BY <1>4 DEF p
  <1>12. Flight(queue', sent, handled)
    <2> HIDE DEF a, b
    <2>1. QED
      BY <1>1, <1>2, <1>4, <1>8, <1>9, <1>10, <1>11, Moved
  <1>13. QED
    BY <1>1, <1>3, <1>6, <1>7, <1>12 DEF IInv

LEMMA TakeAllStep ==
    ASSUME IInv, NEW c \in Clients, GetNextMessageToSendAll(c)
    PROVE  IInv'
  <1> DEFINE l == <<c, Server>>
             s == outwardMessages[c]
  <1>1. l \in Links /\ l[1] = c /\ c \in Parties /\ c # Server
    BY PeersAssumption DEF Links, Parties
  <1>2. s \in Seq(Message) /\ s # <<>> /\ Take(c, l, 1)
    BY <1>1 DEF GetNextMessageToSendAll, IInv, TypeOK
  <1>3. 1 \in 1..Len(s) /\ Foremost(s, 1)
    BY <1>2 DEF Foremost
  <1>4. Home(<<"out", c>>, s[1])
    <2>1. <<"out", c>> \in Places /\ queue[<<"out", c>>] = s
      BY <1>1, OutAt DEF queue
    <2>2. QED
      BY <1>3, <2>1 DEF IInv, Flight, AtHome
  <1>5. Home(<<"tss", l>>, s[1])
    BY <1>1, <1>4 DEF Home, Rank, ClientOf
  <1>6. QED
    BY <1>1, <1>2, <1>3, <1>5, TakeStep

LEMMA TakePeerStep ==
    ASSUME IInv, NEW c \in Clients, GetNextMessageToSendPeer(c)
    PROVE  IInv'
  <1> DEFINE l == <<Server, c>>
             s == outwardMessages[Server]
  <1>1. l \in Links /\ l[1] = Server /\ Server \in Parties /\ c # Server
    BY PeersAssumption DEF Links, Parties
  <1>2. PICK i \in 1..Len(s) : /\ s[i].PeerID = c
                               /\ \A j \in 1..i - 1 : s[j].PeerID # c
                               /\ Take(Server, l, i)
    BY DEF GetNextMessageToSendPeer
  <1>3. Foremost(s, i)
    BY <1>2 DEF Foremost, PairOf
  <1>4. Home(<<"out", Server>>, s[i])
    <2>1. <<"out", Server>> \in Places /\ queue[<<"out", Server>>] = s
      BY <1>1, OutAt DEF queue
    <2>2. QED
      BY <2>1 DEF IInv, Flight, AtHome
  <1>5. Home(<<"tss", l>>, s[i])
    BY <1>1, <1>2, <1>4 DEF Home, Rank, ClientOf
  <1>6. QED
    BY <1>1, <1>2, <1>3, <1>5, TakeStep

LEMMA SendTssStep ==
    ASSUME IInv, NEW l \in Links, TssSend(l)
    PROVE  IInv'
  <1> DEFINE a == <<"tss", l>>
             b == <<"wire", l>>
             m == tssMsg[l][1]
  <1>1. TypeOK /\ OneHeld /\ Behind(sent, handled) /\ Flight(queue, sent, handled)
    BY DEF IInv
  <1>2. /\ queue \in Queues
        /\ DOMAIN outwardMessages = Parties /\ DOMAIN tssMsg = Links /\ DOMAIN wire = Links
    BY <1>1, TypeFacts
  <1>3. /\ tssMsg[l] # <<>>
        /\ wire' = [wire EXCEPT ![l] = wire[l] \o tssMsg[l]]
        /\ tssMsg' = [tssMsg EXCEPT ![l] = <<>>]
        /\ outwardMessages' = outwardMessages /\ handled' = handled /\ sent' = sent
    BY DEF TssSend
  <1>4. /\ a \in Places /\ b \in Places /\ a # b
        /\ queue[a] = tssMsg[l] /\ queue[b] = wire[l]
    <2>1. queue = Queue(outwardMessages, tssMsg, wire)
      BY DEF queue
    <2>2. QED
      BY <2>1, TssAt, WireAt
  <1>5. tssMsg[l] \in Seq(Message) /\ wire[l] \in Seq(Message)
    BY <1>1 DEF TypeOK
  <1>6. tssMsg[l] = <<m>> /\ m \in Message /\ 1 \in 1..Len(tssMsg[l])
    <2>1. Len(tssMsg[l]) <= 1
      BY <1>1 DEF OneHeld
    <2>2. Len(tssMsg[l]) \in Nat /\ Len(tssMsg[l]) # 0
      BY <1>3, <1>5, EmptySeq, LenProperties
    <2>3. \A n \in Nat : n <= 1 /\ n # 0 => n = 1
      OBVIOUS
    <2>4. Len(tssMsg[l]) = 1
      BY <2>1, <2>2, <2>3
    <2>5. QED
      BY <1>5, <2>4
  <1> HIDE DEF m
  <1>7. wire[l] \o tssMsg[l] = Append(wire[l], m) /\ RemoveAt(tssMsg[l], 1) = <<>>
    <2>1. wire[l] \o <<m>> = Append(wire[l], m)
      BY <1>5, <1>6
    <2>2. RemoveAt(<<m>>, 1) \in Seq(Message) /\ Len(RemoveAt(<<m>>, 1)) = 0
      <3>1. <<m>> \in Seq(Message) /\ Len(<<m>>) = 1 /\ 1 \in 1..Len(<<m>>)
        BY <1>6
      <3>2. /\ RemoveAt(<<m>>, 1) \in Seq(Message)
            /\ Len(RemoveAt(<<m>>, 1)) = Len(<<m>>) - 1
        BY <3>1, RemoveAtEffect
      <3>3. QED
        BY <3>1, <3>2
    <2>3. QED
      BY <1>6, <2>1, <2>2, EmptySeq
  <1>8. TypeOK'
    <2>1. Append(wire[l], m) \in Seq(Message) /\ <<>> \in Seq(Message)
      BY <1>5, <1>6
    <2>2. QED
      BY <1>1, <1>3, <1>7, <2>1 DEF TypeOK
  <1>9. OneHeld'
    <2>1. Len(<<>>) = 0
      OBVIOUS
    <2>2. QED
      BY <1>1, <1>2, <1>3, <2>1 DEF OneHeld
  <1>10. Passed(queue, queue', a, 1, b)
    <2>1. /\ queue = Queue(outwardMessages, tssMsg, wire)
          /\ queue' = Queue(outwardMessages, tssMsg', wire')
      BY <1>3 DEF queue
    <2> DEFINE q1 == Queue(outwardMessages, tssMsg', wire)
    <2>2. Updated(tssMsg, tssMsg', Links, l, <<>>)
      BY <1>2, <1>3 DEF Updated
    <2>3. Updated(wire, wire', Links, l, Append(wire[l], m))
      BY <1>2, <1>3, <1>7 DEF Updated
    <2>4. Updated(queue, q1, Places, a, <<>>)
      BY <2>1, <2>2, SetTss
    <2>5. Updated(q1, queue', Places, b, Append(wire[l], m))
      BY <2>1, <2>3, SetWire
    <2>6. RemoveAt(queue[a], 1) = <<>> /\ Append(queue[b], queue[a][1]) = Append(wire[l], m)
      BY <1>4, <1>7 DEF m
    <2> HIDE DEF q1, a, b
    <2>7. QED
      BY <1>4, <2>4, <2>5, <2>6, TwoUpdates
  <1>11. queue' \in Queues
    BY <1>8, QueueType DEF TypeOK, queue
  <1>12. Rank(b) = Rank(a) + 1 /\ ClientOf(b) = ClientOf(a) /\ Rank(a) \in {2, 5}
    BY DEF Rank, ClientOf
  <1>13. 1 \in 1..Len(queue[a]) /\ Foremost(queue[a], 1)
    BY <1>4, <1>6 DEF Foremost
  <1>14. Home(b, queue[a][1])
    <2>1. Home(a, queue[a][1])
      BY <1>1, <1>4, <1>13 DEF Flight, AtHome
    <2> HIDE DEF a, b
    <2>2. QED
      BY <1>12, <2>1 DEF Home
  <1>15. Flight(queue', sent, handled)
    <2> HIDE DEF a, b
    <2>1. QED
      BY <1>1, <1>2, <1>4, <1>10, <1>11, <1>12, <1>13, <1>14, Moved
  <1>16. QED
    BY <1>1, <1>3, <1>8, <1>9, <1>15 DEF IInv

\* What the reader of a link finds.
LEMMA ReceiveFacts ==
    ASSUME IInv, NEW l \in Links, Receive(l)
    PROVE  /\ wire[l] \in Seq(Message) /\ wire[l] # <<>>
           /\ <<"wire", l>> \in Places /\ queue[<<"wire", l>>] = wire[l]
           /\ 1 \in 1..Len(wire[l]) /\ Head(wire[l]) = wire[l][1]
           /\ Head(wire[l]) \in Message
           /\ Tail(wire[l]) \in Seq(Message)
           /\ RemoveAt(wire[l], 1) = Tail(wire[l])
           /\ Home(<<"wire", l>>, Head(wire[l]))
           /\ PairOf(Head(wire[l])) \in Pairs
  <1>1. wire[l] \in Seq(Message) /\ wire[l] # <<>>
    BY DEF IInv, TypeOK, Receive
  <1>2. <<"wire", l>> \in Places /\ queue[<<"wire", l>>] = wire[l]
    <2>1. queue = Queue(outwardMessages, tssMsg, wire)
      BY DEF queue
    <2>2. QED
      BY <2>1, WireAt
  <1>3. /\ 1 \in 1..Len(wire[l]) /\ Head(wire[l]) = wire[l][1]
        /\ Head(wire[l]) \in Message /\ Tail(wire[l]) \in Seq(Message)
    BY <1>1
  <1>4. RemoveAt(wire[l], 1) = Tail(wire[l])
    <2>1. RemoveAt(wire[l], 1) = SubSeq(wire[l], 1, 0) \o SubSeq(wire[l], 2, Len(wire[l]))
      BY DEF RemoveAt
    <2>2. SubSeq(wire[l], 1, 0) = <<>> /\ SubSeq(wire[l], 2, Len(wire[l])) = Tail(wire[l])
      BY <1>1
    <2>3. QED
      BY <1>3, <2>1, <2>2, ConcatEmptySeq
  <1>5. Home(<<"wire", l>>, Head(wire[l]))
    BY <1>2, <1>3 DEF IInv, Flight, AtHome
  <1>6. QED
    BY <1>1, <1>2, <1>3, <1>4, <1>5 DEF Home

\* The server passes a message on.
LEMMA RelayStep ==
    ASSUME IInv, NEW l \in Links, Receive(l), Head(wire[l]).PeerID # l[2]
    PROVE  IInv' /\ sent' = sent /\ handled' = handled
  <1> DEFINE a == <<"wire", l>>
             b == <<"out", l[2]>>
             m == Head(wire[l])
             v == Append(outwardMessages[l[2]], m)
  <1>1. TypeOK /\ OneHeld /\ Behind(sent, handled) /\ Flight(queue, sent, handled)
    BY DEF IInv
  <1>2. /\ queue \in Queues
        /\ DOMAIN outwardMessages = Parties /\ DOMAIN tssMsg = Links /\ DOMAIN wire = Links
    BY <1>1, TypeFacts
  <1>3. /\ wire' = [wire EXCEPT ![l] = Tail(wire[l])]
        /\ outwardMessages' = [outwardMessages EXCEPT ![l[2]] = v]
        /\ tssMsg' = tssMsg /\ handled' = handled /\ sent' = sent
    BY DEF Receive, HandleMessage, MustSend
  <1>4. /\ wire[l] \in Seq(Message) /\ wire[l] # <<>>
        /\ a \in Places /\ queue[a] = wire[l]
        /\ 1 \in 1..Len(wire[l]) /\ m = wire[l][1]
        /\ m \in Message
        /\ Tail(wire[l]) \in Seq(Message)
        /\ RemoveAt(wire[l], 1) = Tail(wire[l])
        /\ Home(a, m)
    BY ReceiveFacts
  <1>5. l[2] \in Parties /\ l[2] = Server
    <2>1. l[2] \in Parties /\ (l[1] = Server <=> l[2] # Server)
      BY LinkType
    <2>2. l[1] = Server => m.PeerID = l[2]
      BY <1>4 DEF Home, Rank, ClientOf
    <2>3. QED
      BY <2>1, <2>2
  <1>6. b \in Places /\ a # b /\ queue[b] = outwardMessages[l[2]]
    <2>1. queue = Queue(outwardMessages, tssMsg, wire)
      BY DEF queue
    <2>2. QED
      BY <1>5, <2>1, OutAt
  <1>7. TypeOK'
    <2>1. v \in Seq(Message)
      BY <1>1, <1>4, <1>5 DEF TypeOK
    <2> HIDE DEF v, m
    <2>2. outwardMessages' \in [Parties -> Seq(Message)]
      BY <1>1, <1>3, <1>5, <2>1 DEF TypeOK
    <2>3. wire' \in [Links -> Seq(Message)]
      BY <1>1, <1>3, <1>4 DEF TypeOK
    <2>4. QED
      BY <1>1, <1>3, <2>2, <2>3 DEF TypeOK
  <1>8. OneHeld'
    BY <1>1, <1>3 DEF OneHeld
  <1>9. Passed(queue, queue', a, 1, b)
    <2>1. /\ queue = Queue(outwardMessages, tssMsg, wire)
          /\ queue' = Queue(outwardMessages', tssMsg, wire')
      BY <1>3 DEF queue
    <2> DEFINE q1 == Queue(outwardMessages, tssMsg, wire')
    <2> HIDE DEF v
    <2>2. Updated(wire, wire', Links, l, Tail(wire[l]))
      BY <1>2, <1>3 DEF Updated
    <2>3. Updated(outwardMessages, outwardMessages', Parties, l[2], v)
      BY <1>2, <1>3, <1>5 DEF Updated
    <2>4. Updated(queue, q1, Places, a, Tail(wire[l]))
      BY <2>1, <2>2, SetWire
    <2>5. Updated(q1, queue', Places, b, v)
      BY <1>5, <2>1, <2>3, SetOut
    <2>6. RemoveAt(queue[a], 1) = Tail(wire[l]) /\ Append(queue[b], queue[a][1]) = v
      BY <1>4, <1>6 DEF v
    <2> HIDE DEF q1, a, b
    <2>7. QED
      BY <1>4, <1>6, <2>4, <2>5, <2>6, TwoUpdates
  <1>10. queue' \in Queues
    BY <1>7, QueueType DEF TypeOK, queue
  <1>11. Rank(b) = Rank(a) + 1 /\ Rank(b) = 4
    BY <1>5, LinkType, PeersAssumption DEF Rank
  <1>12. 1 \in 1..Len(queue[a]) /\ Foremost(queue[a], 1)
    BY <1>4 DEF Foremost
  <1>13. Home(b, queue[a][1])
    <2>1. queue[a][1] = m /\ m.PeerID # Server
      BY <1>4, <1>5
    <2> HIDE DEF a, b, m
    <2>2. QED
      BY <1>4, <1>11, <2>1 DEF Home
  <1>14. Flight(queue', sent, handled)
    <2> HIDE DEF a, b
    <2>1. QED
      BY <1>1, <1>2, <1>4, <1>6, <1>9, <1>10, <1>11, <1>12, <1>13, Moved
  <1>15. QED
    BY <1>1, <1>3, <1>7, <1>8, <1>14 DEF IInv

\* A message arrives: it is the next of its pair.
LEMMA HandleStep ==
    ASSUME IInv, NEW l \in Links, Receive(l), Head(wire[l]).PeerID = l[2]
    PROVE  IInv' /\ \E p \in Pairs : Network!Handle(p)
  <1> DEFINE a == <<"wire", l>>
             m == Head(wire[l])
             p == PairOf(m)
  <1>1. TypeOK /\ OneHeld /\ Behind(sent, handled) /\ Flight(queue, sent, handled)
    BY DEF IInv
  <1>2. /\ queue \in Queues
        /\ DOMAIN outwardMessages = Parties /\ DOMAIN tssMsg = Links /\ DOMAIN wire = Links
        /\ sent \in [Pairs -> Nat]
        /\ handled \in [Pairs -> Seq(Nat)]
        /\ \A r \in Pairs : Len(handled[r]) \in Nat
    BY <1>1, TypeFacts
  <1>3. /\ wire' = [wire EXCEPT ![l] = Tail(wire[l])]
        /\ handled' = [handled EXCEPT ![p] = Append(handled[p], m.n)]
        /\ tssMsg' = tssMsg /\ outwardMessages' = outwardMessages /\ sent' = sent
    BY DEF Receive, HandleMessage, PairOf
  <1>4. /\ wire[l] # <<>>
        /\ a \in Places /\ queue[a] = wire[l]
        /\ m \in Message /\ p \in Pairs
        /\ Tail(wire[l]) \in Seq(Message)
        /\ Home(a, m)
    BY ReceiveFacts
  <1>5. LastPlace(a, p)
    <2>1. SUFFICES ASSUME NEW d \in Places, NEW x \in Message, Home(d, x), PairOf(x) = p
                   PROVE  Rank(d) <= Rank(a)
      BY DEF LastPlace
    <2>2. Rank(d) \in 1..6 /\ Rank(a) \in 1..6
      BY ONLY RankType
    <2>3. CASE l[1] = Server
      <3>1. Rank(a) = 6
        BY <2>3 DEF Rank
      <3>2. QED
        BY <2>2, <3>1
    <2>4. CASE l[1] # Server
      <3>1. Rank(a) = 3 /\ x.PeerID = Server
        BY <2>1, <2>4, LinkType DEF Rank, PairOf
      <3>2. Rank(d) # 4
        BY <2>1, <3>1 DEF Home
      <3>3. Rank(d) >= 5 => ClientOf(d) # Server
        BY PeersAssumption DEF Rank, ClientOf, Places, Links, Parties
      <3>4. ~(Rank(d) >= 5)
        BY <2>1, <3>1, <3>3 DEF Home
      <3>5. QED
        BY <2>2, <3>1, <3>2, <3>4
    <2>5. QED
      BY <2>3, <2>4
  <1> HIDE DEF m, p
  <1>6. Updated(queue, queue', Places, a, Tail(queue[a]))
    <2>1. /\ queue = Queue(outwardMessages, tssMsg, wire)
          /\ queue' = Queue(outwardMessages, tssMsg, wire')
      BY <1>3 DEF queue
    <2>2. Updated(wire, wire', Links, l, Tail(wire[l]))
      BY <1>2, <1>3 DEF Updated
    <2>3. Updated(queue, queue', Places, a, Tail(wire[l]))
      BY <2>1, <2>2, SetWire
    <2>4. QED
      BY <1>4, <2>3
  <1>7. Updated(handled, handled', Pairs, p, Append(handled[p], m.n))
    BY <1>2, <1>3, <1>4 DEF Updated
  <1>8. queue' \in Queues
    <2>1. wire' \in [Links -> Seq(Message)]
      BY <1>1, <1>3, <1>4 DEF TypeOK
    <2>2. queue' = Queue(outwardMessages, tssMsg, wire')
      BY <1>3 DEF queue
    <2>3. QED
      BY <1>1, <2>1, <2>2, QueueType DEF TypeOK
  <1>9. /\ m.n = Len(handled[p]) + 1
        /\ Len(handled[p]) < sent[p]
        /\ Flight(queue', sent, handled')
    <2>1. Ahead(queue[a], m, p)
      BY <1>4 DEF m, p, Ahead
    <2>2. Flight(queue, sent, handled) /\ a \in Places /\ m \in Message /\ p \in Pairs
      BY <1>1, <1>4
    <2>3. /\ queue \in Queues /\ sent \in [Pairs -> Nat]
          /\ handled \in [Pairs -> Seq(Nat)]
      BY <1>2
    <2> HIDE DEF a
    <2>4. QED
      BY <1>5, <1>6, <1>7, <1>8, <2>1, <2>2, <2>3, Removed
  <1>10. TypeOK'
    <2>1. wire' \in [Links -> Seq(Message)]
      BY <1>1, <1>3, <1>4 DEF TypeOK
    <2>2. Append(handled[p], m.n) \in Seq(1..MaxSends)
      <3>1. m.n \in 1..MaxSends
        BY <1>4 DEF Message
      <3>2. handled[p] \in Seq(1..MaxSends)
        BY <1>1, <1>4 DEF TypeOK
      <3>3. QED
        BY <3>1, <3>2, AppendProperties
    <2>3. handled' \in [Pairs -> Seq(1..MaxSends)]
      BY <1>1, <1>3, <1>4, <2>2 DEF TypeOK
    <2>4. QED
      BY <1>1, <1>3, <2>1, <2>3 DEF TypeOK
  <1>11. OneHeld'
    BY <1>1, <1>3 DEF OneHeld
  <1>12. Behind(sent, handled')
    <2>1. SUFFICES ASSUME NEW r \in Pairs
                   PROVE  Len(handled'[r]) <= sent[r]
      BY DEF Behind
    <2>2. CASE r = p
      <3>1. handled[p] \in Seq(Nat) /\ m.n \in Nat /\ sent[p] \in Nat /\ Len(handled[p]) \in Nat
        BY <1>2, <1>4, <1>9
      <3>2. Len(handled'[p]) = Len(handled[p]) + 1
        BY <1>7, <3>1, AppendProperties DEF Updated
      <3>3. QED
        BY <1>9, <2>2, <3>1, <3>2
    <2>3. CASE r # p
      BY <1>1, <1>7, <2>3 DEF Behind, Updated
    <2>4. QED
      BY <2>2, <2>3
  <1>13. Network!Handle(p)
    BY <1>3, <1>9 DEF Network!Handle
  <1>14. QED
    BY <1>3, <1>4, <1>9, <1>10, <1>11, <1>12, <1>13 DEF IInv

-----------------------------------------------------------------------------
(* The theorems.                                                           *)

LEMMA InitInvariant == Init => IInv
  <1> SUFFICES ASSUME Init
               PROVE  IInv
    OBVIOUS
  <1>1. TypeOK
    BY PeersAssumption DEF Init, TypeOK
  <1>2. /\ \A x : Len(<<>>) = 0
        /\ \A a \in Places : queue[a] = <<>>
        /\ \A p \in Pairs : sent[p] = 0 /\ handled[p] = <<>>
    BY DEF Init, queue, Queue, Places
  <1>3. OneHeld /\ Behind(sent, handled)
    BY <1>2 DEF Init, OneHeld, Behind
  <1>4. Flight(queue, sent, handled)
    BY <1>2 DEF Flight, AtHome, Ordered, Window, Complete
  <1>5. QED
    BY <1>1, <1>3, <1>4 DEF IInv

LEMMA Inductive ==
    ASSUME IInv, [Next]_vars
    PROVE  IInv' /\ [Network!Next]_(Network!vars)
  <1>1. CASE UNCHANGED vars
    <2>1. IInv'
      BY <1>1 DEF vars, IInv, TypeOK, OneHeld, queue
    <2>2. QED
      BY <1>1, <2>1 DEF vars, Network!vars
  <1>2. ASSUME NEW p \in Pairs, ServiceSends(p)
        PROVE  IInv' /\ [Network!Next]_(Network!vars)
    <2>1. Network!Send(p)
      BY <1>2 DEF ServiceSends, Network!Send
    <2>2. QED
      BY <1>2, <2>1, SendStep DEF Network!Next
  <1>3. ASSUME NEW c \in Clients, GetNextMessageToSendAll(c) \/ GetNextMessageToSendPeer(c)
        PROVE  IInv' /\ [Network!Next]_(Network!vars)
    <2>1. UNCHANGED <<sent, handled>>
      BY <1>3 DEF GetNextMessageToSendAll, GetNextMessageToSendPeer, Take
    <2>2. QED
      BY <1>3, <2>1, TakeAllStep, TakePeerStep DEF Network!vars
  <1>4. ASSUME NEW l \in Links, TssSend(l)
        PROVE  IInv' /\ [Network!Next]_(Network!vars)
    <2>1. UNCHANGED <<sent, handled>>
      BY <1>4 DEF TssSend
    <2>2. QED
      BY <1>4, <2>1, SendTssStep DEF Network!vars
  <1>5. ASSUME NEW l \in Links, Receive(l)
        PROVE  IInv' /\ [Network!Next]_(Network!vars)
    <2>1. CASE Head(wire[l]).PeerID = l[2]
      BY <1>5, <2>1, HandleStep DEF Network!Next
    <2>2. CASE Head(wire[l]).PeerID # l[2]
      BY <1>5, <2>2, RelayStep DEF Network!vars
    <2>3. QED
      BY <2>1, <2>2
  <1>6. QED
    BY <1>1, <1>2, <1>3, <1>4, <1>5 DEF Next

\* The queues hold messages of the session only, whatever the devices and pairs.
THEOREM TypeCorrect == Spec => []TypeOK
  <1>1. IInv /\ [Next]_vars => IInv'
    BY Inductive
  <1>2. IInv => TypeOK
    BY DEF IInv
  <1>3. QED
    BY InitInvariant, <1>1, <1>2, PTL DEF Spec

\* Every step of the queues, the senders, the websockets and the relay is a send
\* or a delivery of PeerNetwork, or changes neither: over each pair of parties the
\* messages are handled once each and in the order of the sends, for any number of
\* devices behind the server's one queue.
THEOREM DeliversStepwise == Spec => Network!Init /\ [][Network!Next]_(Network!vars)
  <1>1. Init => Network!Init
    BY DEF Init, Network!Init
  <1>2. IInv /\ [Next]_vars => IInv' /\ [Network!Next]_(Network!vars)
    BY Inductive
  <1>3. QED
    BY InitInvariant, <1>1, <1>2, PTL DEF Spec
=============================================================================
