-------------------------- MODULE BenchServersProofs --------------------------
(***************************************************************************)
(* Proofs about BenchServers: the counter's announcements tile what it     *)
(* recorded, and the echo server implements EchoService.  Both rest on     *)
(* what SendsOf, a recursive function, answers for a queue that gains or   *)
(* loses an item; that it has a value at all, and one only, is shown by    *)
(* the least number argument (LeastNat).                                   *)
(***************************************************************************)
EXTENDS BenchServers, SequenceTheorems, WellFoundedInduction, TLAPS

-----------------------------------------------------------------------------
(* What a queue holds to be sent.                                          *)

\* A natural number with a property is preceded by a least one.
LEMMA LeastNat ==
    ASSUME NEW T \in SUBSET Nat, T # {}
    PROVE  \E x \in T : \A y \in T : ~(y < x)
<1>1. PICK x \in T : \A y \in T : ~(<<y, x>> \in OpToRel(<, Nat))
  BY NatLessThanWellFounded, WFMin
<1>2. \A y \in T : y < x => <<y, x>> \in OpToRel(<, Nat)
  BY DEF OpToRel
<1> QED BY <1>1, <1>2

IsSend(x) == x.type = "nq_send"

\* The collected sends s and item x after them.
Extend(s, x) == IF IsSend(x) THEN Append(s, x) ELSE s

\* g[i] is what the first i items of q hold to be sent, up to the nth.
Collects(g, q, n) ==
    \A i \in 0 .. n : g[i] = IF i = 0 THEN <<>> ELSE Extend(g[i - 1], q[i])

SendsIn(S) == {x \in S : IsSend(x)}

Collection(g, q, S) ==
    /\ g \in [0 .. Len(q) -> Seq(SendsIn(S))]
    /\ Collects(g, q, Len(q))

\* Two collections of the same queue agree.
LEMMA CollectsOnce ==
    ASSUME NEW n \in Nat, NEW q, NEW f, NEW g, Collects(f, q, n), Collects(g, q, n)
    PROVE  f[n] = g[n]
<1> DEFINE T == {i \in 0 .. n : f[i] # g[i]}
<1>1. SUFFICES ASSUME T # {} PROVE FALSE
  OBVIOUS
<1>2. PICK x \in T : \A y \in T : ~(y < x)
  <2>1. T \in SUBSET Nat
    OBVIOUS
  <2> HIDE DEF T
  <2> QED BY <1>1, <2>1, LeastNat
<1>3. x \in 0 .. n /\ f[x] # g[x] /\ \A y \in 0 .. n : y < x => f[y] = g[y]
  BY <1>2
<1>4. CASE x = 0
  BY <1>3, <1>4 DEF Collects
<1>5. CASE x # 0
  <2>1. x - 1 \in 0 .. n /\ x - 1 < x
    BY <1>3, <1>5
  <2>2. f[x - 1] = g[x - 1]
    BY <1>3, <2>1
  <2>3. f[x] = Extend(f[x - 1], q[x]) /\ g[x] = Extend(g[x - 1], q[x])
    BY <1>3, <1>5 DEF Collects
  <2> QED BY <1>3, <2>2, <2>3
<1> QED BY <1>4, <1>5

\* A collection of a queue ends in SendsOf.
LEMMA CollectionEnds ==
    ASSUME NEW S, NEW q \in Seq(S), NEW g, Collection(g, q, S)
    PROVE  SendsOf(q) = g[Len(q)] /\ SendsOf(q) \in Seq(SendsIn(S))
<1>1. PICK n \in Nat : n = Len(q)
  OBVIOUS
<1> DEFINE f == CHOOSE f : f = [i \in 0 .. n |-> IF i = 0 THEN <<>>
                                 ELSE IF q[i].type = "nq_send" THEN Append(f[i - 1], q[i])
                                      ELSE f[i - 1]]
<1>2. g = [i \in 0 .. n |-> IF i = 0 THEN <<>>
                             ELSE IF q[i].type = "nq_send" THEN Append(g[i - 1], q[i])
                                  ELSE g[i - 1]]
  BY <1>1 DEF Collection, Collects, Extend, IsSend
<1>3. f = [i \in 0 .. n |-> IF i = 0 THEN <<>>
                             ELSE IF q[i].type = "nq_send" THEN Append(f[i - 1], q[i])
                                  ELSE f[i - 1]]
  BY <1>2
<1>4. SendsOf(q) = f[n]
  BY <1>1 DEF SendsOf
<1> HIDE DEF f
<1>5. f[n] = g[n]
  <2>1. Collects(g, q, n)
    BY <1>1 DEF Collection
  <2>2. Collects(f, q, n)
    BY <1>3 DEF Collects, Extend, IsSend
  <2> QED BY <2>1, <2>2, CollectsOnce
<1>6. g[n] \in Seq(SendsIn(S))
  <2>1. n \in 0 .. n /\ g \in [0 .. n -> Seq(SendsIn(S))]
    BY <1>1 DEF Collection
  <2> QED BY <2>1
<1> QED BY <1>1, <1>4, <1>5, <1>6

\* A collection of a queue, extended to a queue with one item more.
LEMMA CollectionOfAppend ==
    ASSUME NEW S, NEW q \in Seq(S), NEW x \in S, NEW g, Collection(g, q, S)
    PROVE  \E h : /\ Collection(h, Append(q, x), S)
                  /\ h[Len(Append(q, x))] = Extend(g[Len(q)], x)
<1>1. PICK n \in Nat : n = Len(q)
  OBVIOUS
<1>2. /\ Len(Append(q, x)) = n + 1 /\ Append(q, x)[n + 1] = x
      /\ \A i \in 1 .. n : Append(q, x)[i] = q[i]
  BY <1>1
<1>3. /\ g \in [0 .. n -> Seq(SendsIn(S))]
      /\ \A i \in 0 .. n : g[i] = IF i = 0 THEN <<>> ELSE Extend(g[i - 1], q[i])
  BY <1>1 DEF Collection, Collects
<1>4. Extend(g[n], x) \in Seq(SendsIn(S))
  <2>1. g[n] \in Seq(SendsIn(S))
    BY <1>3
  <2> QED BY <2>1 DEF Extend, SendsIn
<1> DEFINE h == [i \in 0 .. n + 1 |-> IF i = n + 1 THEN Extend(g[n], x) ELSE g[i]]
<1>5. /\ h \in [0 .. n + 1 -> Seq(SendsIn(S))] /\ h[n + 1] = Extend(g[n], x)
      /\ \A i \in 0 .. n : h[i] = g[i]
  BY <1>3, <1>4
<1> HIDE DEF h
<1>6. ASSUME NEW i \in 0 .. n + 1
      PROVE  h[i] = IF i = 0 THEN <<>> ELSE Extend(h[i - 1], Append(q, x)[i])
  <2>1. CASE i = n + 1
    BY <1>2, <1>5, <2>1
  <2>2. CASE i = 0
    BY <1>3, <1>5, <2>2
  <2>3. CASE i \in 1 .. n
    <3>1. h[i] = Extend(g[i - 1], q[i])
      BY <1>3, <1>5, <2>3
    <3>2. h[i - 1] = g[i - 1] /\ Append(q, x)[i] = q[i]
      <4>1. i - 1 \in 0 .. n /\ i \in 1 .. n
        BY <2>3
      <4> QED BY <1>2, <1>5, <4>1
    <3> QED BY <2>3, <3>1, <3>2
  <2>4. i = n + 1 \/ i = 0 \/ i \in 1 .. n
    OBVIOUS
  <2> QED BY <2>1, <2>2, <2>3, <2>4
<1>7. Collection(h, Append(q, x), S)
  BY <1>2, <1>5, <1>6 DEF Collection, Collects
<1> QED BY <1>1, <1>2, <1>5, <1>7

\* Every queue has a collection.
LEMMA CollectionExists ==
    ASSUME NEW S, NEW q \in Seq(S)
    PROVE  \E g : Collection(g, q, S)
<1>1. PICK m \in Nat : m = Len(q)
  OBVIOUS
<1> DEFINE Front(n) == SubSeq(q, 1, n)
           T == {n \in 0 .. m : ~\E g : Collection(g, Front(n), S)}
<1>2. \A n \in 0 .. m : Front(n) \in Seq(S) /\ Len(Front(n)) = n
  BY <1>1
<1>3. \A n \in 0 .. m : n # 0 => Front(n) = Append(Front(n - 1), q[n]) /\ q[n] \in S
  <2> SUFFICES ASSUME NEW n \in 1 .. m
               PROVE  Front(n) = Append(Front(n - 1), q[n]) /\ q[n] \in S
    OBVIOUS
  <2>1. q[n] \in S
    BY <1>1
  <2>2. Len(Append(Front(n - 1), q[n])) = n
    BY <1>2, <2>1
  <2>3. \A i \in 1 .. n : Append(Front(n - 1), q[n])[i] = q[i] /\ Front(n)[i] = q[i]
    BY <1>1
  <2> HIDE DEF Front
  <2>4. Front(n) \in Seq(S) /\ Len(Front(n)) = n /\ Append(Front(n - 1), q[n]) \in Seq(S)
    BY <1>2, <2>1
  <2> QED BY <2>1, <2>2, <2>3, <2>4, SeqEqual
<1>4. Front(m) = q
  <2>1. Front(m) \in Seq(S) /\ Len(Front(m)) = Len(q) /\ \A i \in 1 .. m : Front(m)[i] = q[i]
    BY <1>1, <1>2
  <2> QED BY <1>1, <2>1, SeqEqual
<1> HIDE DEF Front
<1>5. SUFFICES T = {}
  BY <1>4
<1>6. SUFFICES ASSUME T # {} PROVE FALSE
  OBVIOUS
<1>7. PICK n \in T : \A y \in T : ~(y < n)
  <2>1. T \in SUBSET Nat
    OBVIOUS
  <2> HIDE DEF T
  <2> QED BY <1>6, <2>1, LeastNat
<1>8. CASE n = 0
  <2>1. Front(0) \in Seq(S) /\ Len(Front(0)) = 0
    BY <1>2
  <2> DEFINE g == [i \in 0 .. 0 |-> <<>>]
  <2>2. <<>> \in Seq(SendsIn(S))
    OBVIOUS
  <2>3. Collection(g, Front(0), S)
    BY <2>1, <2>2 DEF Collection, Collects
  <2> QED BY <1>7, <1>8, <2>3
<1>9. CASE n # 0
  <2>1. n - 1 \in 0 .. m /\ n - 1 < n
    BY <1>7, <1>9
  <2>2. PICK g : Collection(g, Front(n - 1), S)
    BY <1>7, <2>1
  <2>3. PICK h : Collection(h, Append(Front(n - 1), q[n]), S)
    BY <1>2, <1>3, <1>7, <1>9, <2>1, <2>2, CollectionOfAppend
  <2>4. Collection(h, Front(n), S)
    BY <1>3, <1>7, <1>9, <2>3
  <2> QED BY <1>7, <2>4
<1> QED BY <1>8, <1>9
\* What the sends of a queue are after one item more, ...
LEMMA SendsOfAppend ==
    ASSUME NEW S, NEW q \in Seq(S), NEW x \in S
    PROVE  SendsOf(Append(q, x)) = Extend(SendsOf(q), x)
<1>1. PICK g : Collection(g, q, S)
  BY CollectionExists
<1>2. PICK h : /\ Collection(h, Append(q, x), S)
               /\ h[Len(Append(q, x))] = Extend(g[Len(q)], x)
  BY <1>1, CollectionOfAppend
<1>3. SendsOf(q) = g[Len(q)]
  BY <1>1, CollectionEnds
<1>4. SendsOf(Append(q, x)) = h[Len(Append(q, x))]
  <2>1. Append(q, x) \in Seq(S)
    OBVIOUS
  <2> HIDE DEF Collection
  <2> QED BY <1>2, <2>1, CollectionEnds
<1> QED BY <1>2, <1>3, <1>4

\* ... what they consist of, ...
LEMMA SendsOfType ==
    ASSUME NEW S, NEW q \in Seq(S)
    PROVE  SendsOf(q) \in Seq(SendsIn(S)) /\ SendsOf(<<>>) = <<>>
<1>1. SendsOf(q) \in Seq(SendsIn(S))
  BY CollectionExists, CollectionEnds
<1>2. <<>> \in Seq(S) /\ Len(<<>>) = 0
  OBVIOUS
<1>3. PICK g : Collection(g, <<>>, S)
  BY <1>2, CollectionExists
<1>4. SendsOf(<<>>) = g[0]
  BY <1>2, <1>3, CollectionEnds
<1>5. g[0] = <<>>
  BY <1>2, <1>3 DEF Collection, Collects
<1> QED BY <1>1, <1>4, <1>5

\* ... and what they are when the first item is taken.
LEMMA SendsOfTail ==
    ASSUME NEW S, NEW q \in Seq(S), q # <<>>
    PROVE  /\ IsSend(Head(q)) => /\ SendsOf(q) # <<>>
                                 /\ Head(SendsOf(q)) = Head(q)
                                 /\ SendsOf(Tail(q)) = Tail(SendsOf(q))
           /\ ~IsSend(Head(q)) => SendsOf(Tail(q)) = SendsOf(q)
<1>1. PICK n \in Nat \ {0} : n = Len(q)
  BY EmptySeq
<1>2. /\ Len(Tail(q)) = n - 1 /\ Head(q) = q[1] /\ Head(q) \in S /\ Tail(q) \in Seq(S)
      /\ \A i \in 1 .. n - 1 : Tail(q)[i] = q[i + 1]
  BY <1>1, HeadTailProperties
<1>3. PICK g : Collection(g, q, S)
  BY CollectionExists
<1>4. /\ g \in [0 .. n -> Seq(SendsIn(S))]
      /\ \A i \in 0 .. n : g[i] = IF i = 0 THEN <<>> ELSE Extend(g[i - 1], q[i])
      /\ SendsOf(q) = g[n]
  BY <1>1, <1>3, CollectionEnds DEF Collection, Collects
<1>5. g[1] = Extend(<<>>, Head(q))
  BY <1>2, <1>4
<1>6. CASE ~IsSend(Head(q))
  <2> DEFINE h == [i \in 0 .. n - 1 |-> g[i + 1]]
  <2>1. h \in [0 .. n - 1 -> Seq(SendsIn(S))] /\ \A i \in 0 .. n - 1 : h[i] = g[i + 1]
    BY <1>4
  <2> HIDE DEF h
  <2>2. ASSUME NEW i \in 0 .. n - 1
        PROVE  h[i] = IF i = 0 THEN <<>> ELSE Extend(h[i - 1], Tail(q)[i])
    <3>1. CASE i = 0
      BY <1>5, <1>6, <2>1, <3>1 DEF Extend
    <3>2. CASE i \in 1 .. n - 1
      <4>1. i + 1 \in 0 .. n /\ i - 1 \in 0 .. n - 1 /\ i # 0 /\ (i + 1) - 1 = i /\ (i - 1) + 1 = i
        BY <3>2
      <4>2. g[i + 1] = Extend(g[i], q[i + 1])
        BY <1>4, <4>1
      <4>3. h[i] = g[i + 1] /\ h[i - 1] = g[i] /\ Tail(q)[i] = q[i + 1]
        BY <1>2, <2>1, <3>2, <4>1
      <4> QED BY <4>1, <4>2, <4>3
    <3>3. i = 0 \/ i \in 1 .. n - 1
      OBVIOUS
    <3> QED BY <3>1, <3>2, <3>3
  <2>3. Collection(h, Tail(q), S)
    BY <1>2, <2>1, <2>2 DEF Collection, Collects
  <2>4. SendsOf(Tail(q)) = h[n - 1]
    BY <1>2, <2>3, CollectionEnds
  <2>5. h[n - 1] = g[n]
    BY <1>1, <2>1
  <2> QED BY <1>4, <1>6, <2>4, <2>5
<1>7. CASE IsSend(Head(q))
  <2>1. g[1] = <<Head(q)>>
    BY <1>5, <1>7 DEF Extend
  <2> DEFINE T == {i \in 1 .. n : ~(g[i] # <<>> /\ Head(g[i]) = Head(q))}
  <2>2. T = {}
    <3>1. SUFFICES ASSUME T # {} PROVE FALSE
      OBVIOUS
    <3>2. PICK k \in T : \A y \in T : ~(y < k)
      <4>1. T \in SUBSET Nat
        OBVIOUS
      <4> HIDE DEF T
      <4> QED BY <3>1, <4>1, LeastNat
    <3>3. CASE k = 1
      BY <2>1, <3>2, <3>3
    <3>4. CASE k # 1
      <4>1. k \in 1 .. n /\ k - 1 \in 1 .. n /\ k - 1 < k
        BY <3>2, <3>4
      <4>2. g[k - 1] # <<>> /\ Head(g[k - 1]) = Head(q)
        BY <3>2, <4>1
      <4>3. g[k] = Extend(g[k - 1], q[k]) /\ g[k - 1] \in Seq(SendsIn(S))
        BY <1>4, <4>1
      <4>4. q[k] \in S
        BY <1>1, <4>1
      <4>5. g[k] # <<>> /\ Head(g[k]) = Head(q)
        <5>1. CASE IsSend(q[k])
          <6>1. q[k] \in SendsIn(S) /\ g[k] = Append(g[k - 1], q[k])
            BY <4>3, <4>4, <5>1 DEF Extend, SendsIn
          <6>2. \A s \in Seq(SendsIn(S)), x \in SendsIn(S) : s # <<>>
                   => Append(s, x) # <<>> /\ Head(Append(s, x)) = Head(s)
            OBVIOUS
          <6> QED BY <4>2, <4>3, <6>1, <6>2
        <5>2. CASE ~IsSend(q[k])
          BY <4>2, <4>3, <5>2 DEF Extend
        <5> QED BY <5>1, <5>2
      <4> QED BY <3>2, <4>5
    <3> QED BY <3>3, <3>4
  <2>3. \A i \in 1 .. n : g[i] # <<>> /\ Head(g[i]) = Head(q)
    BY <2>2
  <2> HIDE DEF T
  <2> DEFINE h == [i \in 0 .. n - 1 |-> Tail(g[i + 1])]
  <2>4. \A i \in 0 .. n - 1 : h[i] = Tail(g[i + 1]) /\ h[i] \in Seq(SendsIn(S))
    <3> SUFFICES ASSUME NEW i \in 0 .. n - 1
                 PROVE  Tail(g[i + 1]) \in Seq(SendsIn(S))
      OBVIOUS
    <3>1. i + 1 \in 1 .. n /\ i + 1 \in 0 .. n
      OBVIOUS
    <3>2. g[i + 1] # <<>> /\ g[i + 1] \in Seq(SendsIn(S))
      BY <1>4, <2>3, <3>1
    <3> QED BY <3>2
  <2>5. h \in [0 .. n - 1 -> Seq(SendsIn(S))]
    <3>1. \A i \in 0 .. n - 1 : Tail(g[i + 1]) \in Seq(SendsIn(S))
      BY <2>4
    <3> QED BY <3>1
  <2> HIDE DEF h
  <2>6. ASSUME NEW i \in 0 .. n - 1
        PROVE  h[i] = IF i = 0 THEN <<>> ELSE Extend(h[i - 1], Tail(q)[i])
    <3>1. CASE i = 0
      <4>1. Tail(<<Head(q)>>) = <<>>
        OBVIOUS
      <4>2. h[0] = Tail(g[0 + 1]) /\ 0 + 1 = 1
        BY <2>4
      <4> QED BY <2>1, <3>1, <4>1, <4>2
    <3>2. CASE i \in 1 .. n - 1
      <4>1. i + 1 \in 0 .. n /\ i - 1 \in 0 .. n - 1 /\ i # 0 /\ (i + 1) - 1 = i /\ (i - 1) + 1 = i
            /\ i \in 1 .. n /\ i \in 0 .. n /\ i + 1 \in 1 .. n
        BY <3>2
      <4>2. g[i + 1] = Extend(g[i], q[i + 1])
        BY <1>4, <4>1
      <4>3. h[i] = Tail(g[i + 1]) /\ h[i - 1] = Tail(g[i]) /\ Tail(q)[i] = q[i + 1]
        BY <1>2, <2>4, <3>2, <4>1
      <4>4. g[i] # <<>> /\ g[i] \in Seq(SendsIn(S)) /\ q[i + 1] \in S
        BY <1>1, <1>4, <2>3, <4>1
      <4>5. Tail(Extend(g[i], q[i + 1])) = Extend(Tail(g[i]), q[i + 1])
        <5>1. CASE IsSend(q[i + 1])
          <6>1. q[i + 1] \in SendsIn(S)
            BY <4>4, <5>1 DEF SendsIn
          <6>2. Tail(Append(g[i], q[i + 1])) = Append(Tail(g[i]), q[i + 1])
            BY <4>4, <6>1
          <6> QED BY <5>1, <6>2 DEF Extend
        <5>2. CASE ~IsSend(q[i + 1])
          BY <5>2 DEF Extend
        <5> QED BY <5>1, <5>2
      <4> QED BY <4>1, <4>2, <4>3, <4>5
    <3>3. i = 0 \/ i \in 1 .. n - 1
      OBVIOUS
    <3> QED BY <3>1, <3>2, <3>3
  <2>7. Collection(h, Tail(q), S)
    BY <1>2, <2>5, <2>6 DEF Collection, Collects
  <2>8. SendsOf(Tail(q)) = h[n - 1]
    BY <1>2, <2>7, CollectionEnds
  <2>9. h[n - 1] = Tail(g[n]) /\ g[n] # <<>> /\ Head(g[n]) = Head(q)
    BY <1>1, <2>3, <2>4
  <2> QED BY <1>4, <1>7, <2>8, <2>9
<1> QED BY <1>6, <1>7

-----------------------------------------------------------------------------
(* Types.                                                                  *)

ReadItem == [type : {"nq_recv"}, session : Nat]
CharItem == [type : {"nq_send"}, session : Nat, data : Nat]
StretchItem == [type : {"nq_send"}, session : Nat, nbytes : Nat, offset : Nat]

NetItem == ReadItem \cup CharItem \cup StretchItem
SentBy(p) == IF p = "echo" THEN CharItem ELSE StretchItem
BenchItem == [action : {"wq_process", "wq_start", "wq_stop", "wq_none"}, data : Nat]

QueuesInv == /\ program \in {"echo", "counter"} /\ session \in Nat
             /\ qn \in Seq(ReadItem \cup SentBy(program)) /\ qw \in Seq(BenchItem)
BytesInv == /\ text \in [0 .. MaxBytes - 1 -> Chars]
            /\ nextByte \in 0 .. MaxBytes /\ inbound \in Seq(0 .. MaxBytes - 1)
CountInv == written \in Nat /\ lastSend \in Nat /\ handled \in Nat

BenchInv == QueuesInv /\ BytesInv /\ CountInv

\* A step of the network thread that hands nothing over, or of the peer: the
\* thread takes a read or queues one, or leaves its queue alone.
LEMMA QuietStep ==
    ASSUME BenchInv, Inherited \/ BenchPeer
    PROVE  /\ UNCHANGED benchVars
           /\ session' \in Nat
           /\ \/ qn' = qn
              \/ Handle("nq_recv")
              \/ qn' = Append(qn, [type |-> "nq_recv", session |-> session])
           /\ nextByte' \in 0 .. MaxBytes
           /\ \/ inbound' = inbound
              \/ inbound' = <<>>
              \/ nextByte \in 0 .. MaxBytes - 1 /\ inbound' = Append(inbound, nextByte)
<1>1. CASE Inherited
  <2>1. UNCHANGED <<benchVars, nextByte, session>> /\ (inbound' = inbound \/ inbound' = <<>>)
    BY <1>1 DEF Inherited, Listen, ListenFails, AcceptFails, QueueRecv, RecvPollFails,
       RecvNothing, RecvError, RecvEnd, Unblock, Fail, peerVars, historyVars
  <2>2. \/ qn' = qn
        \/ Handle("nq_recv")
        \/ qn' = Append(qn, [type |-> "nq_recv", session |-> session])
    BY <1>1 DEF Inherited, Listen, ListenFails, AcceptFails, Accepted, QueueRecv, RecvPollFails,
       RecvNothing, RecvError, RecvEnd, Unblock, Item
  <2> QED BY <2>1, <2>2 DEF BenchInv, QueuesInv, BytesInv
<1>2. CASE BenchPeer
  <2>1. CASE Accept
    BY <1>2, <2>1 DEF BenchPeer, Accept, Accepted, Item, BenchInv, QueuesInv, BytesInv
  <2>2. CASE PeerSends
    BY <1>2, <2>2, NetworkAssumption DEF BenchPeer, PeerSends, historyVars, BenchInv, QueuesInv,
       BytesInv
  <2>3. CASE PeerCloses \/ PeerStalls
    BY <1>2, <2>3 DEF BenchPeer, PeerCloses, PeerStalls, historyVars, BenchInv, QueuesInv,
       BytesInv
  <2> QED BY <1>2, <2>1, <2>2, <2>3 DEF BenchPeer
<1> QED BY <1>1, <1>2

\* A byte that was received is one of the peers' characters.
LEMMA ReceivedIsChar ==
    ASSUME BenchInv, Receive
    PROVE  /\ text[Head(inbound)] \in Chars /\ text[Head(inbound)] \in Nat
           /\ inbound' \in Seq(0 .. MaxBytes - 1)
<1>1. inbound # <<>> /\ inbound' = Tail(inbound)
  BY DEF Receive, RecvByte
<1>2. Head(inbound) \in 0 .. MaxBytes - 1 /\ Tail(inbound) \in Seq(0 .. MaxBytes - 1)
  BY <1>1, HeadTailProperties DEF BenchInv, BytesInv
<1> QED BY <1>1, <1>2, BenchAssumption DEF BenchInv, BytesInv

\* The servers start with empty queues and the counters at zero.
LEMMA BenchInvInit == BenchInit => BenchInv
<1> SUFFICES ASSUME BenchInit PROVE BenchInv
  OBVIOUS
<1>1. [type |-> "nq_recv", session |-> 0] \in ReadItem \cup SentBy(program)
  BY DEF ReadItem
<1>2. qn \in Seq(ReadItem \cup SentBy(program))
  BY <1>1 DEF BenchInit, Init
<1>3. program \in {"echo", "counter"}
  BY BenchAssumption DEF BenchInit
<1>4. QueuesInv
  BY <1>2, <1>3 DEF QueuesInv, BenchInit, Init
<1>5. BytesInv
  BY NetworkAssumption DEF BytesInv, BenchInit, Init
<1>6. CountInv
  BY DEF CountInv, BenchInit
<1> QED BY <1>4, <1>5, <1>6 DEF BenchInv

\* Every step of either server keeps the queues typed.
LEMMA BenchInvStep == BenchInv /\ [BenchNext]_allVars => BenchInv'
<1> SUFFICES ASSUME BenchInv, [BenchNext]_allVars PROVE BenchInv'
  OBVIOUS
<1> USE DEF BenchInv
<1>1. ASSUME Handle("nq_recv") \/ Handle("nq_send")
      PROVE  qn' \in Seq(ReadItem \cup SentBy(program))
  <2>1. qn # <<>> /\ qn' = Tail(qn)
    BY <1>1 DEF Handle
  <2> DEFINE S == ReadItem \cup SentBy(program)
  <2>2. qn \in Seq(S)
    BY DEF QueuesInv
  <2> HIDE DEF S
  <2>3. Tail(qn) \in Seq(S)
    BY <2>1, <2>2, HeadTailProperties
  <2> QED BY <2>1, <2>3 DEF S
<1>2. CASE Receive
  <2>1. QueuesInv'
    <3>1. WorkItemFor(text[Head(inbound)]) \in BenchItem
      BY <1>2, ReceivedIsChar DEF WorkItemFor, CommandFor, BenchItem
    <3>2. qw' \in Seq(BenchItem)
      BY <1>2, <3>1 DEF Receive, QueuesInv
    <3> QED BY <1>1, <1>2, <3>2 DEF Receive, RecvByte, QueuesInv, fixedVars
  <2>2. BytesInv'
    BY <1>2, ReceivedIsChar DEF Receive, RecvByte, BytesInv, fixedVars
  <2>3. CountInv'
    BY <1>2 DEF Receive, pastVars, CountInv
  <2> QED BY <2>1, <2>2, <2>3
<1>3. CASE WriteOut \/ WriteFails
  <2>1. /\ Handle("nq_send") /\ Dispose
        /\ UNCHANGED <<fixedVars, ownVars, session, nextByte, inbound>>
    BY <1>3 DEF WriteOut, WriteFails, SendData, SendBlocks, SendKills, SendDropped, peerVars,
       historyVars
  <2>2. QueuesInv'
    BY <1>1, <2>1 DEF QueuesInv, fixedVars, ownVars
  <2>3. BytesInv'
    BY <2>1 DEF BytesInv, fixedVars
  <2>4. CountInv'
    <3>1. Head(qn) \in ReadItem \cup SentBy(program) /\ Head(qn).type = "nq_send"
      BY <2>1, HeadTailProperties DEF Handle, QueuesInv
    <3>2. program = "counter" => Head(qn).offset \in Nat /\ Head(qn).nbytes \in Nat
      BY <3>1 DEF ReadItem, SentBy, StretchItem
    <3> QED BY <2>1, <3>2 DEF Dispose, CountInv, ownVars
  <2> QED BY <2>2, <2>3, <2>4
<1>4. CASE Inherited \/ BenchPeer
  <2>1. QueuesInv'
    <3>1. [type |-> "nq_recv", session |-> session] \in ReadItem \cup SentBy(program)
      BY DEF ReadItem, QueuesInv
    <3>2. qn' \in Seq(ReadItem \cup SentBy(program))
      BY <1>1, <1>4, <3>1, QuietStep DEF QueuesInv
    <3> QED BY <1>4, <3>2, QuietStep DEF QueuesInv, benchVars, fixedVars, ownVars
  <2>2. BytesInv'
    <3>1. text' = text /\ nextByte' \in 0 .. MaxBytes
      BY <1>4, QuietStep DEF benchVars, fixedVars
    <3>2. inbound \in Seq(0 .. MaxBytes - 1) /\ <<>> \in Seq(0 .. MaxBytes - 1)
      BY DEF BytesInv
    <3>3. \A b \in 0 .. MaxBytes - 1 : Append(inbound, b) \in Seq(0 .. MaxBytes - 1)
      BY <3>2
    <3>4. inbound' \in Seq(0 .. MaxBytes - 1)
      BY <1>4, <3>2, <3>3, QuietStep
    <3> QED BY <3>1, <3>4 DEF BytesInv
  <2>3. CountInv'
    BY <1>4, QuietStep DEF CountInv, benchVars, ownVars, pastVars
  <2> QED BY <2>1, <2>2, <2>3
<1>5. CASE BenchWorker
  <2>1. UNCHANGED <<fixedVars, session, nextByte, inbound, handled>>
    BY <1>5 DEF BenchWorker, Echo, StartStop, Idle, Count, WorkerTurn, peerVars, historyVars,
       pastVars
  <2>2. qw' \in Seq(BenchItem)
    <3>1. qw' = qw \/ (qw # <<>> /\ qw' = Tail(qw))
      BY <1>5 DEF BenchWorker, Echo, StartStop, Idle, Count, NothingToDo, Poll
    <3>2. qw \in Seq(BenchItem) /\ (qw # <<>> => Tail(qw) \in Seq(BenchItem))
      BY DEF QueuesInv
    <3> QED BY <3>1, <3>2
  <2>3. CASE Echo
    <3>1. program = "echo" /\ qw # <<>>
      BY <2>3 DEF Echo, Poll
    <3>2. Head(qw) \in BenchItem
      BY <3>1, HeadTailProperties DEF QueuesInv
    <3>3. LowerCase(Head(qw).data) \in Nat
      BY <3>2 DEF BenchItem, LowerCase
    <3>4. [type |-> "nq_send", session |-> session, data |-> LowerCase(Head(qw).data)]
            \in ReadItem \cup SentBy(program)
      BY <3>1, <3>3 DEF QueuesInv, SentBy, CharItem
    <3>5. qn' \in Seq(ReadItem \cup SentBy(program))
      BY <2>3, <3>4 DEF Echo, QueuesInv
    <3> QED BY <2>1, <2>2, <2>3, <3>5 DEF Echo, QueuesInv, BytesInv, CountInv, fixedVars
  <2>4. CASE StartStop \/ Idle
    BY <2>1, <2>2, <2>4 DEF StartStop, Idle, QueuesInv, BytesInv, CountInv, fixedVars
  <2>5. CASE Count
    <3>1. program = "counter"
      BY <2>5 DEF Count, NothingToDo, Poll
    <3>2. /\ written' = written + 1
          /\ \/ UNCHANGED <<qn, lastSend>>
             \/ /\ written' > lastSend + COUNT_PER_SEND
                /\ lastSend' = written'
                /\ qn' = Append(qn, [type |-> "nq_send", session |-> session,
                                     nbytes |-> written' - lastSend, offset |-> lastSend])
      BY <2>5 DEF Count
    <3>3. CountInv'
      BY <2>1, <3>2 DEF CountInv
    <3>4. CASE UNCHANGED qn
      BY <2>1, <2>2, <3>3, <3>4 DEF QueuesInv, BytesInv, fixedVars
    <3>5. CASE ~UNCHANGED qn
      <4>1. written' - lastSend \in Nat
        BY <3>2, <3>5, BenchAssumption DEF CountInv
      <4>2. [type |-> "nq_send", session |-> session,
             nbytes |-> written' - lastSend, offset |-> lastSend]
              \in ReadItem \cup SentBy(program)
        BY <3>1, <4>1 DEF QueuesInv, CountInv, SentBy, StretchItem
      <4>3. qn' \in Seq(ReadItem \cup SentBy(program))
        BY <3>2, <3>5, <4>2 DEF QueuesInv
      <4> QED BY <2>1, <2>2, <3>3, <4>3 DEF QueuesInv, BytesInv, fixedVars
    <3> QED BY <3>4, <3>5
  <2> QED BY <1>5, <2>3, <2>4, <2>5 DEF BenchWorker
<1>6. CASE UNCHANGED allVars
  BY <1>6 DEF allVars, vars, benchVars, fixedVars, ownVars, pastVars, peerVars, historyVars,
     QueuesInv, BytesInv, CountInv
<1> QED BY <1>2, <1>3, <1>4, <1>5, <1>6 DEF BenchNext, BenchNetThread

-----------------------------------------------------------------------------
(* What steps do to the sends that are queued.                             *)

\* Reads come and go without touching the sends; a send that is handled is the
\* first of them, and one that is queued comes behind them.
LEMMA SendsMove ==
    ASSUME BenchInv
    PROVE  /\ Handle("nq_recv") => Sends' = Sends
           /\ Handle("nq_send") => /\ Sends # <<>> /\ Sends' = Tail(Sends)
                                   /\ Head(Sends) = Head(qn)
           /\ \A x \in ReadItem : qn' = Append(qn, x) => Sends' = Sends
           /\ \A x \in SentBy(program) : qn' = Append(qn, x) => Sends' = Append(Sends, x)
           /\ qn' = qn => Sends' = Sends
           /\ Sends \in Seq(SentBy(program))
<1> DEFINE S == ReadItem \cup SentBy(program)
<1>1. qn \in Seq(S)
  BY DEF BenchInv, QueuesInv
<1>2. SendsIn(S) = SentBy(program)
  BY DEF SendsIn, IsSend, ReadItem, SentBy, CharItem, StretchItem
<1> HIDE DEF S
<1>3. Sends \in Seq(SentBy(program))
  BY <1>1, <1>2, SendsOfType DEF Sends
<1>4. ASSUME Handle("nq_recv") PROVE Sends' = Sends
  <2>1. qn # <<>> /\ ~IsSend(Head(qn)) /\ qn' = Tail(qn)
    BY <1>4 DEF Handle, IsSend
  <2> QED BY <1>1, <2>1, SendsOfTail DEF Sends
<1>5. ASSUME Handle("nq_send")
      PROVE  Sends # <<>> /\ Sends' = Tail(Sends) /\ Head(Sends) = Head(qn)
  <2>1. qn # <<>> /\ IsSend(Head(qn)) /\ qn' = Tail(qn)
    BY <1>5 DEF Handle, IsSend
  <2> QED BY <1>1, <2>1, SendsOfTail DEF Sends
<1>6. ASSUME NEW x \in ReadItem, qn' = Append(qn, x) PROVE Sends' = Sends
  <2>1. x \in S /\ ~IsSend(x)
    BY DEF S, IsSend, ReadItem
  <2> QED BY <1>1, <1>6, <2>1, SendsOfAppend DEF Sends, Extend
<1>7. ASSUME NEW x \in SentBy(program), qn' = Append(qn, x) PROVE Sends' = Append(Sends, x)
  <2>1. x \in S /\ IsSend(x)
    BY DEF S, IsSend, SentBy, CharItem, StretchItem
  <2> QED BY <1>1, <1>7, <2>1, SendsOfAppend DEF Sends, Extend
<1>8. qn' = qn => Sends' = Sends
  BY DEF Sends
<1> QED BY <1>3, <1>4, <1>5, <1>6, <1>7, <1>8

\* Steps that hand nothing over leave the sends alone.
LEMMA QuietSends ==
    ASSUME BenchInv, Inherited \/ BenchPeer
    PROVE  UNCHANGED <<Sends, benchVars>>
<1>1. [type |-> "nq_recv", session |-> session] \in ReadItem
  BY DEF BenchInv, QueuesInv, ReadItem
<1> QED BY <1>1, QuietStep, SendsMove

\* The network thread takes what it writes, or fails to write, off the front.
LEMMA WriteSends ==
    ASSUME BenchInv, WriteOut \/ WriteFails
    PROVE  /\ Sends # <<>> /\ Sends' = Tail(Sends) /\ Head(Sends) = Head(qn)
           /\ Dispose /\ UNCHANGED <<fixedVars, ownVars>>
<1>1. Handle("nq_send") /\ Dispose /\ UNCHANGED <<fixedVars, ownVars>>
  BY DEF WriteOut, WriteFails, SendData, SendBlocks, SendKills, SendDropped
<1> QED BY <1>1, SendsMove

-----------------------------------------------------------------------------
(* The counter's announcements.                                            *)

\* An announcement taken off the front moves handled on by its length, one
\* queued carries lastSend on by as much.
LEMMA TileStep == BenchInv /\ AnnouncementsTile /\ [BenchNext]_allVars => AnnouncementsTile'
<1> SUFFICES ASSUME BenchInv, AnnouncementsTile, [BenchNext]_allVars, program' = "counter"
             PROVE  AnnouncementsTile'
  BY DEF AnnouncementsTile
<1> DEFINE length == COUNT_PER_SEND + 1
<1>1. program = "counter"
  BY DEF BenchNext, BenchNetThread, BenchWorker, BenchPeer, Receive, WriteOut, WriteFails,
     Inherited, Echo, StartStop, Idle, Count, WorkerTurn, benchVars, fixedVars, allVars
<1>2. /\ Sends \in Seq(StretchItem) /\ length \in Nat
      /\ written \in Nat /\ lastSend \in Nat /\ handled \in Nat
  BY <1>1, SendsMove, BenchAssumption DEF SentBy, BenchInv, CountInv
<1>3. PICK n \in Nat : n = Len(Sends)
  BY <1>2
<1>4. /\ \A i \in 1 .. n : /\ Sends[i].nbytes = length
                           /\ Sends[i].offset = handled + (i - 1) * length
      /\ lastSend = handled + n * length
      /\ written - lastSend \in 0 .. COUNT_PER_SEND
  BY <1>1, <1>2, <1>3 DEF AnnouncementsTile
<1> HIDE DEF length
<1>5. CASE UNCHANGED <<Sends, written, lastSend, handled>>
  BY <1>1, <1>5 DEF AnnouncementsTile
<1>6. CASE WriteOut \/ WriteFails
  <2>1. /\ Sends # <<>> /\ Sends' = Tail(Sends) /\ Head(Sends) = Head(qn)
        /\ handled' = Head(qn).offset + Head(qn).nbytes
        /\ UNCHANGED <<written, lastSend>>
    BY <1>1, <1>6, WriteSends DEF Dispose, ownVars
  <2>2. /\ n \in Nat \ {0} /\ Head(Sends) = Sends[1] /\ Len(Sends') = n - 1
        /\ \A i \in 1 .. n - 1 : Sends'[i] = Sends[i + 1]
    BY <1>2, <1>3, <2>1
  <2>3. handled' = handled + length
    <3>1. Sends[1].nbytes = length /\ Sends[1].offset = handled + (1 - 1) * length
      BY <1>4, <2>2
    <3>2. (1 - 1) * length = 0
      BY <1>2
    <3> QED BY <1>2, <2>1, <2>2, <3>1, <3>2
  <2>4. ASSUME NEW i \in 1 .. n - 1
        PROVE  /\ Sends'[i].nbytes = length
               /\ Sends'[i].offset = handled' + (i - 1) * length
    <3>1. i + 1 \in 1 .. n /\ (i + 1) - 1 = i
      BY <2>2
    <3>2. Sends[i + 1].nbytes = length /\ Sends[i + 1].offset = handled + i * length
      BY <1>4, <3>1
    <3>3. handled + i * length = (handled + length) + (i - 1) * length
      BY <1>2, <2>2
    <3> QED BY <2>2, <2>3, <3>2, <3>3
  <2>5. lastSend = handled' + (n - 1) * length
    BY <1>2, <1>4, <2>2, <2>3
  <2>6. DOMAIN Sends' = 1 .. n - 1
    BY <1>2, <1>3, <2>1
  <2> QED BY <1>4, <2>1, <2>2, <2>4, <2>5, <2>6 DEF AnnouncementsTile, length
<1>7. CASE Count
  <2>1. handled' = handled /\ written' = written + 1
    BY <1>7 DEF Count, WorkerTurn, pastVars
  <2>2. CASE ~(written' > lastSend + COUNT_PER_SEND)
    <3>1. qn' = qn /\ lastSend' = lastSend
      BY <1>7, <2>2 DEF Count
    <3>2. Sends' = Sends
      BY <3>1, SendsMove
    <3>3. written' - lastSend \in 0 .. COUNT_PER_SEND
      BY <1>2, <1>4, <2>1, <2>2, BenchAssumption
    <3> QED BY <1>1, <2>1, <3>1, <3>2, <3>3 DEF AnnouncementsTile
  <2>3. CASE written' > lastSend + COUNT_PER_SEND
    <3> DEFINE x == [type |-> "nq_send", session |-> session,
                     nbytes |-> written' - lastSend, offset |-> lastSend]
    <3>1. qn' = Append(qn, x) /\ lastSend' = written'
      BY <1>7, <2>3 DEF Count
    <3>2. written' - lastSend = length /\ written' = lastSend + length
      BY <1>2, <1>4, <2>1, <2>3, BenchAssumption DEF length
    <3>3. x \in StretchItem /\ x.nbytes = length /\ x.offset = lastSend
      BY <1>2, <3>2 DEF StretchItem, BenchInv, QueuesInv
    <3> HIDE DEF x
    <3>4. Sends' = Append(Sends, x)
      BY <1>1, <3>1, <3>3, SendsMove DEF SentBy
    <3>5. /\ DOMAIN Sends' = 1 .. n + 1 /\ Len(Sends') = n + 1 /\ Sends'[n + 1] = x
          /\ \A i \in 1 .. n : Sends'[i] = Sends[i]
      BY <1>2, <1>3, <3>3, <3>4
    <3>6. ASSUME NEW i \in 1 .. n + 1
          PROVE  /\ Sends'[i].nbytes = length
                 /\ Sends'[i].offset = handled' + (i - 1) * length
      <4>1. CASE i = n + 1
        <5>1. (n + 1) - 1 = n
          OBVIOUS
        <5> QED BY <1>4, <2>1, <3>3, <3>5, <4>1, <5>1
      <4>2. CASE i \in 1 .. n
        BY <1>4, <2>1, <3>5, <4>2
      <4> QED BY <4>1, <4>2
    <3>7. lastSend' = handled' + (n + 1) * length
      <4>1. (n + 1) * length = n * length + length /\ n * length \in Nat
        BY <1>2
      <4> QED BY <1>2, <1>4, <2>1, <3>1, <3>2, <4>1
    <3>8. written' - lastSend' \in 0 .. COUNT_PER_SEND
      BY <1>2, <2>1, <3>1, BenchAssumption
    <3> QED BY <3>5, <3>6, <3>7, <3>8 DEF AnnouncementsTile, length
  <2> QED BY <2>2, <2>3
<1>8. CASE Receive
  <2>1. Sends' = Sends
    BY <1>8, SendsMove DEF Receive, RecvByte
  <2> QED BY <1>5, <1>8, <2>1 DEF Receive, pastVars
<1>9. CASE Inherited \/ BenchPeer
  BY <1>5, <1>9, QuietSends DEF benchVars, ownVars, pastVars
<1>10. CASE StartStop \/ Idle \/ UNCHANGED allVars
  <2>1. qn' = qn /\ UNCHANGED <<written, lastSend, handled>>
    BY <1>10 DEF StartStop, Idle, WorkerTurn, pastVars, allVars, vars, benchVars, ownVars
  <2> QED BY <1>5, <2>1, SendsMove
<1>11. ~Echo
  BY <1>1 DEF Echo, Poll
<1> QED
  BY <1>6, <1>7, <1>8, <1>9, <1>10, <1>11 DEF BenchNext, BenchNetThread, BenchWorker

\* At the start nothing is queued to be sent.
LEMMA NothingToSend == BenchInit => Sends = <<>>
<1> SUFFICES ASSUME BenchInit PROVE Sends = <<>>
  OBVIOUS
<1>1. qn \in Seq({[type |-> "nq_recv", session |-> 0]}) /\ qn # <<>> /\ Tail(qn) = <<>>
  BY DEF BenchInit, Init
<1>2. SendsOf(<<>>) = <<>>
  BY <1>1, SendsOfType
<1>3. ~IsSend(Head(qn))
  BY DEF IsSend, BenchInit, Init
<1> QED BY <1>1, <1>2, <1>3, SendsOfTail DEF Sends

\* For any number of records per announcement, the counter's announcements tile
\* what it recorded, from the one handled last to the last one queued.
THEOREM CounterTiles == BenchSpec => []AnnouncementsTile
<1>1. BenchInit => AnnouncementsTile
  <2> SUFFICES ASSUME BenchInit PROVE AnnouncementsTile
    OBVIOUS
  <2>3. Sends = <<>>
    BY NothingToSend
  <2>4. DOMAIN <<>> = {} /\ Len(<<>>) = 0 /\ 0 * (COUNT_PER_SEND + 1) = 0
    BY BenchAssumption
  <2> QED BY <2>3, <2>4, BenchAssumption DEF AnnouncementsTile, BenchInit
<1> QED BY <1>1, TileStep, BenchInvInit, BenchInvStep, PTL DEF BenchSpec

-----------------------------------------------------------------------------
(* The echo server is an echo service.                                     *)

Lowered(q) == [i \in DOMAIN q |-> LowerCase(q[i].data)]

\* A sequence with one element more is a function with one place more.
LEMMA AppendFacts ==
    ASSUME NEW d \in Seq(Nat), NEW c \in Nat
    PROVE  /\ Append(d, c) \in [1 .. Len(d) + 1 -> Nat]
           /\ Append(d, c)[Len(d) + 1] = c
           /\ \A i \in 1 .. Len(d) : Append(d, c)[i] = d[i]
<1>1. Append(d, c) \in Seq(Nat) /\ Len(Append(d, c)) = Len(d) + 1
  OBVIOUS
<1>2. Append(d, c)[Len(d) + 1] = c /\ \A i \in 1 .. Len(d) : Append(d, c)[i] = d[i]
  OBVIOUS
<1>3. Append(d, c) \in [1 .. Len(d) + 1 -> Nat]
  BY <1>1, LenProperties
<1> QED BY <1>2, <1>3

\* The rest of a sequence is the function shifted by one.
LEMMA TailFacts ==
    ASSUME NEW d \in Seq(Nat), Len(d) > 0
    PROVE  /\ Tail(d) \in [1 .. Len(d) - 1 -> Nat]
           /\ \A i \in 1 .. Len(d) - 1 : Tail(d)[i] = d[i + 1]
<1>1. Tail(d) \in Seq(Nat) /\ Len(Tail(d)) = Len(d) - 1
  OBVIOUS
<1>2. \A i \in 1 .. Len(d) - 1 : Tail(d)[i] = d[i + 1]
  OBVIOUS
<1>3. Tail(d) \in [1 .. Len(d) - 1 -> Nat]
  BY <1>1, LenProperties
<1> QED BY <1>2, <1>3

\* The characters of a sequence of items are as many and in the same order.
LEMMA DatasFacts ==
    ASSUME NEW s \in Seq(CharItem)
    PROVE  /\ Datas(s) \in Seq(Nat)
           /\ \A x \in CharItem : Datas(Append(s, x)) = Append(Datas(s), x.data)
           /\ s # <<>> => /\ Datas(s) # <<>>
                          /\ Head(Datas(s)) = Head(s).data
                          /\ Datas(Tail(s)) = Tail(Datas(s))
<1>1. PICK n \in Nat : n = Len(s)
  OBVIOUS
<1>2. /\ DOMAIN s = 1 .. n
      /\ \A i \in 1 .. n : s[i] \in CharItem /\ s[i].data \in Nat
  <2>1. \A x \in CharItem : x.data \in Nat
    BY DEF CharItem
  <2> QED BY <1>1, <2>1
<1>3. Datas(s) \in [1 .. n -> Nat] /\ \A i \in 1 .. n : Datas(s)[i] = s[i].data
  BY <1>2 DEF Datas
<1>4. Datas(s) \in Seq(Nat) /\ Len(Datas(s)) = n
  BY <1>3
<1>5. ASSUME NEW x \in CharItem PROVE Datas(Append(s, x)) = Append(Datas(s), x.data)
  <2>1. x.data \in Nat
    BY DEF CharItem
  <2>2. /\ DOMAIN Append(s, x) = 1 .. n + 1 /\ Append(s, x)[n + 1] = x
        /\ \A i \in 1 .. n : Append(s, x)[i] = s[i]
    BY <1>1
  <2>3. /\ Append(Datas(s), x.data) \in [1 .. n + 1 -> Nat]
        /\ Append(Datas(s), x.data)[n + 1] = x.data
        /\ \A i \in 1 .. n : Append(Datas(s), x.data)[i] = s[i].data
    <3>1. PICK d \in Seq(Nat) : d = Datas(s) /\ Len(d) = n
      BY <1>4
    <3>2. PICK c \in Nat : c = x.data
      BY <2>1
    <3>3. /\ Append(d, c) \in [1 .. n + 1 -> Nat] /\ Append(d, c)[n + 1] = c
          /\ \A i \in 1 .. n : Append(d, c)[i] = d[i]
      BY <3>1, AppendFacts
    <3> QED BY <1>3, <3>1, <3>2, <3>3
  <2>4. \A i \in 1 .. n + 1 : Append(s, x)[i].data = Append(Datas(s), x.data)[i]
    <3> TAKE i \in 1 .. n + 1
    <3>1. i = n + 1 \/ i \in 1 .. n
      OBVIOUS
    <3> QED BY <2>2, <2>3, <3>1
  <2>5. Datas(Append(s, x)) = [i \in 1 .. n + 1 |-> Append(s, x)[i].data]
    BY <2>2 DEF Datas
  <2> QED BY <2>3, <2>4, <2>5
<1>6. ASSUME s # <<>>
      PROVE  /\ Datas(s) # <<>> /\ Head(Datas(s)) = Head(s).data
             /\ Datas(Tail(s)) = Tail(Datas(s))
  <2>1. n \in Nat \ {0}
    BY <1>1, <1>6, EmptySeq
  <2>2. Datas(s) # <<>> /\ Head(Datas(s)) = Head(s).data
    BY <1>1, <1>3, <1>4, <2>1
  <2>3. /\ DOMAIN Tail(s) = 1 .. n - 1
        /\ \A i \in 1 .. n - 1 : Tail(s)[i] = s[i + 1] /\ i + 1 \in 1 .. n
    BY <1>1, <2>1
  <2>4. /\ Tail(Datas(s)) \in [1 .. n - 1 -> Nat]
        /\ \A i \in 1 .. n - 1 : Tail(Datas(s))[i] = s[i + 1].data
    <3>1. PICK d \in Seq(Nat) : d = Datas(s) /\ Len(d) = n /\ Len(d) > 0
      BY <1>4, <2>1
    <3>2. /\ Tail(d) \in [1 .. n - 1 -> Nat]
          /\ \A i \in 1 .. n - 1 : Tail(d)[i] = d[i + 1]
      BY <3>1, TailFacts
    <3> QED BY <1>3, <2>3, <3>1, <3>2
  <2>5. Datas(Tail(s)) = [i \in 1 .. n - 1 |-> Tail(s)[i].data]
    BY <2>3 DEF Datas
  <2> QED BY <2>2, <2>3, <2>4, <2>5
<1> QED BY <1>4, <1>5, <1>6

\* The same of the characters that wait for the worker thread.
LEMMA LoweredFacts ==
    ASSUME NEW s \in Seq(BenchItem)
    PROVE  /\ Lowered(s) \in Seq(Nat)
           /\ \A x \in BenchItem : Lowered(Append(s, x)) = Append(Lowered(s), LowerCase(x.data))
           /\ s # <<>> => /\ Lowered(s) # <<>>
                          /\ Head(Lowered(s)) = LowerCase(Head(s).data)
                          /\ Lowered(Tail(s)) = Tail(Lowered(s))
<1>1. PICK n \in Nat : n = Len(s)
  OBVIOUS
<1>0. \A x \in BenchItem : LowerCase(x.data) \in Nat
  BY DEF BenchItem, LowerCase
<1>2. /\ DOMAIN s = 1 .. n
      /\ \A i \in 1 .. n : s[i] \in BenchItem /\ LowerCase(s[i].data) \in Nat
  BY <1>0, <1>1
<1>3. Lowered(s) \in [1 .. n -> Nat] /\ \A i \in 1 .. n : Lowered(s)[i] = LowerCase(s[i].data)
  BY <1>2 DEF Lowered
<1>4. Lowered(s) \in Seq(Nat) /\ Len(Lowered(s)) = n
  BY <1>3
<1>5. ASSUME NEW x \in BenchItem
      PROVE  Lowered(Append(s, x)) = Append(Lowered(s), LowerCase(x.data))
  <2>1. PICK c \in Nat : c = LowerCase(x.data)
    BY <1>0
  <2>2. /\ DOMAIN Append(s, x) = 1 .. n + 1 /\ Append(s, x)[n + 1] = x
        /\ \A i \in 1 .. n : Append(s, x)[i] = s[i]
    BY <1>1
  <2>3. /\ Append(Lowered(s), c) \in [1 .. n + 1 -> Nat]
        /\ Append(Lowered(s), c)[n + 1] = c
        /\ \A i \in 1 .. n : Append(Lowered(s), c)[i] = LowerCase(s[i].data)
    <3>1. PICK d \in Seq(Nat) : d = Lowered(s) /\ Len(d) = n
      BY <1>4
    <3>2. /\ Append(d, c) \in [1 .. n + 1 -> Nat] /\ Append(d, c)[n + 1] = c
          /\ \A i \in 1 .. n : Append(d, c)[i] = d[i]
      BY <3>1, AppendFacts
    <3> QED BY <1>3, <3>1, <3>2
  <2>4. \A i \in 1 .. n + 1 : LowerCase(Append(s, x)[i].data) = Append(Lowered(s), c)[i]
    <3> TAKE i \in 1 .. n + 1
    <3>1. i = n + 1 \/ i \in 1 .. n
      OBVIOUS
    <3> QED BY <2>1, <2>2, <2>3, <3>1
  <2>5. Lowered(Append(s, x)) = [i \in 1 .. n + 1 |-> LowerCase(Append(s, x)[i].data)]
    BY <2>2 DEF Lowered
  <2> QED BY <2>1, <2>3, <2>4, <2>5
<1>6. ASSUME s # <<>>
      PROVE  /\ Lowered(s) # <<>> /\ Head(Lowered(s)) = LowerCase(Head(s).data)
             /\ Lowered(Tail(s)) = Tail(Lowered(s))
  <2>1. n \in Nat \ {0}
    BY <1>1, <1>6, EmptySeq
  <2>2. Lowered(s) # <<>> /\ Head(Lowered(s)) = LowerCase(Head(s).data)
    BY <1>1, <1>3, <1>4, <2>1
  <2>3. /\ DOMAIN Tail(s) = 1 .. n - 1
        /\ \A i \in 1 .. n - 1 : Tail(s)[i] = s[i + 1] /\ i + 1 \in 1 .. n
    BY <1>1, <2>1
  <2>4. /\ Tail(Lowered(s)) \in [1 .. n - 1 -> Nat]
        /\ \A i \in 1 .. n - 1 : Tail(Lowered(s))[i] = LowerCase(s[i + 1].data)
    <3>1. PICK d \in Seq(Nat) : d = Lowered(s) /\ Len(d) = n /\ Len(d) > 0
      BY <1>4, <2>1
    <3>2. /\ Tail(d) \in [1 .. n - 1 -> Nat]
          /\ \A i \in 1 .. n - 1 : Tail(d)[i] = d[i + 1]
      BY <3>1, TailFacts
    <3> QED BY <1>3, <2>3, <3>1, <3>2
  <2>5. Lowered(Tail(s)) = [i \in 1 .. n - 1 |-> LowerCase(Tail(s)[i].data)]
    BY <2>3 DEF Lowered
  <2> QED BY <2>2, <2>3, <2>4, <2>5
<1> QED BY <1>4, <1>5, <1>6

\* Taking from one sequence and giving to the one behind it, seen as a whole.
LEMMA Concatenated ==
    ASSUME NEW a \in Seq(Nat), NEW b \in Seq(Nat)
    PROVE  /\ \A c \in Nat : a \o Append(b, c) = Append(a \o b, c)
           /\ a # <<>> => /\ a \o b # <<>> /\ Head(a \o b) = Head(a)
                          /\ Tail(a) \o b = Tail(a \o b)
           /\ b # <<>> => Append(a, Head(b)) \o Tail(b) = a \o b
<1>1. a \o b \in Seq(Nat)
  OBVIOUS
<1>2. \A c \in Nat : a \o Append(b, c) = Append(a \o b, c)
  OBVIOUS
<1>3. ASSUME a # <<>>
      PROVE  a \o b # <<>> /\ Head(a \o b) = Head(a) /\ Tail(a) \o b = Tail(a \o b)
  BY <1>3
<1>4. ASSUME b # <<>> PROVE Append(a, Head(b)) \o Tail(b) = a \o b
  BY <1>4
<1> QED BY <1>2, <1>3, <1>4

\* Every step of the servers is a step of the service, or none.
LEMMA ServiceStep ==
    BenchInv /\ [BenchNext]_allVars => [Service!Next]_<<Owed, returned>>
<1> SUFFICES ASSUME BenchInv, [BenchNext]_allVars
             PROVE  Service!Next \/ UNCHANGED <<Owed, returned>>
  OBVIOUS
<1>1. program' = program
  BY DEF BenchNext, BenchNetThread, BenchWorker, BenchPeer, Receive, WriteOut, WriteFails,
     Inherited, Echo, StartStop, Idle, Count, WorkerTurn, benchVars, fixedVars, allVars
<1>2. /\ program = "echo" => Owed = Datas(Sends) \o Lowered(qw)
      /\ program' = "echo" => Owed' = Datas(Sends') \o Lowered(qw')
      /\ program # "echo" => Owed = <<>>
      /\ program' # "echo" => Owed' = <<>>
  BY DEF Owed, Lowered
<1>3. CASE UNCHANGED <<Sends, qw, returned>>
  BY <1>1, <1>2, <1>3
<1>4. CASE program # "echo"
  <2>1. UNCHANGED returned
    BY <1>4 DEF BenchNext, BenchNetThread, BenchWorker, BenchPeer, Receive, WriteOut,
       WriteFails, Inherited, Echo, Poll, StartStop, Idle, Count, WorkerTurn, benchVars,
       pastVars, allVars
  <2> QED BY <1>1, <1>2, <1>4, <2>1
<1>5. CASE program = "echo"
  <2>1. /\ Sends \in Seq(CharItem) /\ qw \in Seq(BenchItem)
        /\ Datas(Sends) \in Seq(Nat) /\ Lowered(qw) \in Seq(Nat)
    BY <1>5, SendsMove, DatasFacts, LoweredFacts DEF SentBy, BenchInv, QueuesInv
  <2>2. CASE Receive
    <3> DEFINE c == text[Head(inbound)]
    <3>1. /\ c \in Chars /\ c \in Nat /\ Sends' = Sends /\ returned' = returned
          /\ qw' = Append(qw, [action |-> "wq_process", data |-> c])
      BY <1>5, <2>2, ReceivedIsChar, SendsMove DEF Receive, RecvByte, WorkItemFor, pastVars
    <3> HIDE DEF c
    <3>2. [action |-> "wq_process", data |-> c] \in BenchItem
      BY <3>1 DEF BenchItem
    <3>3. Lowered(qw') = Append(Lowered(qw), LowerCase(c))
      BY <2>1, <3>1, <3>2, LoweredFacts
    <3>4. LowerCase(c) \in Nat /\ LowerCase(c) = Service!Lower(c)
      BY <3>1 DEF LowerCase, Service!Lower
    <3>5. Owed' = Append(Owed, Service!Lower(c))
      <4>1. Datas(Sends) \o Append(Lowered(qw), LowerCase(c))
              = Append(Datas(Sends) \o Lowered(qw), LowerCase(c))
        BY <2>1, <3>4, Concatenated
      <4>2. Owed' = Datas(Sends) \o Append(Lowered(qw), LowerCase(c))
        BY <1>1, <1>2, <1>5, <3>1, <3>3
      <4> QED BY <1>2, <1>5, <3>4, <4>1, <4>2
    <3> QED BY <3>1, <3>5 DEF Service!Next, Service!Take
  <2>3. CASE WriteOut \/ WriteFails
    <3>1. /\ Sends # <<>> /\ Sends' = Tail(Sends) /\ Head(Sends) = Head(qn) /\ qw' = qw
          /\ returned' = Append(returned, Head(qn).data) \/ returned' = returned
      BY <1>5, <2>3, WriteSends DEF WriteOut, WriteFails, ownVars
    <3>2. /\ Datas(Sends) # <<>> /\ Head(Datas(Sends)) = Head(qn).data
          /\ Datas(Sends') = Tail(Datas(Sends))
      BY <2>1, <3>1, DatasFacts
    <3>3. Owed # <<>> /\ Head(Owed) = Head(qn).data /\ Owed' = Tail(Owed)
      <4> DEFINE all == Datas(Sends) \o Lowered(qw)
      <4>1. /\ all # <<>> /\ Head(all) = Head(Datas(Sends))
            /\ Tail(Datas(Sends)) \o Lowered(qw) = Tail(all)
        BY <2>1, <3>2, Concatenated
      <4>2. Owed = all /\ Owed' = Tail(Datas(Sends)) \o Lowered(qw)
        BY <1>1, <1>2, <1>5, <3>1, <3>2
      <4> QED BY <3>2, <4>1, <4>2
    <3> QED BY <3>1, <3>3 DEF Service!Next, Service!Return, Service!Lose
  <2>4. CASE Inherited \/ BenchPeer
    BY <1>3, <2>4, QuietSends DEF benchVars, ownVars, pastVars
  <2>5. CASE Echo
    <3> DEFINE c == LowerCase(Head(qw).data)
               x == [type |-> "nq_send", session |-> session, data |-> c]
    <3>1. /\ qw # <<>> /\ qw' = Tail(qw) /\ qn' = Append(qn, x) /\ returned' = returned
      BY <2>5 DEF Echo, Poll, WorkerTurn, pastVars
    <3>2. Head(qw) \in BenchItem
      BY <2>1, <3>1, HeadTailProperties
    <3>3. x \in CharItem /\ x.data = c
      BY <3>2 DEF CharItem, BenchItem, LowerCase, BenchInv, QueuesInv
    <3> HIDE DEF x
    <3>4. Sends' = Append(Sends, x)
      BY <1>5, <3>1, <3>3, SendsMove DEF SentBy
    <3>5. Datas(Sends') = Append(Datas(Sends), c)
      BY <2>1, <3>3, <3>4, DatasFacts
    <3>6. /\ Lowered(qw) # <<>> /\ Head(Lowered(qw)) = c
          /\ Lowered(qw') = Tail(Lowered(qw))
      BY <2>1, <3>1, LoweredFacts
    <3>7. Owed' = Owed
      <4>1. Append(Datas(Sends), Head(Lowered(qw))) \o Tail(Lowered(qw))
              = Datas(Sends) \o Lowered(qw)
        BY <2>1, <3>6, Concatenated
      <4>2. Owed' = Append(Datas(Sends), c) \o Tail(Lowered(qw))
        BY <1>1, <1>2, <1>5, <3>5, <3>6
      <4> HIDE DEF c
      <4> QED BY <1>2, <1>5, <3>6, <4>1, <4>2
    <3> QED BY <3>1, <3>7
  <2>6. ~StartStop /\ ~Idle /\ ~Count
    BY <1>5 DEF StartStop, Idle, Count, NothingToDo, Poll
  <2>7. CASE UNCHANGED allVars
    BY <1>3, <2>7, SendsMove DEF allVars, vars, benchVars, ownVars, pastVars
  <2> QED BY <2>2, <2>3, <2>4, <2>5, <2>6, <2>7 DEF BenchNext, BenchNetThread, BenchWorker
<1> QED BY <1>4, <1>5

\* For any characters, sessions and faults, the echo server implements the echo
\* service: what it reads comes back in lower case, in order and once each, or
\* is lost with a connection.
THEOREM EchoImplementsService == BenchSpec => ImplementsEcho
<1>1. BenchInit => Service!Init
  <2> SUFFICES ASSUME BenchInit PROVE Owed = <<>> /\ returned = <<>>
    BY DEF Service!Init
  <2>1. Sends = <<>> /\ qw = <<>> /\ returned = <<>>
    BY NothingToSend DEF BenchInit
  <2>2. Datas(<<>>) = <<>> /\ Lowered(<<>>) = <<>> /\ <<>> \o <<>> = <<>>
    BY DEF Datas, Lowered
  <2> QED BY <2>1, <2>2 DEF Owed, Lowered
<1> QED
  BY <1>1, ServiceStep, BenchInvInit, BenchInvStep, PTL
  DEF BenchSpec, ImplementsEcho, Service!Spec
=============================================================================
