---------------------------- MODULE QueueProofs ----------------------------
(***************************************************************************)
(* The queue of App/queues.h is a bounded FIFO, for every capacity and     *)
(* every set of elements.                                                  *)
(***************************************************************************)
EXTENDS QueueMachine, CircularQueueLemmas

LEMMA ArraysAreSequences ==
  ASSUME NEW es \in Arrays
  PROVE  es \in Seq(Element) /\ Len(es) \in 1..Capacity
  BY QueueAssumption DEF Arrays

\* What the callers' tests mean for the contents.
LEMMA GuardsAsLengths ==
  ASSUME TypeOK
  PROVE  /\ queue \in Queue(Capacity, Element)
         /\ QueueLength(queue) \in 0..Capacity
         /\ ~QueueFull(queue) => QueueLength(queue) < Capacity
         /\ ~QueueEmpty(queue) => QueueLength(queue) > 0
<1>1. queue \in Queue(Capacity, Element) /\ Capacity \in Nat
  BY QueueAssumption DEF TypeOK
<1>. QED
  BY <1>1, ContentsType, SpaceAndLength

\* Every macro, used as its callers use it, keeps the queue well formed.
THEOREM TypeCorrect == Spec => []TypeOK
<1>1. Init => TypeOK
  BY QueueAssumption DEF Init, TypeOK, QueueDef, Queue
<1>2. TypeOK /\ [Next]_vars => TypeOK'
  <2>. SUFFICES ASSUME TypeOK, [Next]_vars
                PROVE  TypeOK'
    OBVIOUS
  <2>. USE QueueAssumption
  <2>0. queue \in Queue(Capacity, Element)
    BY DEF TypeOK
  <2>1. CASE UNCHANGED vars
    BY <2>1 DEF TypeOK, vars
  <2>2. ASSUME NEW e \in Element, Put(e)
        PROVE  TypeOK'
    BY <2>0, <2>2, GuardsAsLengths, PutAppends DEF Put, TypeOK
  <2>3. ASSUME NEW es \in Arrays, PutArray(es)
        PROVE  TypeOK'
    <3>1. es \in ArrayOf(Element) /\ Fits(queue, es)
      BY <2>3, ArraysAreSequences DEF PutArray, ArrayOf, Fits
    <3>. QED
      BY <2>0, <2>3, <3>1, ArraysAreSequences, PutArrayAppends DEF PutArray, TypeOK
  <2>4. CASE Get
    <3>1. /\ QueueGet(queue) \in Queue(Capacity, Element)
          /\ QueueFront(queue) \in Element
      <4>1. QueueContents(queue) \in Seq(Element) /\ Len(QueueContents(queue)) > 0
        BY <2>0, <2>4, GuardsAsLengths, ContentsType DEF Get
      <4>. QED
        BY <2>0, <2>4, <4>1, GuardsAsLengths, GetTakesHead, EmptySeq,
           HeadTailProperties DEF Get
    <3>. QED
      BY <2>4, <3>1 DEF Get, TypeOK
  <2>5. ASSUME NEW n \in 1..Capacity, GetArray(n)
        PROVE  TypeOK'
    <3>1. n \in 1..QueueLength(queue)
      BY <2>5, GuardsAsLengths DEF GetArray
    <3>2. \A i \in 1..n : QueueContents(queue)[i] \in Element
      BY <2>0, <3>1, ContentsType, ElementOfSeq
    <3>3. SubSeq(QueueContents(queue), 1, n) \in Seq(Element)
      BY <3>1, <3>2, SubSeqProperties
    <3>. QED
      BY <2>0, <2>5, <3>1, <3>3, GetArrayTakesFront DEF GetArray, TypeOK
  <2>. QED
    BY <2>1, <2>2, <2>3, <2>4, <2>5 DEF Next
<1>. QED
  BY <1>1, <1>2, PTL DEF Spec

\* The three tests of queues.h:53-73 agree with the number of elements held.
THEOREM SpaceAgreement == Spec => []SpaceAgrees
<1>1. TypeOK => SpaceAgrees
  BY QueueAssumption, ContentsType, SpaceAndLength DEF TypeOK, SpaceAgrees
<1>. QED
  BY <1>1, TypeCorrect, PTL

\* Elements come out whole, once each and in the order they were put.
THEOREM FifoImplemented == Spec => ImplementsFifo
<1>1. Init => Fifo!Init
  <2>1. ASSUME Init
        PROVE  QueueContents(queue) = <<>> /\ moved = <<>>
    BY <2>1, QueueAssumption DEF Init, QueueDef, QueueContents, QueueLength
  <2>. QED
    BY <2>1 DEF Fifo!Init
<1>2. TypeOK /\ [Next]_vars => [Fifo!Next]_<<QueueContents(queue), moved>>
  <2>. SUFFICES ASSUME TypeOK, [Next]_vars
                PROVE  [Fifo!Next]_<<QueueContents(queue), moved>>
    OBVIOUS
  <2>. USE QueueAssumption
  <2>0. /\ queue \in Queue(Capacity, Element)
        /\ QueueContents(queue) \in Seq(Element)
        /\ Len(QueueContents(queue)) = QueueLength(queue)
        /\ QueueLength(queue) \in 0..Capacity
    BY ContentsType DEF TypeOK
  <2>1. CASE UNCHANGED vars
    BY <2>1 DEF vars
  <2>2. ASSUME NEW e \in Element, Put(e)
        PROVE  Fifo!Next
    <3>1. QueueLength(queue) < Capacity /\ QueueLength(queue) + 1 <= Capacity
      BY <2>0, <2>2, GuardsAsLengths DEF Put
    <3>2. QueueContents(queue)' = Append(QueueContents(queue), e)
      BY <2>0, <2>2, <3>1, PutAppends DEF Put
    <3>3. QueueContents(queue)' = QueueContents(queue) \o <<e>>
      BY <2>0, <3>2, AppendIsConcat
    <3>4. <<e>> \in Fifo!Arrays /\ Len(<<e>>) = 1
      BY DEF Fifo!Arrays
    <3>5. Fifo!Put(<<e>>)
      BY <2>0, <2>2, <3>1, <3>3, <3>4 DEF Fifo!Put, Put
    <3>. QED
      BY <3>4, <3>5 DEF Fifo!Next
  <2>3. ASSUME NEW es \in Arrays, PutArray(es)
        PROVE  Fifo!Next
    <3>1. es \in ArrayOf(Element) /\ Fits(queue, es) /\ Len(es) \in Nat
      BY <2>3, ArraysAreSequences DEF PutArray, ArrayOf, Fits
    <3>2. QueueContents(queue)' = QueueContents(queue) \o es
      BY SMTT(20), <2>0, <2>3, <3>1, PutArrayAppends DEF PutArray
    <3>3. Len(QueueContents(queue)) + Len(es) <= Capacity
      BY <2>0, <2>3, <3>1, SpaceAndLength DEF PutArray
    <3>4. Fifo!Put(es)
      BY <2>3, <3>2, <3>3 DEF Fifo!Put, PutArray
    <3>. QED
      BY <3>4 DEF Fifo!Next, Fifo!Arrays, Arrays
  <2>4. CASE Get
    <3>1. QueueLength(queue) > 0
      BY <2>4, GuardsAsLengths DEF Get
    <3>2. /\ moved' = <<Head(QueueContents(queue))>>
          /\ QueueContents(queue)' = Tail(QueueContents(queue))
      BY <2>0, <2>4, <3>1, GetTakesHead DEF Get
    <3>3. Fifo!Get(1)
      <4>. DEFINE c == QueueContents(queue)
      <4>1. c \in Seq(Element) /\ c # <<>> /\ 1 <= Len(c)
        BY <2>0, <3>1, EmptySeq
      <4>2. SubSeq(c, 1, 1) = <<c[1]>>
        <5>1. SubSeq(c, 1, 1) = <<c[1]>> \o SubSeq(c, 2, 1)
          BY <4>1, SubSeqRecursiveFirst
        <5>2. SubSeq(c, 2, 1) = <<>>
          BY SubSeqEmpty
        <5>3. <<c[1]>> \in Seq(Element)
          BY <4>1, ElementOfSeq
        <5>. QED
          BY <5>1, <5>2, <5>3, ConcatEmptySeq
      <4>3. SubSeq(c, 2, Len(c)) = Tail(c) /\ Head(c) = c[1]
        BY <4>1, TailIsSubSeq
      <4>. QED
        BY <3>2, <4>1, <4>2, <4>3 DEF Fifo!Get
    <3>. QED
      BY <3>3 DEF Fifo!Next
  <2>5. ASSUME NEW n \in 1..Capacity, GetArray(n)
        PROVE  Fifo!Next
    <3>1. n \in 1..QueueLength(queue)
      BY <2>5, GuardsAsLengths DEF GetArray
    <3>2. Fifo!Get(n)
      BY <2>0, <2>5, <3>1, GetArrayTakesFront DEF GetArray, Fifo!Get
    <3>. QED
      BY <3>2 DEF Fifo!Next
  <2>. QED
    BY <2>1, <2>2, <2>3, <2>4, <2>5 DEF Next
<1>. QED
  BY <1>1, <1>2, TypeCorrect, PTL DEF Spec, ImplementsFifo, Fifo!Spec
=============================================================================
