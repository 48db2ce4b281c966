--------------------------- MODULE CanDybugProofs ---------------------------
(***************************************************************************)
(* Theorems about the transmit path, for every buffer size, number of      *)
(* mailboxes, of frames and of bus errors; then about the transmit path    *)
(* and the IN pipe in composition: they keep their promises, so what is    *)
(* proved of each alone holds of both together.                            *)
(***************************************************************************)
EXTENDS CanDybug, CircularQueueLemmas

\* One OUT transfer fits in the queue, and the threshold is what it can bring.
LEMMA Sizes ==
  /\ TxCapacity \in Nat \ {0}
  /\ MaxBatch \in Nat \ {0}
  /\ ReceiveSpace = MaxBatch
  /\ MaxBatch <= TxCapacity
  BY CanTxAssumption DEF TxCapacity, MaxBatch, ReceiveSpace

\* A sequence without its element i.
LEMMA RemoveAtProperties ==
  ASSUME NEW S, NEW s \in Seq(S), NEW i \in 1..Len(s)
  PROVE  /\ RemoveAt(s, i) \in Seq(S)
         /\ Len(RemoveAt(s, i)) = Len(s) - 1
         /\ \A j \in 1..(Len(s) - 1) :
              RemoveAt(s, i)[j] = IF j < i THEN s[j] ELSE s[j + 1]
<1>. DEFINE a == SubSeq(s, 1, i - 1)
            b == SubSeq(s, i + 1, Len(s))
<1>0. Len(s) \in Nat /\ i \in Nat
  OBVIOUS
<1>1. /\ a \in Seq(S) /\ Len(a) = i - 1
      /\ \A j \in 1..(i - 1) : a[j] = s[j]
  <2>1. \A j \in 1..(i - 1) : s[j] \in S
    BY ElementOfSeq
  <2>. QED
    BY <1>0, <2>1, SubSeqProperties
<1>2. /\ b \in Seq(S) /\ Len(b) = Len(s) - i
      /\ \A j \in 1..(Len(s) - i) : b[j] = s[i + j]
  <2>1. \A j \in (i + 1)..Len(s) : s[j] \in S
    BY ElementOfSeq
  <2>. QED
    BY <1>0, <2>1, SubSeqProperties
<1>3. RemoveAt(s, i) = a \o b
  BY DEF RemoveAt
<1>. HIDE DEF a, b
<1>4. /\ a \o b \in Seq(S) /\ Len(a \o b) = Len(a) + Len(b)
      /\ \A j \in 1..(Len(a) + Len(b)) :
           (a \o b)[j] = IF j <= Len(a) THEN a[j] ELSE b[j - Len(a)]
  BY <1>1, <1>2, ConcatProperties
<1>5. Len(a) + Len(b) = Len(s) - 1
  BY <1>0, <1>1, <1>2
<1>6. ASSUME NEW j \in 1..(Len(s) - 1)
      PROVE  (a \o b)[j] = IF j < i THEN s[j] ELSE s[j + 1]
  <2>1. CASE j < i
    BY <1>0, <1>1, <1>4, <1>5, <2>1
  <2>2. CASE ~(j < i)
    <3>1. j - (i - 1) \in 1..(Len(s) - i) /\ i + (j - (i - 1)) = j + 1
      BY <1>0, <2>2
    <3>2. (a \o b)[j] = b[j - (i - 1)]
      BY <1>0, <1>1, <1>4, <1>5, <2>2
    <3>. QED
      BY <1>2, <2>2, <3>1, <3>2
  <2>. QED
    BY <2>1, <2>2
<1>. QED
  BY <1>3, <1>4, <1>5, <1>6

\* Ending the request of a mailbox leaves the other requests in their order.
LEMMA WithoutProperties ==
  ASSUME TypeOK, MailboxFlags, NEW m \in Requested
  PROVE  /\ Place(m) \in 1..Len(pending) /\ pending[Place(m)] = m
         /\ Without(m) \in Seq(Mailboxes)
         /\ Len(Without(m)) = Len(pending) - 1
         /\ \A j \in 1..(Len(pending) - 1) :
              Without(m)[j] = IF j < Place(m) THEN pending[j] ELSE pending[j + 1]
         /\ {Without(m)[i] : i \in DOMAIN Without(m)} = Requested \ {m}
         /\ \A i, j \in DOMAIN Without(m) : Without(m)[i] = Without(m)[j] => i = j
<1>. DEFINE w == Without(m)
            k == Place(m)
<1>0. pending \in Seq(Mailboxes) /\ Len(pending) \in Nat /\ DOMAIN pending = 1..Len(pending)
  BY DEF TypeOK, RequestsType
<1>1. k \in 1..Len(pending) /\ pending[k] = m
  BY <1>0 DEF Requested, Place
<1>. HIDE DEF k
<1>2. /\ w \in Seq(Mailboxes) /\ Len(w) = Len(pending) - 1
      /\ \A j \in 1..(Len(pending) - 1) : w[j] = IF j < k THEN pending[j] ELSE pending[j + 1]
  BY <1>0, <1>1, RemoveAtProperties DEF Without, k
<1>3. DOMAIN w = 1..(Len(pending) - 1)
  BY <1>2
<1>. HIDE DEF w
<1>4. \A i, j \in 1..Len(pending) : pending[i] = pending[j] => i = j
  BY <1>0 DEF MailboxFlags
<1>5. {w[i] : i \in DOMAIN w} = Requested \ {m}
  <2>1. ASSUME NEW i \in DOMAIN w
        PROVE  w[i] \in Requested \ {m}
    <3>1. PICK j \in 1..Len(pending) : j # k /\ w[i] = pending[j]
      <4>1. CASE i < k
        BY <1>0, <1>1, <1>2, <1>3, <4>1
      <4>2. CASE ~(i < k)
        <5>1. i + 1 \in 1..Len(pending) /\ i + 1 # k
          BY <1>0, <1>1, <1>3, <4>2
        <5>2. w[i] = pending[i + 1]
          BY <1>2, <1>3, <4>2
        <5>. QED
          BY <5>1, <5>2
      <4>. QED
        BY <4>1, <4>2
    <3>. QED
      BY <1>0, <1>1, <1>4, <3>1 DEF Requested
  <2>2. ASSUME NEW n \in Requested \ {m}
        PROVE  \E i \in DOMAIN w : w[i] = n
    <3>1. PICK i \in 1..Len(pending) : pending[i] = n
      BY <1>0 DEF Requested
    <3>2. CASE i < k
      BY <1>0, <1>1, <1>2, <1>3, <3>1, <3>2
    <3>3. CASE i > k
      <4>1. i - 1 \in 1..(Len(pending) - 1) /\ ~(i - 1 < k) /\ (i - 1) + 1 = i
        BY <1>0, <1>1, <3>3
      <4>. QED
        BY <1>2, <1>3, <3>1, <4>1
    <3>. QED
      BY <1>0, <1>1, <3>1, <3>2, <3>3
  <2>. QED
    BY <2>1, <2>2
<1>6. \A i, j \in DOMAIN w : w[i] = w[j] => i = j
  <2>. SUFFICES ASSUME NEW i \in DOMAIN w, NEW j \in DOMAIN w, i # j
                PROVE  w[i] # w[j]
    OBVIOUS
  <2>. DEFINE old(x) == IF x < k THEN x ELSE x + 1
  <2>1. /\ old(i) \in 1..Len(pending) /\ old(j) \in 1..Len(pending)
        /\ old(i) # old(j)
    BY <1>0, <1>1, <1>3
  <2>2. w[i] = pending[old(i)] /\ w[j] = pending[old(j)]
    BY <1>2, <1>3
  <2>. HIDE DEF old
  <2>. QED
    BY <1>4, <2>1, <2>2
<1>. QED
  BY <1>1, <1>2, <1>5, <1>6 DEF w, k

\* What a step that leaves a group of variables alone keeps.
LEMMA Unchanged ==
  ASSUME ControlInv, FramesHeld
  PROVE  /\ queue' = queue => queue' \in Queue(TxCapacity, Frame \cup {NoFrame})
         /\ UNCHANGED host => HostType' /\ UNCHANGED <<taken, armed, todo>>
         /\ UNCHANGED requests =>
              RequestsType' /\ UNCHANGED <<mailbox, pending, onAir, txok>>
         /\ UNCHANGED errors => ErrorsType'
         /\ UNCHANGED bus => BusType'
         /\ UNCHANGED handler => HandlerType' /\ UNCHANGED <<pc, mb>>
         /\ UNCHANGED history => HistoryType'
         /\ UNCHANGED <<sent, acked>> /\ unseen' \in BOOLEAN => HistoryType'
         /\ UNCHANGED <<queue, armed, todo>> => ReceptionHasRoom'
         /\ UNCHANGED <<taken, todo, pc, armed, mb>> => HandlerSteps'
         /\ UNCHANGED pending => Requested' = Requested
         /\ UNCHANGED <<pending, onAir, txok>> => MailboxFlags'
         /\ UNCHANGED <<queue, taken>> => QueueHeld'
         /\ UNCHANGED <<mailbox, pending, txok, taken>> => MailboxesHeld'
<1>1. /\ queue' = queue => queue' \in Queue(TxCapacity, Frame \cup {NoFrame})
      /\ UNCHANGED host => HostType' /\ UNCHANGED <<taken, armed, todo>>
      /\ UNCHANGED errors => ErrorsType'
      /\ UNCHANGED bus => BusType'
  BY DEF ControlInv, TypeOK, HostType, ErrorsType, BusType, host, errors, bus
<1>2. /\ UNCHANGED requests =>
           RequestsType' /\ UNCHANGED <<mailbox, pending, onAir, txok>>
      /\ UNCHANGED handler => HandlerType' /\ UNCHANGED <<pc, mb>>
      /\ UNCHANGED history => HistoryType'
      /\ UNCHANGED <<sent, acked>> /\ unseen' \in BOOLEAN => HistoryType'
  BY DEF ControlInv, TypeOK, RequestsType, HandlerType, HistoryType, requests,
         handler, history
<1>3. /\ UNCHANGED <<queue, armed, todo>> => ReceptionHasRoom'
      /\ UNCHANGED <<taken, todo, pc, armed, mb>> => HandlerSteps'
  BY DEF ControlInv, ReceptionHasRoom, HandlerSteps
<1>4. /\ UNCHANGED pending => Requested' = Requested
      /\ UNCHANGED <<pending, onAir, txok>> => MailboxFlags'
      /\ UNCHANGED <<queue, taken>> => QueueHeld'
      /\ UNCHANGED <<mailbox, pending, txok, taken>> => MailboxesHeld'
  BY DEF ControlInv, MailboxFlags, FramesHeld, QueueHeld, MailboxesHeld, Requested
<1>. QED
  BY <1>1, <1>2, <1>3, <1>4

\* Resetting the CAN peripheral leaves no request and no flag.
LEMMA ResetCanKeeps ==
  ASSUME ControlInv, FramesHeld, ResetCan
  PROVE  RequestsType' /\ ErrorsType' /\ MailboxFlags' /\ MailboxesHeld'
<1>1. pending' = <<>> /\ onAir' = NoMailbox /\ rqcp' = {} /\ txok' = {} /\ abrq' = {}
  BY DEF ResetCan
<1>2. pending' \in Seq(Mailboxes) /\ DOMAIN pending' = {}
  BY <1>1
<1>3. RequestsType'
  BY <1>1, <1>2 DEF ResetCan, ControlInv, TypeOK, RequestsType
<1>4. ErrorsType'
  BY DEF ResetCan, ErrorsType, Levels
<1>5. Requested' = {}
  BY <1>2 DEF Requested
<1>. QED
  BY <1>1, <1>2, <1>3, <1>4, <1>5 DEF MailboxFlags, MailboxesHeld

\* Emptying the queue makes room for any transfer.
LEMMA ResetQueueKeeps ==
  ASSUME ControlInv, queue' = QueueReset(queue)
  PROVE  /\ queue' \in Queue(TxCapacity, Frame \cup {NoFrame})
         /\ QueueSpace(queue') = TxCapacity
         /\ QueueContents(queue') = <<>>
         /\ QueueHeld'
<1>1. queue \in Queue(TxCapacity, Frame \cup {NoFrame}) /\ TxCapacity \in Nat
  BY Sizes DEF ControlInv, TypeOK
<1>2. /\ queue' \in Queue(TxCapacity, Frame \cup {NoFrame})
      /\ QueueSpace(queue') = TxCapacity
      /\ QueueContents(queue') = <<>>
  BY <1>1, ResetEmpties
<1>. QED
  BY <1>2 DEF QueueHeld

\* Errors lead to error states.
LEMMA ErrorDetectedKeeps ==
  ASSUME ControlInv, NEW limits \in SUBSET Levels, ErrorDetected(limits)
  PROVE  ErrorsType'
<1>1. level \in Levels
  BY DEF ControlInv, TypeOK, ErrorsType
<1>. QED
  BY <1>1 DEF ErrorDetected, ErrorsType

\* CanIf_Open, Can_Close and the arrival of OUT data.
LEMMA UsbStep ==
  ASSUME ControlInv, FramesHeld, UsbInterrupt
  PROVE  ControlInv' /\ FramesHeld'
<1>. USE DEF ControlInv, FramesHeld, TypeOK
<1>1. CASE OpenBadRate
  <2>1. UNCHANGED <<queue, taken, armed, todo, stopped, noise, handler, history>>
    BY <1>1 DEF OpenBadRate, ResetCan
  <2>2. HostType' /\ BusType'
    BY <1>1, <2>1 DEF OpenBadRate, ResetCan, HostType, BusType
  <2>3. UNCHANGED <<pc, mb>>
    BY <2>1, Unchanged
  <2>. QED
    BY <1>1, <2>1, <2>2, <2>3, Unchanged, ResetCanKeeps DEF OpenBadRate
<1>2. CASE OpenNoSync
  <2>1. /\ UNCHANGED <<taken, armed, todo, stopped, noise, handler, sent, acked>>
        /\ unseen' \in BOOLEAN
    BY <1>2 DEF OpenNoSync, ResetCan
  <2>2. HostType' /\ BusType'
    BY <1>2, <2>1 DEF OpenNoSync, ResetCan, HostType, BusType
  <2>3. UNCHANGED <<pc, mb>>
    BY <2>1, Unchanged
  <2>4. ReceptionHasRoom'
    BY <1>2, <2>1, Sizes, ResetQueueKeeps DEF OpenNoSync, ReceptionHasRoom, HostType
  <2>. QED
    BY <1>2, <2>1, <2>2, <2>3, <2>4, Unchanged, ResetCanKeeps, ResetQueueKeeps
       DEF OpenNoSync
<1>3. CASE OpenOk
  <2>1. /\ UNCHANGED <<taken, todo, noise, handler, sent, acked>>
        /\ unseen' \in BOOLEAN
    BY <1>3 DEF OpenOk, ResetCan
  <2>2. HostType' /\ BusType'
    <3>1. armed' \in BOOLEAN /\ stopped' \in BOOLEAN
      BY <1>3, Zenon DEF OpenOk
    <3>. QED
      BY <1>3, <2>1, <3>1 DEF OpenOk, ResetCan, HostType, BusType
  <2>3. UNCHANGED <<pc, mb>>
    BY <2>1, Unchanged
  <2>4. ReceptionHasRoom'
    BY <1>3, <2>1, Sizes, ResetQueueKeeps DEF OpenOk, ReceptionHasRoom, HostType
  <2>5. HandlerSteps'
    BY <1>3, <2>1, <2>3 DEF OpenOk, HandlerSteps
  <2>. QED
    BY <1>3, <2>1, <2>2, <2>3, <2>4, <2>5, Unchanged, ResetCanKeeps, ResetQueueKeeps
       DEF OpenOk
<1>4. CASE Can_Close
  <2>1. UNCHANGED <<queue, taken, todo, stopped, noise, handler, history>>
    BY <1>4 DEF Can_Close, ResetCan
  <2>2. HostType' /\ BusType'
    <3>1. armed' \in BOOLEAN
      BY <1>4, Zenon DEF Can_Close
    <3>. QED
      BY <1>4, <2>1, <3>1 DEF Can_Close, ResetCan, HostType, BusType
  <2>3. UNCHANGED <<pc, mb>>
    BY <2>1, Unchanged
  <2>4. ReceptionHasRoom' /\ HandlerSteps'
    BY <1>4, <2>1, <2>3 DEF Can_Close, ReceptionHasRoom, HandlerSteps
  <2>. QED
    BY <1>4, <2>1, <2>2, <2>3, <2>4, Unchanged, ResetCanKeeps DEF Can_Close
<1>5. ASSUME NEW n \in 0..MaxBatch, OutComplete(n)
      PROVE  ControlInv' /\ FramesHeld'
  <2>1. /\ UNCHANGED <<queue, requests, errors, bus, history>>
        /\ UNCHANGED <<taken, port, stopped, mb, ok, seen>>
    BY <1>5 DEF OutComplete
  <2>2. HostType' /\ HandlerType'
    BY <1>5, <2>1 DEF OutComplete, HostType, HandlerType, Steps
  <2>3. n <= QueueSpace(queue)
    <3>1. QueueSpace(queue) \in Int
      BY Sizes, ContentsType, SpaceAndLength
    <3>. QED
      BY <1>5, <3>1, Sizes DEF OutComplete, ReceptionHasRoom
  <2>4. ReceptionHasRoom' /\ HandlerSteps'
    BY <1>5, <2>1, <2>3 DEF OutComplete, ReceptionHasRoom, HandlerSteps
  <2>. QED
    BY <2>1, <2>2, <2>4, Unchanged
<1>. QED
  BY <1>1, <1>2, <1>3, <1>4, <1>5 DEF UsbInterrupt, CanIf_Open

\* Can_HandleRequest, Can_PostFrames and CanIf_ReceiveOutData.
LEMMA RequestStep ==
  ASSUME ControlInv, FramesHeld,
         \/ HandleRequest \/ RejectRequest \/ ParseDone
         \/ \E m \in Mailboxes : PostFrame(m)
         \/ PostDone \/ ReceiveOutData
  PROVE  ControlInv' /\ FramesHeld'
<1>. USE DEF ControlInv, FramesHeld, TypeOK
<1>0. /\ queue \in Queue(TxCapacity, Frame \cup {NoFrame})
      /\ QueueLength(queue) \in Nat
      /\ QueueSpace(queue) = TxCapacity - QueueLength(queue)
      /\ QueueContents(queue) \in Seq(Frame \cup {NoFrame})
      /\ Len(QueueContents(queue)) = QueueLength(queue)
  BY Sizes, ContentsType, SpaceAndLength
<1>1. CASE HandleRequest
  <2>1. /\ UNCHANGED <<requests, errors, bus, handler, history>>
        /\ UNCHANGED <<armed, port, stopped>>
        /\ queue' = QueuePut(queue, taken + 1)
        /\ taken' = taken + 1 /\ todo' = todo - 1 /\ todo > 0 /\ pc = "parse"
    BY <1>1 DEF HandleRequest
  <2>2. taken \in Nat /\ todo \in 1..MaxBatch /\ taken + 1 \in Frame /\ taken + todo <= MaxFrames
    BY <2>1, CanTxAssumption DEF HostType, HandlerSteps, Frame
  <2>3. QueueLength(queue) < TxCapacity
    BY <1>0, <2>2, Sizes DEF ReceptionHasRoom
  <2>4. /\ queue' \in Queue(TxCapacity, Frame \cup {NoFrame})
        /\ QueueLength(queue') = QueueLength(queue) + 1
        /\ QueueContents(queue') = Append(QueueContents(queue), taken + 1)
    BY <1>0, <2>1, <2>2, <2>3, Sizes, PutAppends
  <2>5. QueueSpace(queue') = QueueSpace(queue) - 1
    BY <1>0, <2>4, Sizes, SpaceAndLength
  <2>6. HostType'
    BY <2>1, <2>2, CanTxAssumption, Sizes DEF HostType
  <2>7. UNCHANGED <<mailbox, pending, onAir, txok, pc, mb>>
    BY <2>1, Unchanged
  <2>8. ReceptionHasRoom' /\ HandlerSteps'
    BY <1>0, <2>1, <2>2, <2>5, <2>7, Sizes DEF ReceptionHasRoom, HandlerSteps
  <2>9. QueueHeld'
    <3>. DEFINE c == QueueContents(queue)
    <3>1. taken + 1 \in Frame \cup {NoFrame} /\ Len(c) \in Nat
      BY <1>0, <2>2
    <3>2. /\ DOMAIN c = 1..Len(c)
          /\ DOMAIN QueueContents(queue') = 1..(Len(c) + 1)
          /\ \A i \in 1..Len(c) : QueueContents(queue')[i] = c[i]
          /\ QueueContents(queue')[Len(c) + 1] = taken + 1
      BY <1>0, <2>4, <3>1, AppendProperties
    <3>3. \A i \in 1..Len(c) : c[i] \in 1..taken
      BY <3>2 DEF QueueHeld
    <3>. HIDE DEF c
    <3>. QED
      BY <2>1, <2>2, <3>1, <3>2, <3>3 DEF QueueHeld
  <2>10. MailboxesHeld'
    <3>1. 1..taken \subseteq 1..(taken + 1)
      BY <2>2
    <3>. QED
      BY <2>1, <2>7, <3>1, Unchanged DEF MailboxesHeld
  <2>. QED
    BY <2>1, <2>4, <2>6, <2>7, <2>8, <2>9, <2>10, Unchanged
<1>2. CASE RejectRequest
  <2>1. /\ UNCHANGED <<queue, requests, errors, bus, history>>
        /\ UNCHANGED <<taken, armed, port, mb, ok, seen>>
        /\ todo' = 0 /\ pc' = "idle"
    BY <1>2 DEF RejectRequest
  <2>2. stopped' \in BOOLEAN
    BY <1>2, Zenon DEF RejectRequest
  <2>3. HostType' /\ HandlerType'
    BY <2>1, <2>2, Sizes DEF HostType, HandlerType, Steps
  <2>4. QueueSpace(queue) >= 0
    BY <1>0, Sizes, ContentsType
  <2>5. ReceptionHasRoom' /\ HandlerSteps'
    BY <2>1, <2>4, Sizes DEF ReceptionHasRoom, HandlerSteps, HostType
  <2>. QED
    BY <2>1, <2>3, <2>5, Unchanged
<1>3. CASE ParseDone \/ PostDone
  <2>1. /\ UNCHANGED <<queue, host, requests, errors, bus, sent, acked>>
        /\ UNCHANGED <<mb, ok, seen>>
        /\ pc' \in Steps \ {"parse", "txRqcp"}
    BY <1>3 DEF ParseDone, PostDone, Steps, history
  <2>0. unseen' \in BOOLEAN
    BY <1>3 DEF ParseDone, PostDone, history, HistoryType
  <2>2. HandlerType' /\ HandlerSteps'
    BY <2>1, Unchanged DEF HandlerType, HandlerSteps
  <2>. QED
    BY <2>0, <2>1, <2>2, Unchanged
<1>4. ASSUME NEW m \in Mailboxes, PostFrame(m)
      PROVE  ControlInv' /\ FramesHeld'
  <2>1. /\ UNCHANGED <<host, errors, bus, handler, history, onAir, abrq>>
        /\ queue' = QueueGet(queue) /\ pending' = Append(pending, m)
        /\ mailbox' = [mailbox EXCEPT ![m] = QueueFront(queue)]
        /\ rqcp' = rqcp \ {m} /\ txok' = txok \ {m}
        /\ m \in Mailboxes \ Requested /\ ~QueueEmpty(queue)
    BY <1>4 DEF PostFrame, IsNextMailbox, Empty
  <2>2. QueueLength(queue) > 0
    BY <1>0, <2>1, Sizes, SpaceAndLength
  <2>3. /\ queue' \in Queue(TxCapacity, Frame \cup {NoFrame})
        /\ QueueLength(queue') = QueueLength(queue) - 1
        /\ QueueFront(queue) = Head(QueueContents(queue))
        /\ QueueContents(queue') = Tail(QueueContents(queue))
    BY <1>0, <2>1, <2>2, Sizes, GetTakesHead
  <2>4. QueueSpace(queue') = QueueSpace(queue) + 1
    BY <1>0, <2>3, Sizes, SpaceAndLength
  <2>5. UNCHANGED <<taken, armed, todo, pc, mb>>
    BY <2>1, Unchanged
  <2>6. ReceptionHasRoom'
    BY <1>0, <2>4, <2>5, Sizes DEF ReceptionHasRoom, HostType
  <2>7. /\ QueueFront(queue) \in 1..taken /\ QueueFront(queue) \in Frame \cup {NoFrame}
        /\ QueueHeld'
    <3>1. QueueContents(queue) # <<>>
      BY <1>0, <2>2, EmptySeq
    <3>2. QueueFront(queue) = QueueContents(queue)[1]
      BY <1>0, <2>3, <3>1
    <3>3. \A i \in 1..(QueueLength(queue) - 1) :
             QueueContents(queue')[i] = QueueContents(queue)[i + 1]
      BY <1>0, <2>3, <3>1, HeadTailProperties
    <3>4. DOMAIN QueueContents(queue') = 1..(QueueLength(queue) - 1)
      BY <1>0, <2>3, <3>1, HeadTailProperties
    <3>. QED
      BY SMTT(20), <1>0, <2>2, <2>5, <3>2, <3>3, <3>4 DEF QueueHeld
  <2>8. /\ pending' \in Seq(Mailboxes) /\ Len(pending') = Len(pending) + 1
        /\ \A i \in 1..Len(pending) : pending'[i] = pending[i]
        /\ pending'[Len(pending) + 1] = m
        /\ DOMAIN pending = 1..Len(pending) /\ Len(pending) \in Nat
        /\ DOMAIN pending' = 1..(Len(pending) + 1)
    BY <2>1, AppendProperties DEF RequestsType
  <2>9. Requested' = Requested \cup {m}
    BY <2>8 DEF Requested
  <2>10. RequestsType'
    <3>1. mailbox' \in [Mailboxes -> Frame \cup {NoFrame}]
      BY <2>1, <2>7 DEF RequestsType
    <3>. QED
      BY <2>1, <2>8, <3>1 DEF RequestsType
  <2>11. MailboxFlags'
    <3>1. \A i, j \in DOMAIN pending' : pending'[i] = pending'[j] => i = j
      BY <2>1, <2>8 DEF MailboxFlags, Requested
    <3>2. onAir' # NoMailbox => pending' # <<>> /\ pending'[1] = onAir'
      BY <2>1, <2>8 DEF MailboxFlags
    <3>. QED
      BY <2>1, <2>9, <3>1, <3>2 DEF MailboxFlags
  <2>12. MailboxesHeld'
    BY <2>1, <2>5, <2>7, <2>9 DEF MailboxesHeld, RequestsType
  <2>. QED
    BY <2>1, <2>3, <2>5, <2>6, <2>7, <2>10, <2>11, <2>12, Unchanged
<1>5. CASE ReceiveOutData
  <2>1. /\ UNCHANGED <<queue, requests, errors, bus, history>>
        /\ UNCHANGED <<taken, todo, port, stopped, mb, ok, seen>>
        /\ pc' \in Steps \ {"parse", "txRqcp"}
    BY <1>5 DEF ReceiveOutData, AfterTx, Steps
  <2>2. armed' \in BOOLEAN
    BY <1>5, Zenon DEF ReceiveOutData
  <2>3. armed' => armed \/ QueueSpace(queue) >= ReceiveSpace
    BY <1>5, Zenon DEF ReceiveOutData
  <2>4. HostType' /\ HandlerType' /\ HandlerSteps'
    BY <2>1, <2>2 DEF HostType, HandlerType, HandlerSteps
  <2>5. ReceptionHasRoom'
    BY <2>1, <2>3, Sizes DEF ReceptionHasRoom
  <2>. QED
    BY <2>1, <2>4, <2>5, Unchanged
<1>. QED
  BY <1>1, <1>2, <1>3, <1>4, <1>5

\* The CAN interrupts, Can_FrameSent, Can_FrameReceived and Can_BusError.
LEMMA CanStep ==
  ASSUME ControlInv, FramesHeld,
         \/ CanInterrupt
         \/ FrameSentOk \/ FrameNotOk \/ ClearCompleted \/ FrameSentDone
         \/ FrameReceived \/ ReceiveDone
         \/ ErrorTest \/ ErrorRead \/ ErrorClear \/ AbortMailbox \/ AbortDone
  PROVE  ControlInv' /\ FramesHeld'
<1>. USE DEF ControlInv, FramesHeld, TypeOK
<1>1. ASSUME UNCHANGED <<queue, host, requests, errors, bus, mb, ok, history>>,
             seen' \in Levels,
             pc' \in Steps \ {"parse", "txRqcp"}
      PROVE  ControlInv' /\ FramesHeld'
  <2>1. HandlerType' /\ HandlerSteps'
    BY <1>1, Unchanged DEF HandlerType, HandlerSteps
  <2>. QED
    BY <1>1, <2>1, Unchanged
<1>2. CASE CanInterrupt \/ ReceiveDone \/ ErrorTest
  <2>1. seen \in Levels
    BY DEF HandlerType
  <2>. QED
    BY <1>1, <1>2, <2>1
       DEF CanInterrupt, CanIrq, TxIrq, RxIrq, ErrorIrq, ReceiveDone, AfterRx,
           ErrorTest, Steps
<1>3. CASE ErrorRead
  <2>1. level \in Levels
    BY DEF ErrorsType
  <2>. QED
    BY <1>1, <1>3, <2>1 DEF ErrorRead, Steps
<1>4. CASE FrameNotOk
  <2>1. /\ UNCHANGED <<queue, host, requests, errors, bus, history>>
        /\ UNCHANGED <<mb, ok, seen>> /\ pc = "txTxok" /\ pc' = "txRqcp"
        /\ mb <= MailboxCount
    BY <1>4 DEF FrameNotOk
  <2>2. HandlerType' /\ HandlerSteps'
    BY <2>1, Unchanged DEF HandlerType, HandlerSteps, Steps
  <2>. QED
    BY <2>1, <2>2, Unchanged
<1>5. CASE FrameSentOk
  <2>1. /\ UNCHANGED <<queue, host, errors, bus, mailbox, pending, onAir, abrq>>
        /\ UNCHANGED <<pc, seen, sent, unseen>> /\ pc = "txTxok" /\ mb' = mb + 1
        /\ rqcp' = rqcp \ {mb} /\ txok' = txok \ {mb} /\ mb \in txok
        /\ acked' = acked \cup {mailbox[mb]}
    BY <1>5 DEF FrameSentOk
  <2>2. ok' \in BOOLEAN
    BY <1>5, Zenon DEF FrameSentOk
  <2>3. mb \in Mailboxes
    BY <2>1 DEF RequestsType
  <2>4. HandlerType' /\ HandlerSteps'
    BY <2>1, <2>2, <2>3, CanTxAssumption, Unchanged
       DEF HandlerType, HandlerSteps, Mailboxes
  <2>5. RequestsType' /\ Requested' = Requested
    BY <2>1 DEF RequestsType, Requested
  <2>6. MailboxFlags'
    BY <2>1, <2>5 DEF MailboxFlags
  <2>7. HistoryType'
    <3>1. mailbox[mb] \in 1..taken /\ taken \in 0..MaxFrames
      BY <2>1 DEF MailboxesHeld, HostType
    <3>2. mailbox[mb] \in Frame
      BY <3>1, CanTxAssumption DEF Frame
    <3>. QED
      BY <2>1, <3>2 DEF HistoryType
  <2>8. MailboxesHeld'
    BY <2>1, <2>5, Unchanged DEF MailboxesHeld
  <2>. QED
    BY <2>1, <2>4, <2>5, <2>6, <2>7, <2>8, Unchanged
<1>6. CASE ClearCompleted
  <2>1. /\ UNCHANGED <<queue, host, errors, bus, sent, acked>>
        /\ UNCHANGED <<mailbox, pending, onAir, abrq, ok, seen>>
        /\ rqcp' = rqcp \ {mb} /\ txok' = txok \ {mb}
        /\ pc = "txRqcp" /\ mb' = mb + 1 /\ pc' = "txTxok"
    BY <1>6 DEF ClearCompleted
  <2>0. unseen' \in BOOLEAN
    BY <1>6, Zenon DEF ClearCompleted
  <2>2. HandlerType' /\ HandlerSteps'
    BY <2>1, CanTxAssumption, Unchanged DEF HandlerType, HandlerSteps, Steps
  <2>3. RequestsType' /\ Requested' = Requested
    BY <2>1 DEF RequestsType, Requested
  <2>4. MailboxFlags' /\ MailboxesHeld'
    BY <2>1, <2>3, Unchanged DEF MailboxFlags, MailboxesHeld
  <2>. QED
    BY <2>0, <2>1, <2>2, <2>3, <2>4, Unchanged
<1>7. CASE FrameSentDone
  <2>1. /\ UNCHANGED <<queue, host, requests, errors, bus, seen, history>>
        /\ mb' = 1 /\ pc' \in Steps \ {"parse", "txRqcp"}
    BY <1>7 DEF FrameSentDone, AfterTx, Steps
  <2>2. ok' \in BOOLEAN
    BY <1>7, Zenon DEF FrameSentDone
  <2>3. HandlerType' /\ HandlerSteps'
    BY <2>1, <2>2, CanTxAssumption, Unchanged DEF HandlerType, HandlerSteps
  <2>. QED
    BY <2>1, <2>3, Unchanged
<1>8. CASE FrameReceived
  <2>1. /\ UNCHANGED <<queue, host, requests, errors, can, noise, handler, history>>
        /\ fmp > 0 /\ fmp' = fmp - 1
    BY <1>8 DEF FrameReceived
  <2>2. BusType'
    BY <2>1 DEF BusType
  <2>. QED
    BY <2>1, <2>2, Unchanged
<1>9. CASE ErrorClear
  <2>1. /\ UNCHANGED <<queue, host, requests, level, lec, bus, mb, ok, history>>
        /\ seen' \in Levels /\ pc' \in Steps \ {"parse", "txRqcp"}
    BY <1>9 DEF ErrorClear, Steps, Levels
  <2>2. erri' \in BOOLEAN
    BY <1>9, Zenon DEF ErrorClear
  <2>3. ErrorsType' /\ HandlerType' /\ HandlerSteps'
    BY <2>1, <2>2, Unchanged DEF ErrorsType, HandlerType, HandlerSteps
  <2>. QED
    BY <2>1, <2>3, Unchanged
<1>10. CASE AbortMailbox
  <2>1. /\ UNCHANGED <<queue, host, errors, bus, mailbox, onAir, txok, history>>
        /\ UNCHANGED <<pc, ok, seen>>
        /\ pc = "abort" /\ mb <= MailboxCount /\ mb' = mb + 1
    BY <1>10 DEF AbortMailbox
  <2>2. mb \in Mailboxes /\ HandlerType' /\ HandlerSteps'
    BY <2>1, CanTxAssumption, Unchanged DEF HandlerType, HandlerSteps, Mailboxes
  <2>3. CASE mb \in Requested /\ mb # onAir
    <3>1. pending' = Without(mb) /\ rqcp' = rqcp \cup {mb} /\ UNCHANGED abrq
      BY <1>10, <2>3 DEF AbortMailbox
    <3>2. /\ pending' \in Seq(Mailboxes) /\ Len(pending') = Len(pending) - 1
          /\ Requested' = Requested \ {mb}
          /\ \A i, j \in DOMAIN pending' : pending'[i] = pending'[j] => i = j
      <4>1. Requested' = {pending'[i] : i \in DOMAIN pending'}
        BY DEF Requested
      <4>. QED
        BY <2>3, <3>1, <4>1, WithoutProperties
    <3>3. RequestsType'
      BY <2>1, <2>2, <3>1, <3>2 DEF RequestsType
    <3>4. onAir' # NoMailbox => pending' # <<>> /\ pending'[1] = onAir'
      <4>. SUFFICES ASSUME onAir # NoMailbox
                    PROVE  pending' # <<>> /\ pending'[1] = onAir
        BY <2>1
      <4>1. pending[1] = onAir /\ Len(pending) \in Nat
        BY DEF MailboxFlags, RequestsType
      <4>2. Place(mb) \in 2..Len(pending)
        BY <2>3, <4>1, WithoutProperties
      <4>3. pending'[1] = pending[1]
        BY <2>3, <3>1, <4>1, <4>2, WithoutProperties
      <4>. QED
        BY <3>2, <4>1, <4>2, <4>3
    <3>5. MailboxFlags' /\ MailboxesHeld'
      BY <2>1, <3>2, <3>4, Unchanged DEF MailboxFlags, MailboxesHeld
    <3>. QED
      BY <2>1, <2>2, <3>3, <3>5, Unchanged
  <2>4. CASE ~(mb \in Requested /\ mb # onAir)
    <3>1. UNCHANGED <<pending, rqcp>> /\ abrq' \in SUBSET Mailboxes
      BY <1>10, <2>2, <2>4 DEF AbortMailbox, RequestsType
    <3>2. RequestsType'
      BY <2>1, <3>1 DEF RequestsType
    <3>. QED
      BY <2>1, <2>2, <3>1, <3>2, Unchanged
  <2>. QED
    BY <2>3, <2>4
<1>11. CASE AbortDone
  <2>1. /\ UNCHANGED <<host, requests, errors, bus, ok, seen, sent, acked>>
        /\ queue' = QueueReset(queue) /\ pc' = "idle" /\ mb' = 1
        /\ unseen' \in BOOLEAN
    BY <1>11 DEF AbortDone
  <2>2. HandlerType' /\ HandlerSteps'
    BY <2>1, CanTxAssumption, Unchanged DEF HandlerType, HandlerSteps, Steps
  <2>3. ReceptionHasRoom'
    BY <2>1, Sizes, Unchanged, ResetQueueKeeps DEF ReceptionHasRoom, HostType
  <2>. QED
    BY <2>1, <2>2, <2>3, Unchanged, ResetQueueKeeps
<1>. QED
  BY <1>2, <1>3, <1>4, <1>5, <1>6, <1>7, <1>8, <1>9, <1>10, <1>11

\* The CAN controller and the bus.
LEMMA ControllerStep ==
  ASSUME ControlInv, FramesHeld, Controller
  PROVE  ControlInv' /\ FramesHeld'
<1>. USE DEF ControlInv, FramesHeld, TypeOK
<1>1. CASE Synchronize
  <2>1. UNCHANGED <<queue, host, requests, errors, fmp, noise, handler, history>>
    BY <1>1 DEF Synchronize
  <2>2. BusType'
    BY <1>1, <2>1 DEF Synchronize, BusType
  <2>. QED
    BY <2>1, <2>2, Unchanged
<1>2. CASE StartTransmission
  <2>1. /\ UNCHANGED <<queue, host, errors, bus, handler, history>>
        /\ UNCHANGED <<mailbox, pending, rqcp, txok, abrq>>
        /\ pending # <<>> /\ onAir' = Head(pending)
    BY <1>2 DEF StartTransmission
  <2>2. pending[1] = onAir' /\ onAir' \in Mailboxes
    BY <2>1 DEF RequestsType
  <2>3. RequestsType' /\ MailboxFlags'
    <3>1. Requested' = Requested
      BY <2>1 DEF Requested
    <3>. QED
      BY <2>1, <2>2, <3>1 DEF RequestsType, MailboxFlags
  <2>. QED
    BY <2>1, <2>3, Unchanged
<1>3. ASSUME onAir # NoMailbox, pending' = Without(onAir)
      PROVE  /\ onAir \in Mailboxes /\ onAir \in Requested
             /\ pending' \in Seq(Mailboxes)
             /\ Requested' = Requested \ {onAir}
             /\ \A i, j \in DOMAIN pending' : pending'[i] = pending'[j] => i = j
  <2>1. onAir \in Requested
    <3>1. 1 \in DOMAIN pending /\ pending[1] = onAir
      BY <1>3 DEF MailboxFlags, RequestsType
    <3>. QED
      BY <3>1 DEF Requested
  <2>2. onAir \in Mailboxes
    BY <1>3 DEF RequestsType
  <2>. QED
    <3>1. Requested' = {pending'[i] : i \in DOMAIN pending'}
      BY DEF Requested
    <3>. QED
      BY <1>3, <2>1, <2>2, <3>1, WithoutProperties
<1>4. CASE TransmissionOk
  <2>1. /\ UNCHANGED <<queue, host, mailbox, level, erri, bus, handler, acked,
                       unseen>>
        /\ sent' = sent \cup {mailbox[onAir]}
        /\ onAir # NoMailbox /\ onAir' = NoMailbox /\ pending' = Without(onAir)
        /\ rqcp' = rqcp \cup {onAir} /\ txok' = txok \cup {onAir}
        /\ abrq' = abrq \ {onAir}
    BY <1>4 DEF TransmissionOk
  <2>2. lec' \in BOOLEAN
    BY <1>4, Zenon DEF TransmissionOk
  <2>3. ErrorsType'
    BY <2>1, <2>2 DEF ErrorsType
  <2>4. RequestsType' /\ MailboxFlags'
    BY <1>3, <2>1 DEF RequestsType, MailboxFlags
  <2>5. HistoryType'
    <3>1. mailbox[onAir] \in 1..taken /\ taken \in 0..MaxFrames
      BY <1>3, <2>1 DEF MailboxesHeld, HostType
    <3>2. mailbox[onAir] \in Frame
      BY <3>1, CanTxAssumption DEF Frame
    <3>. QED
      BY <2>1, <3>2 DEF HistoryType
  <2>6. MailboxesHeld'
    BY <1>3, <2>1, Unchanged DEF MailboxesHeld
  <2>. QED
    BY <2>1, <2>3, <2>4, <2>5, <2>6, Unchanged
<1>5. ASSUME noise < MaxNoise, noise' = noise + 1
      PROVE  noise' \in 0..MaxNoise
  BY <1>5, CanTxAssumption DEF BusType
<1>6. CASE TransmissionFailed
  <2>1. /\ UNCHANGED <<queue, host, mailbox, txok, can, fmp, handler, history>>
        /\ onAir # NoMailbox /\ onAir' = NoMailbox
        /\ noise < MaxNoise /\ noise' = noise + 1
    BY <1>6 DEF TransmissionFailed
  <2>2. BusType'
    BY <1>5, <2>1 DEF BusType
  <2>3. ErrorsType'
    <3>1. ErrorDetected(ErrorLevels) \/ UNCHANGED errors
      BY <1>6 DEF TransmissionFailed
    <3>2. ErrorLevels \in SUBSET Levels
      BY CanTxAssumption DEF Levels
    <3>. QED
      BY <3>1, <3>2, ErrorDetectedKeeps, Unchanged
  <2>4. CASE onAir \in abrq
    <3>1. /\ pending' = Without(onAir)
          /\ rqcp' = rqcp \cup {onAir} /\ abrq' = abrq \ {onAir}
      BY <1>6, <2>4 DEF TransmissionFailed
    <3>2. RequestsType' /\ MailboxFlags'
      BY <1>3, <2>1, <3>1 DEF RequestsType, MailboxFlags
    <3>3. MailboxesHeld'
      BY <1>3, <2>1, <3>1, Unchanged DEF MailboxesHeld
    <3>. QED
      BY <2>1, <2>2, <2>3, <3>2, <3>3, Unchanged
  <2>5. CASE onAir \notin abrq
    <3>1. UNCHANGED <<pending, rqcp, abrq>>
      BY <1>6, <2>5 DEF TransmissionFailed
    <3>2. RequestsType' /\ MailboxFlags'
      <4>1. Requested' = Requested
        BY <3>1 DEF Requested
      <4>. QED
        BY <2>1, <3>1, <4>1 DEF RequestsType, MailboxFlags
    <3>. QED
      BY <2>1, <2>2, <2>3, <3>1, <3>2, Unchanged
  <2>. QED
    BY <2>4, <2>5
<1>7. CASE ReceptionFailed
  <2>1. /\ UNCHANGED <<queue, host, requests, can, fmp, handler, history>>
        /\ noise < MaxNoise /\ noise' = noise + 1
        /\ ErrorDetected(ErrorLevels \ {"busoff"})
    BY <1>7 DEF ReceptionFailed
  <2>2. BusType'
    BY <1>5, <2>1 DEF BusType
  <2>3. ErrorLevels \ {"busoff"} \in SUBSET Levels
    BY CanTxAssumption DEF Levels
  <2>. QED
    BY <2>1, <2>2, <2>3, ErrorDetectedKeeps, Unchanged
<1>8. CASE ReceptionOk
  <2>1. /\ UNCHANGED <<queue, host, requests, level, erri, can, handler, history>>
        /\ noise < MaxNoise /\ noise' = noise + 1 /\ fmp < 3 /\ fmp' = fmp + 1
    BY <1>8 DEF ReceptionOk
  <2>2. lec' \in BOOLEAN
    BY <1>8, Zenon DEF ReceptionOk
  <2>3. BusType' /\ ErrorsType'
    BY <1>5, <2>1, <2>2 DEF BusType, ErrorsType
  <2>. QED
    BY <2>1, <2>3, Unchanged
<1>9. CASE Recover
  <2>1. /\ UNCHANGED <<queue, host, requests, lec, erri, bus, handler, history>>
        /\ level' \in Levels
    BY <1>9 DEF Recover, Levels
  <2>2. ErrorsType'
    BY <2>1 DEF ErrorsType
  <2>. QED
    BY <2>1, <2>2, Unchanged
<1>. QED
  BY <1>1, <1>2, <1>4, <1>6, <1>7, <1>8, <1>9 DEF Controller

-----------------------------------------------------------------------------
\* The control invariant holds initially and is kept by every step.
LEMMA ControlInvariant == Spec => [](ControlInv /\ FramesHeld)
<1>1. Init => ControlInv /\ FramesHeld
  <2>. SUFFICES ASSUME Init
                PROVE  ControlInv /\ FramesHeld
    OBVIOUS
  <2>1. /\ queue \in Queue(TxCapacity, Frame \cup {NoFrame})
        /\ QueueLength(queue) = 0
    BY Sizes DEF Init, QueueDef, Queue, QueueLength
  <2>2. QueueSpace(queue) = TxCapacity /\ QueueContents(queue) = <<>>
    <3>1. QueueSpace(queue) = TxCapacity
      BY <2>1, Sizes, SpaceAndLength
    <3>2. Len(QueueContents(queue)) = 0
      BY <2>1, Sizes, ContentsType
    <3>3. QueueContents(queue) \in Seq(Frame \cup {NoFrame})
      BY <2>1, Sizes, ContentsType
    <3>. QED
      BY <3>1, <3>2, <3>3, EmptySeq
  <2>3. HostType /\ BusType /\ HandlerType /\ HistoryType
    <3>0. /\ armed \in BOOLEAN /\ stopped \in BOOLEAN /\ ok \in BOOLEAN
          /\ unseen \in BOOLEAN
      BY Zenon DEF Init
    <3>1. HostType /\ BusType
      BY <3>0, CanTxAssumption, Sizes DEF Init, HostType, BusType
    <3>2. HandlerType /\ HistoryType
      BY <3>0, CanTxAssumption DEF Init, HandlerType, HistoryType, Steps, Levels
    <3>. QED
      BY <3>1, <3>2
  <2>4. RequestsType /\ ErrorsType
    <3>1. lec \in BOOLEAN /\ erri \in BOOLEAN
      BY Zenon DEF Init
    <3>2. ErrorsType
      BY <3>1 DEF Init, ErrorsType, Levels
    <3>3. RequestsType
      BY DEF Init, RequestsType
    <3>. QED
      BY <3>2, <3>3
  <2>5. Requested = {}
    BY DEF Init, Requested
  <2>6. ReceptionHasRoom /\ HandlerSteps /\ MailboxFlags
    BY <2>2, <2>5, CanTxAssumption, Sizes
       DEF Init, ReceptionHasRoom, HandlerSteps, MailboxFlags
  <2>7. FramesHeld
    BY <2>2, <2>5 DEF Init, FramesHeld, QueueHeld, MailboxesHeld
  <2>. QED
    BY <2>1, <2>3, <2>4, <2>6, <2>7 DEF ControlInv, TypeOK
<1>2. ControlInv /\ FramesHeld /\ [Next]_vars => ControlInv' /\ FramesHeld'
  <2>. SUFFICES ASSUME ControlInv, FramesHeld, [Next]_vars
                PROVE  ControlInv' /\ FramesHeld'
    OBVIOUS
  <2>1. CASE Next
    BY <2>1, UsbStep, RequestStep, CanStep, ControllerStep DEF Next, Handler
  <2>2. CASE UNCHANGED vars
    <3>1. UNCHANGED <<queue, host, requests, errors, bus, handler, history>>
      BY <2>2 DEF vars
    <3>. QED
      BY <3>1, Unchanged DEF ControlInv, TypeOK, FramesHeld
  <2>. QED
    BY <2>1, <2>2
<1>. QED
  BY <1>1, <1>2, PTL DEF Spec

\* Every handler keeps the state well formed, whatever the controller does
\* between its register accesses.
THEOREM TypeCorrectness == Spec => []TypeOK
  BY ControlInvariant, PTL DEF ControlInv

\* A requested OUT transfer always fits in CanTxQ (can_if.c:169, 152).
THEOREM RoomForReception == Spec => []ReceptionHasRoom
  BY ControlInvariant, PTL DEF ControlInv

-----------------------------------------------------------------------------
(***************************************************************************)
(* The order of the frames, the truth of the success flags, the abort and  *)
(* the refills.                                                            *)
(***************************************************************************)

\* What a list p of mailboxes holds, when b is the content of each.
Content(b, p) == [i \in 1..Len(p) |-> b[p[i]]]

-----------------------------------------------------------------------------
\* Leaving out the elements i to j of a sequence.
LEMMA CutProperties ==
  ASSUME NEW S, NEW w \in Seq(S), NEW i \in 1..Len(w), NEW j \in i..Len(w)
  PROVE  LET c == SubSeq(w, 1, i - 1) \o SubSeq(w, j + 1, Len(w))
         IN  /\ c \in Seq(S) /\ Len(c) = Len(w) - (j - i + 1)
             /\ \A n \in 1..(Len(w) - (j - i + 1)) :
                  c[n] = IF n < i THEN w[n] ELSE w[n + (j - i + 1)]
<1>. DEFINE a == SubSeq(w, 1, i - 1)
            b == SubSeq(w, j + 1, Len(w))
<1>0. Len(w) \in Nat /\ i \in Nat /\ j \in Nat
  OBVIOUS
<1>1. \A n \in 1..Len(w) : w[n] \in S
  BY ElementOfSeq
<1>2. /\ a \in Seq(S) /\ Len(a) = i - 1
      /\ \A n \in 1..(i - 1) : a[n] = w[n]
  BY <1>0, <1>1, SubSeqProperties
<1>3. /\ b \in Seq(S) /\ Len(b) = Len(w) - j
      /\ \A n \in 1..(Len(w) - j) : b[n] = w[j + n]
  <2>1. \A n \in (j + 1)..Len(w) : w[n] \in S
    BY <1>0, <1>1
  <2>. QED
    BY <1>0, <2>1, SubSeqProperties
<1>. HIDE DEF a, b
<1>4. /\ a \o b \in Seq(S) /\ Len(a \o b) = Len(a) + Len(b)
      /\ \A n \in 1..(Len(a) + Len(b)) :
           (a \o b)[n] = IF n <= Len(a) THEN a[n] ELSE b[n - Len(a)]
  BY <1>2, <1>3, ConcatProperties
<1>5. Len(a) + Len(b) = Len(w) - (j - i + 1)
  BY <1>0, <1>2, <1>3
<1>6. ASSUME NEW n \in 1..(Len(w) - (j - i + 1))
      PROVE  (a \o b)[n] = IF n < i THEN w[n] ELSE w[n + (j - i + 1)]
  <2>1. CASE n < i
    BY <1>0, <1>2, <1>4, <1>5, <2>1
  <2>2. CASE ~(n < i)
    <3>1. n - (i - 1) \in 1..(Len(w) - j) /\ j + (n - (i - 1)) = n + (j - i + 1)
      BY <1>0, <2>2
    <3>2. (a \o b)[n] = b[n - (i - 1)]
      <4>1. n \in 1..(Len(a) + Len(b)) /\ ~(n <= Len(a)) /\ n - Len(a) = n - (i - 1)
        BY <1>0, <1>2, <1>5, <2>2
      <4>. QED
        BY <1>4, <4>1
    <3>. QED
      BY <1>3, <2>2, <3>1, <3>2
  <2>. QED
    BY <2>1, <2>2
<1>. QED
  BY <1>4, <1>5, <1>6 DEF a, b

-----------------------------------------------------------------------------
Value == Frame \cup {NoFrame}

\* The frames that wait: those in the mailboxes, then those in the queue.
LEMMA JoinedProperties ==
  ASSUME NEW q \in Queue(TxCapacity, Value), NEW b \in [Mailboxes -> Value],
         NEW p \in Seq(Mailboxes)
  PROVE  LET w == Content(b, p) \o QueueContents(q)
         IN  /\ w \in Seq(Value) /\ Len(w) = Len(p) + QueueLength(q)
             /\ \A i \in 1..Len(p) : w[i] = b[p[i]]
             /\ \A i \in 1..QueueLength(q) : w[Len(p) + i] = QueueContents(q)[i]
             /\ Len(p) \in Nat /\ QueueLength(q) \in Nat
<1>. DEFINE s == Content(b, p)
            t == QueueContents(q)
<1>1. \A i \in 1..Len(p) : p[i] \in Mailboxes /\ b[p[i]] \in Value
  BY ElementOfSeq
<1>2. /\ s \in Seq(Value) /\ Len(s) = Len(p) /\ Len(p) \in Nat
      /\ \A i \in 1..Len(p) : s[i] = b[p[i]]
  BY <1>1, IsASeq DEF Content
<1>3. t \in Seq(Value) /\ Len(t) = QueueLength(q) /\ QueueLength(q) \in Nat
  BY Sizes, ContentsType
<1>. HIDE DEF s, t
<1>4. /\ s \o t \in Seq(Value) /\ Len(s \o t) = Len(s) + Len(t)
      /\ \A i \in 1..(Len(s) + Len(t)) :
           (s \o t)[i] = IF i <= Len(s) THEN s[i] ELSE t[i - Len(s)]
  BY <1>2, <1>3, ConcatProperties
<1>5. /\ \A i \in 1..Len(p) : (s \o t)[i] = s[i]
      /\ \A i \in 1..Len(t) : (s \o t)[Len(p) + i] = t[i]
  BY <1>2, <1>3, <1>4
<1>. QED
  BY <1>2, <1>3, <1>4, <1>5 DEF s, t

\* The same of the present state, and of the next one.
LEMMA WaitingIs ==
  ASSUME ControlInv
  PROVE  /\ Waiting \in Seq(Value)
         /\ Len(Waiting) = Len(pending) + QueueLength(queue)
         /\ \A i \in 1..Len(pending) : Waiting[i] = mailbox[pending[i]]
         /\ \A i \in 1..QueueLength(queue) :
              Waiting[Len(pending) + i] = QueueContents(queue)[i]
         /\ Len(pending) \in Nat /\ QueueLength(queue) \in Nat
<1>1. /\ queue \in Queue(TxCapacity, Value)
      /\ mailbox \in [Mailboxes -> Value] /\ pending \in Seq(Mailboxes)
  BY DEF ControlInv, TypeOK, RequestsType, Value
<1>2. Waiting = Content(mailbox, pending) \o QueueContents(queue)
  BY DEF Waiting, Content
<1>. QED
  BY <1>1, <1>2, JoinedProperties

LEMMA WaitingIsNext ==
  ASSUME ControlInv'
  PROVE  /\ Waiting' \in Seq(Value)
         /\ Len(Waiting') = Len(pending') + QueueLength(queue')
         /\ \A i \in 1..Len(pending') : Waiting'[i] = mailbox'[pending'[i]]
         /\ \A i \in 1..QueueLength(queue') :
              Waiting'[Len(pending') + i] = QueueContents(queue')[i]
         /\ Len(pending') \in Nat /\ QueueLength(queue') \in Nat
<1>1. /\ queue' \in Queue(TxCapacity, Value)
      /\ mailbox' \in [Mailboxes -> Value] /\ pending' \in Seq(Mailboxes)
  BY DEF ControlInv, TypeOK, RequestsType, Value
<1>2. Waiting' = Content(mailbox', pending') \o QueueContents(queue')
  BY DEF Waiting, Content
<1>. QED
  BY <1>1, <1>2, JoinedProperties

\* A step that takes frames i to j out discards them.
LEMMA DiscardStep ==
  ASSUME ControlInv, ControlInv', UNCHANGED <<taken, sent, acked>>,
         NEW i \in 1..Len(Waiting), NEW j \in i..Len(Waiting),
         Len(Waiting') = Len(Waiting) - (j - i + 1),
         \A n \in 1..(Len(Waiting) - (j - i + 1)) :
            Waiting'[n] = IF n < i THEN Waiting[n] ELSE Waiting[n + (j - i + 1)]
  PROVE  Stream!Next
<1>. DEFINE w == Waiting
            v == Waiting'
            c == SubSeq(w, 1, i - 1) \o SubSeq(w, j + 1, Len(w))
<1>1. w \in Seq(Value) /\ v \in Seq(Value)
  BY WaitingIs, WaitingIsNext
<1>2. /\ c \in Seq(Value) /\ Len(c) = Len(w) - (j - i + 1)
      /\ \A n \in 1..(Len(w) - (j - i + 1)) :
           c[n] = IF n < i THEN w[n] ELSE w[n + (j - i + 1)]
  <2>. HIDE DEF w
  <2>. QED
    BY <1>1, CutProperties DEF w
<1>3. v = c
  <2>1. /\ Len(v) = Len(c)
        /\ \A n \in 1..Len(v) : v[n] = c[n]
    <3>. HIDE DEF c
    <3>. QED
      BY <1>2
  <2>. HIDE DEF v, c
  <2>. QED
    BY <1>1, <1>2, <2>1, SeqEqual
<1>4. i \in DOMAIN Waiting /\ j \in DOMAIN Waiting /\ i <= j
  BY <1>1
<1>5. Stream!Discard(i, j)
  BY <1>3 DEF Stream!Discard
<1>. QED
  BY <1>4, <1>5 DEF Stream!Next

\* Removing the request of m takes its frame out of those waiting.
LEMMA RemovalStep ==
  ASSUME ControlInv, ControlInv', UNCHANGED <<queue, mailbox, taken, sent, acked>>,
         NEW m \in Requested, pending' = Without(m)
  PROVE  Stream!Next
<1>. DEFINE k == Place(m)
<1>1. /\ k \in 1..Len(pending) /\ Len(pending') = Len(pending) - 1
      /\ \A j \in 1..(Len(pending) - 1) :
           pending'[j] = IF j < k THEN pending[j] ELSE pending[j + 1]
  BY WithoutProperties DEF ControlInv
<1>. HIDE DEF k
<1>2. /\ Len(Waiting) = Len(pending) + QueueLength(queue)
      /\ \A i \in 1..Len(pending) : Waiting[i] = mailbox[pending[i]]
      /\ \A i \in 1..QueueLength(queue) :
           Waiting[Len(pending) + i] = QueueContents(queue)[i]
      /\ Len(pending) \in Nat /\ QueueLength(queue) \in Nat
  BY WaitingIs
<1>3. /\ Len(Waiting') = Len(pending) - 1 + QueueLength(queue)
      /\ \A i \in 1..(Len(pending) - 1) : Waiting'[i] = mailbox[pending'[i]]
      /\ \A i \in 1..QueueLength(queue) :
           Waiting'[Len(pending) - 1 + i] = QueueContents(queue)[i]
  BY <1>1, WaitingIsNext
<1>4. k \in 1..Len(Waiting) /\ Len(Waiting') = Len(Waiting) - 1
  BY <1>1, <1>2, <1>3
<1>5. ASSUME NEW n \in 1..(Len(Waiting) - 1)
      PROVE  Waiting'[n] = IF n < k THEN Waiting[n] ELSE Waiting[n + 1]
  <2>1. CASE n <= Len(pending) - 1
    <3>1. n \in 1..(Len(pending) - 1) /\ n \in 1..Len(pending) /\ n + 1 \in 1..Len(pending)
      BY <1>1, <1>2, <2>1
    <3>2. pending'[n] = IF n < k THEN pending[n] ELSE pending[n + 1]
      BY <1>1, <3>1
    <3>3. /\ Waiting'[n] = mailbox[pending'[n]]
          /\ Waiting[n] = mailbox[pending[n]]
          /\ Waiting[n + 1] = mailbox[pending[n + 1]]
      BY <1>2, <1>3, <3>1
    <3>. QED
      BY <3>2, <3>3
  <2>2. CASE ~(n <= Len(pending) - 1)
    <3>1. PICK i \in 1..QueueLength(queue) : n = Len(pending) - 1 + i
      <4>1. n - (Len(pending) - 1) \in 1..QueueLength(queue)
        BY <1>2, <2>2
      <4>2. n = Len(pending) - 1 + (n - (Len(pending) - 1))
        BY <1>2
      <4>. QED
        BY <4>1, <4>2
    <3>2. n + 1 = Len(pending) + i /\ ~(n < k)
      BY <1>1, <1>2, <2>2, <3>1
    <3>. QED
      BY <1>2, <1>3, <3>1, <3>2
  <2>. QED
    BY <2>1, <2>2
<1>6. k \in k..Len(Waiting) /\ k - k + 1 = 1
  BY <1>4
<1>. QED
  BY <1>4, <1>5, <1>6, DiscardStep

\* CanIf_Open and Can_Close discard what waits, the arrival of OUT data nothing.
LEMMA UsbStream ==
  ASSUME ControlInv, ControlInv', UsbInterrupt
  PROVE  Stream!Next \/ UNCHANGED <<taken, Waiting, sent, acked>>
<1>1. CASE OpenBadRate \/ Can_Close
  <2>1. pending' = <<>> /\ UNCHANGED <<queue, mailbox, taken, sent, acked>>
    BY <1>1 DEF OpenBadRate, Can_Close, ResetCan, history
  <2>2. CASE pending = <<>>
    BY <2>1, <2>2 DEF Waiting
  <2>3. CASE pending # <<>>
    <3>1. /\ Len(pending) \in Nat \ {0} /\ Len(pending') = 0
          /\ QueueLength(queue) \in Nat
          /\ Len(Waiting) = Len(pending) + QueueLength(queue)
          /\ Len(Waiting') = QueueLength(queue)
          /\ \A i \in 1..QueueLength(queue) :
               Waiting'[0 + i] = QueueContents(queue)[i]
          /\ \A i \in 1..QueueLength(queue) :
               Waiting[Len(pending) + i] = QueueContents(queue)[i]
      <4>1. pending \in Seq(Mailboxes)
        BY DEF ControlInv, TypeOK, RequestsType
      <4>. QED
        BY <2>1, <2>3, <4>1, WaitingIs, WaitingIsNext, EmptySeq
    <3>2. /\ 1 \in 1..Len(Waiting) /\ Len(pending) \in 1..Len(Waiting)
          /\ Len(pending) - 1 + 1 = Len(pending)
          /\ Len(Waiting') = Len(Waiting) - (Len(pending) - 1 + 1)
          /\ \A n \in 1..(Len(Waiting) - (Len(pending) - 1 + 1)) :
               ~(n < 1) /\ Waiting'[n] = Waiting[n + (Len(pending) - 1 + 1)]
      BY <3>1
    <3>. QED
      BY <2>1, <3>2, DiscardStep
  <2>. QED
    BY <2>2, <2>3
<1>2. CASE OpenNoSync \/ OpenOk
  <2>1. /\ pending' = <<>> /\ UNCHANGED <<taken, sent, acked>>
        /\ queue' = QueueReset(queue)
    BY <1>2 DEF OpenNoSync, OpenOk, ResetCan, history
  <2>2. Waiting' = <<>>
    BY <2>1, ResetQueueKeeps DEF Waiting
  <2>3. CASE Waiting = <<>>
    BY <2>1, <2>2, <2>3
  <2>4. CASE Waiting # <<>>
    <3>1. Len(Waiting) \in Nat \ {0} /\ Len(Waiting') = 0
      BY <2>2, <2>4, WaitingIs, EmptySeq
    <3>2. /\ 1 \in 1..Len(Waiting) /\ Len(Waiting) \in 1..Len(Waiting)
          /\ Len(Waiting') = Len(Waiting) - (Len(Waiting) - 1 + 1)
          /\ 1..(Len(Waiting) - (Len(Waiting) - 1 + 1)) = {}
      BY <3>1
    <3>. QED
      BY <2>1, <3>2, DiscardStep
  <2>. QED
    BY <2>3, <2>4
<1>3. ASSUME NEW n \in 0..MaxBatch, OutComplete(n)
      PROVE  UNCHANGED <<taken, Waiting, sent, acked>>
  BY <1>3 DEF OutComplete, requests, history, Waiting
<1>. QED
  BY <1>1, <1>2, <1>3 DEF UsbInterrupt, CanIf_Open

\* Can_HandleRequest takes one frame more; Can_PostFrames moves a frame from
\* the queue to a mailbox, and those waiting stay the same.
LEMMA RequestStream ==
  ASSUME ControlInv, ControlInv',
         \/ HandleRequest \/ RejectRequest \/ ParseDone
         \/ \E m \in Mailboxes : PostFrame(m)
         \/ PostDone \/ ReceiveOutData
  PROVE  Stream!Next \/ UNCHANGED <<taken, Waiting, sent, acked>>
<1>0. /\ queue \in Queue(TxCapacity, Value)
      /\ mailbox \in [Mailboxes -> Value] /\ pending \in Seq(Mailboxes)
      /\ Len(pending) \in Nat /\ QueueLength(queue) \in Nat
      /\ QueueContents(queue) \in Seq(Value)
      /\ Len(QueueContents(queue)) = QueueLength(queue)
      /\ QueueSpace(queue) = TxCapacity - QueueLength(queue)
      /\ QueueEmpty(queue) <=> QueueLength(queue) = 0
  <2>1. /\ queue \in Queue(TxCapacity, Value)
        /\ mailbox \in [Mailboxes -> Value] /\ pending \in Seq(Mailboxes)
    BY DEF ControlInv, TypeOK, RequestsType, Value
  <2>. QED
    BY <2>1, Sizes, ContentsType, SpaceAndLength
<1>1. CASE HandleRequest
  <2>1. /\ UNCHANGED <<requests, history>> /\ todo > 0
        /\ queue' = QueuePut(queue, taken + 1) /\ taken' = taken + 1
    BY <1>1 DEF HandleRequest
  <2>2. taken + 1 \in Frame /\ QueueLength(queue) < TxCapacity
    <3>1. taken \in Nat /\ todo \in Nat /\ taken + todo <= MaxFrames
          /\ todo <= QueueSpace(queue)
      BY CanTxAssumption, Sizes
         DEF ControlInv, TypeOK, HostType, HandlerSteps, ReceptionHasRoom
    <3>. QED
      BY <1>0, <2>1, <3>1, CanTxAssumption, Sizes DEF Frame
  <2>3. QueueContents(queue') = Append(QueueContents(queue), taken + 1)
    BY <1>0, <2>1, <2>2, Sizes, PutAppends DEF Value
  <2>4. UNCHANGED <<mailbox, pending, sent, acked>>
    BY <2>1 DEF requests, history
  <2>5. Waiting' = Append(Waiting, taken + 1)
    <3>. DEFINE s == [i \in 1..Len(pending) |-> mailbox[pending[i]]]
                t == QueueContents(queue)
    <3>1. s \in Seq(Value) /\ t \in Seq(Value) /\ taken + 1 \in Value
      <4>1. \A i \in 1..Len(pending) : mailbox[pending[i]] \in Value
        BY <1>0, ElementOfSeq
      <4>. QED
        BY <1>0, <2>2, <4>1, IsASeq DEF Value
    <3>2. Waiting = s \o t /\ Waiting' = s \o Append(t, taken + 1)
      BY <2>3, <2>4 DEF Waiting
    <3>. HIDE DEF s, t
    <3>3. s \o Append(t, taken + 1) = Append(s \o t, taken + 1)
      BY <3>1
    <3>. QED
      BY <3>2, <3>3
  <2>6. Stream!Take
    BY <2>1, <2>2, <2>4, <2>5 DEF Stream!Take
  <2>. QED
    BY <2>6 DEF Stream!Next
<1>2. ASSUME NEW m \in Mailboxes, PostFrame(m)
      PROVE  UNCHANGED <<taken, Waiting, sent, acked>>
  <2>1. /\ UNCHANGED <<taken, sent, acked>>
        /\ queue' = QueueGet(queue) /\ pending' = Append(pending, m)
        /\ mailbox' = [mailbox EXCEPT ![m] = QueueFront(queue)]
        /\ m \notin Requested /\ ~QueueEmpty(queue)
    BY <1>2 DEF PostFrame, IsNextMailbox, Empty, host, history
  <2>2. /\ QueueLength(queue) > 0 /\ QueueContents(queue) # <<>>
        /\ QueueLength(queue') = QueueLength(queue) - 1
        /\ QueueFront(queue) = QueueContents(queue)[1]
        /\ \A i \in 1..(QueueLength(queue) - 1) :
             QueueContents(queue')[i] = QueueContents(queue)[i + 1]
    <3>1. QueueLength(queue) > 0 /\ QueueContents(queue) # <<>>
      BY <1>0, <2>1, EmptySeq
    <3>2. /\ QueueLength(queue') = QueueLength(queue) - 1
          /\ QueueFront(queue) = Head(QueueContents(queue))
          /\ QueueContents(queue') = Tail(QueueContents(queue))
      BY <1>0, <2>1, <3>1, Sizes, GetTakesHead
    <3>. QED
      BY <1>0, <3>1, <3>2, HeadTailProperties
  <2>3. /\ Len(pending') = Len(pending) + 1
        /\ \A i \in 1..Len(pending) :
             /\ pending'[i] = pending[i] /\ pending[i] # m
             /\ pending[i] \in Mailboxes
        /\ pending'[Len(pending) + 1] = m
    <3>1. \A i \in 1..Len(pending) : pending[i] # m /\ pending[i] \in Mailboxes
      BY <1>0, <2>1, ElementOfSeq DEF Requested
    <3>. QED
      BY <1>0, <2>1, <3>1, AppendProperties
  <2>4. /\ mailbox'[m] = QueueContents(queue)[1]
        /\ \A i \in 1..Len(pending) : mailbox'[pending[i]] = mailbox[pending[i]]
    BY <1>0, <2>1, <2>2, <2>3
  <2>5. Len(Waiting') = Len(Waiting)
    BY <1>0, <2>2, <2>3, WaitingIs, WaitingIsNext
  <2>6. ASSUME NEW n \in 1..Len(Waiting)
        PROVE  Waiting'[n] = Waiting[n]
    <3>1. /\ n \in Nat /\ n > 0 /\ n <= Len(pending) + QueueLength(queue)
      BY <1>0, WaitingIs
    <3>2. CASE n <= Len(pending)
      <4>1. n \in 1..Len(pending) /\ n \in 1..Len(pending')
        BY <1>0, <2>3, <3>1, <3>2
      <4>2. Waiting'[n] = mailbox'[pending'[n]] /\ Waiting[n] = mailbox[pending[n]]
        BY <4>1, WaitingIs, WaitingIsNext
      <4>. QED
        BY <2>3, <2>4, <4>1, <4>2
    <3>3. CASE n = Len(pending) + 1
      <4>1. n \in 1..Len(pending') /\ 1 \in 1..QueueLength(queue)
        BY <1>0, <2>2, <2>3, <3>3
      <4>2. Waiting'[n] = mailbox'[m]
        BY <2>3, <3>3, <4>1, WaitingIsNext
      <4>3. Waiting[n] = QueueContents(queue)[1]
        BY <3>3, <4>1, WaitingIs
      <4>. QED
        BY <2>4, <4>2, <4>3
    <3>4. CASE n > Len(pending) + 1
      <4>. DEFINE i == n - Len(pending) - 1
      <4>1. /\ i \in 1..(QueueLength(queue) - 1) /\ i + 1 \in 1..QueueLength(queue)
            /\ n = Len(pending) + 1 + i /\ n = Len(pending) + (i + 1)
        BY <1>0, <3>1, <3>4
      <4>. HIDE DEF i
      <4>2. Waiting'[n] = QueueContents(queue')[i]
        BY <2>2, <2>3, <4>1, WaitingIsNext
      <4>3. Waiting[n] = QueueContents(queue)[i + 1]
        BY <4>1, WaitingIs
      <4>. QED
        BY <2>2, <4>1, <4>2, <4>3
    <3>. QED
      BY <1>0, <3>1, <3>2, <3>3, <3>4
  <2>7. Waiting' = Waiting
    <3>. DEFINE v == Waiting'
                w == Waiting
    <3>1. /\ v \in Seq(Value) /\ w \in Seq(Value) /\ Len(v) = Len(w)
          /\ \A n \in 1..Len(v) : v[n] = w[n]
      BY <2>5, <2>6, WaitingIs, WaitingIsNext
    <3>. HIDE DEF v, w
    <3>2. v = w
      BY <3>1, SeqEqual
    <3>. QED
      BY <3>2 DEF v, w
  <2>. QED
    BY <2>1, <2>7
<1>3. CASE RejectRequest \/ ParseDone \/ PostDone \/ ReceiveOutData
  <2>1. UNCHANGED <<queue, taken, requests, sent, acked>>
    BY <1>3 DEF RejectRequest, ParseDone, PostDone, ReceiveOutData, host, history
  <2>. QED
    BY <2>1 DEF requests, Waiting
<1>. QED
  BY <1>1, <1>2, <1>3

\* Emptying the queue discards what it holds.
LEMMA EmptyingStep ==
  ASSUME ControlInv, ControlInv', queue' = QueueReset(queue),
         UNCHANGED <<mailbox, pending, taken, sent, acked>>
  PROVE  Stream!Next \/ UNCHANGED <<taken, Waiting, sent, acked>>
<1>1. /\ Len(Waiting) = Len(pending) + QueueLength(queue)
      /\ \A i \in 1..Len(pending) : Waiting[i] = mailbox[pending[i]]
      /\ Len(pending) \in Nat /\ QueueLength(queue) \in Nat
      /\ Waiting \in Seq(Value)
  BY WaitingIs
<1>2. QueueLength(queue') = 0
  BY Sizes, ResetEmpties DEF ControlInv, TypeOK
<1>3. /\ Len(Waiting') = Len(pending)
      /\ \A i \in 1..Len(pending) : Waiting'[i] = mailbox[pending[i]]
      /\ Waiting' \in Seq(Value)
  BY <1>1, <1>2, WaitingIsNext
<1>4. CASE QueueLength(queue) = 0
  <2>. DEFINE v == Waiting'
              w == Waiting
  <2>1. /\ v \in Seq(Value) /\ w \in Seq(Value) /\ Len(v) = Len(w)
        /\ \A n \in 1..Len(v) : v[n] = w[n]
    BY <1>1, <1>3, <1>4
  <2>. HIDE DEF v, w
  <2>2. v = w
    BY <2>1, SeqEqual
  <2>. QED
    BY <2>2 DEF v, w
<1>5. CASE QueueLength(queue) > 0
  <2>. DEFINE i == Len(pending) + 1
              j == Len(Waiting)
  <2>1. /\ i \in 1..Len(Waiting) /\ j \in i..Len(Waiting)
        /\ Len(Waiting') = Len(Waiting) - (j - i + 1)
        /\ Len(Waiting) - (j - i + 1) = Len(pending)
    BY SMTT(20), <1>1, <1>3, <1>5
  <2>2. \A n \in 1..Len(pending) : n < i /\ Waiting'[n] = Waiting[n]
    BY <1>1, <1>3
  <2>. HIDE DEF i, j
  <2>. QED
    BY <2>1, <2>2, DiscardStep
<1>. QED
  BY <1>1, <1>4, <1>5

\* A success flag is reported as the frame of its mailbox, an abort request
\* discards a frame, the end of Can_BusError those in the queue.
LEMMA CanStream ==
  ASSUME ControlInv, ControlInv', FramesHeld, TxokIsUnreported,
         \/ CanInterrupt
         \/ FrameSentOk \/ FrameNotOk \/ ClearCompleted \/ FrameSentDone
         \/ FrameReceived \/ ReceiveDone
         \/ ErrorTest \/ ErrorRead \/ ErrorClear \/ AbortMailbox \/ AbortDone
  PROVE  Stream!Next \/ UNCHANGED <<taken, Waiting, sent, acked>>
<1>1. CASE FrameSentOk
  <2>1. /\ UNCHANGED <<queue, host, mailbox, pending, sent>>
        /\ mb \in txok /\ acked' = acked \cup {mailbox[mb]}
    BY <1>1 DEF FrameSentOk
  <2>2. UNCHANGED <<taken, Waiting>>
    BY <2>1 DEF host, Waiting
  <2>3. mailbox[mb] \in sent \ acked
    BY <2>1 DEF TxokIsUnreported
  <2>4. mailbox[mb] \in Frame
    BY <2>3 DEF ControlInv, TypeOK, HistoryType
  <2>5. Stream!Acknowledge(mailbox[mb])
    BY <2>1, <2>2, <2>3 DEF Stream!Acknowledge
  <2>. QED
    BY <2>4, <2>5 DEF Stream!Next
<1>2. CASE AbortMailbox
  <2>1. UNCHANGED <<queue, taken, mailbox, sent, acked>>
    BY <1>2 DEF AbortMailbox, host, history
  <2>2. CASE mb \in Requested /\ mb # onAir
    <3>1. pending' = Without(mb)
      BY <1>2, <2>2 DEF AbortMailbox
    <3>. QED
      BY <2>1, <2>2, <3>1, RemovalStep
  <2>3. CASE ~(mb \in Requested /\ mb # onAir)
    <3>1. UNCHANGED pending
      BY <1>2, <2>3 DEF AbortMailbox
    <3>. QED
      BY <2>1, <3>1 DEF Waiting
  <2>. QED
    BY <2>2, <2>3
<1>3. CASE AbortDone
  <2>1. /\ UNCHANGED <<mailbox, pending, taken, sent, acked>>
        /\ queue' = QueueReset(queue)
    BY <1>3 DEF AbortDone, host, requests, history
  <2>. QED
    BY <2>1, EmptyingStep
<1>4. CASE CanInterrupt \/ FrameNotOk \/ ClearCompleted \/ FrameSentDone
             \/ FrameReceived \/ ReceiveDone
  <2>1. UNCHANGED <<queue, taken, mailbox, pending, sent, acked>>
    BY <1>4 DEF CanInterrupt, CanIrq, TxIrq, RxIrq, ErrorIrq, FrameNotOk,
                ClearCompleted, FrameSentDone, FrameReceived, ReceiveDone,
                host, requests, history
  <2>. QED
    BY <2>1 DEF Waiting
<1>5. CASE ErrorTest \/ ErrorRead \/ ErrorClear
  <2>1. UNCHANGED <<queue, taken, mailbox, pending, history>>
    BY <1>5 DEF ErrorTest, ErrorRead, ErrorClear, host, requests
  <2>. QED
    BY <2>1 DEF history, Waiting
<1>. QED
  BY <1>1, <1>2, <1>3, <1>4, <1>5

\* What is transmitted is the oldest frame waiting; an attempt that fails
\* when it was to be aborted discards it.
LEMMA ControllerStream ==
  ASSUME ControlInv, ControlInv', Controller
  PROVE  Stream!Next \/ UNCHANGED <<taken, Waiting, sent, acked>>
<1>1. ASSUME onAir # NoMailbox
      PROVE  /\ onAir \in Requested /\ Len(pending) > 0 /\ Place(onAir) = 1
             /\ pending[1] = onAir
  <2>1. /\ pending # <<>> /\ pending[1] = onAir /\ pending \in Seq(Mailboxes)
    BY <1>1 DEF ControlInv, MailboxFlags, TypeOK, RequestsType
  <2>2. 1 \in DOMAIN pending /\ Len(pending) > 0
    BY <2>1, EmptySeq
  <2>3. onAir \in Requested
    BY <2>1, <2>2 DEF Requested
  <2>4. Place(onAir) \in DOMAIN pending /\ pending[Place(onAir)] = onAir
    BY <2>1, <2>3, WithoutProperties DEF ControlInv
  <2>5. Place(onAir) = 1
    BY <2>1, <2>2, <2>4 DEF ControlInv, MailboxFlags
  <2>. QED
    BY <2>1, <2>2, <2>3, <2>5
<1>2. CASE TransmissionOk
  <2>1. /\ UNCHANGED <<queue, taken, mailbox, acked>> /\ onAir # NoMailbox
        /\ sent' = sent \cup {mailbox[onAir]} /\ pending' = Without(onAir)
    BY <1>2 DEF TransmissionOk, host
  <2>2. /\ Len(pending') = Len(pending) - 1
        /\ \A j \in 1..(Len(pending) - 1) : pending'[j] = pending[j + 1]
    <3>1. \A j \in 1..(Len(pending) - 1) :
             pending'[j] = IF j < 1 THEN pending[j] ELSE pending[j + 1]
      BY <1>1, <2>1, WithoutProperties DEF ControlInv
    <3>2. Len(pending') = Len(pending) - 1
      BY <1>1, <2>1, WithoutProperties DEF ControlInv
    <3>. QED
      BY <3>1, <3>2
  <2>3. /\ Waiting \in Seq(Value) /\ Waiting' \in Seq(Value)
        /\ Len(Waiting) = Len(pending) + QueueLength(queue)
        /\ Len(pending) \in Nat /\ QueueLength(queue) \in Nat
        /\ \A i \in 1..Len(pending) : Waiting[i] = mailbox[pending[i]]
        /\ \A i \in 1..QueueLength(queue) :
             Waiting[Len(pending) + i] = QueueContents(queue)[i]
    BY WaitingIs, WaitingIsNext
  <2>4. /\ Len(Waiting') = Len(Waiting) - 1
        /\ \A i \in 1..(Len(pending) - 1) : Waiting'[i] = mailbox[pending'[i]]
        /\ \A i \in 1..QueueLength(queue) :
             Waiting'[Len(pending) - 1 + i] = QueueContents(queue)[i]
    BY <2>1, <2>2, <2>3, WaitingIsNext
  <2>5. Waiting # <<>> /\ Head(Waiting) = mailbox[onAir]
    <3>1. Len(Waiting) > 0 /\ Waiting[1] = mailbox[onAir]
      BY <1>1, <2>1, <2>3
    <3>. QED
      BY <2>3, <3>1, EmptySeq
  <2>6. ASSUME NEW n \in 1..(Len(Waiting) - 1)
        PROVE  Waiting'[n] = Waiting[n + 1]
    <3>1. CASE n <= Len(pending) - 1
      <4>1. n \in 1..(Len(pending) - 1) /\ n + 1 \in 1..Len(pending)
        BY <2>3, <3>1
      <4>. QED
        BY <2>2, <2>3, <2>4, <4>1
    <3>2. CASE n > Len(pending) - 1
      <4>. DEFINE i == n - (Len(pending) - 1)
      <4>1. /\ i \in 1..QueueLength(queue)
            /\ n = Len(pending) - 1 + i /\ n + 1 = Len(pending) + i
        BY <2>3, <3>2
      <4>. HIDE DEF i
      <4>. QED
        BY <2>3, <2>4, <4>1
    <3>. QED
      BY <2>3, <3>1, <3>2
  <2>7. Waiting' = Tail(Waiting)
    <3>. DEFINE v == Waiting'
                w == Waiting
                t == Tail(w)
    <3>1. /\ t \in Seq(Value) /\ Len(t) = Len(w) - 1
          /\ \A n \in 1..(Len(w) - 1) : t[n] = w[n + 1]
      <4>1. w \in Seq(Value) /\ w # <<>>
        BY <2>3, <2>5
      <4>. HIDE DEF w
      <4>. QED
        BY <4>1, HeadTailProperties DEF t
    <3>2. /\ v \in Seq(Value) /\ Len(v) = Len(w) - 1
          /\ \A n \in 1..(Len(w) - 1) : v[n] = w[n + 1]
      BY <2>3, <2>4, <2>6
    <3>. HIDE DEF v, w, t
    <3>3. v = t
      BY <3>1, <3>2, SeqEqual
    <3>. QED
      BY <3>3 DEF v, w, t
  <2>8. Stream!Send
    BY <2>1, <2>5, <2>7 DEF Stream!Send
  <2>. QED
    BY <2>8 DEF Stream!Next
<1>3. CASE TransmissionFailed
  <2>1. UNCHANGED <<queue, taken, mailbox, sent, acked>> /\ onAir # NoMailbox
    BY <1>3 DEF TransmissionFailed, host, history
  <2>2. CASE onAir \in abrq
    <3>1. pending' = Without(onAir)
      BY <1>3, <2>2 DEF TransmissionFailed
    <3>. QED
      BY <1>1, <2>1, <3>1, RemovalStep
  <2>3. CASE onAir \notin abrq
    <3>1. UNCHANGED pending
      BY <1>3, <2>3 DEF TransmissionFailed
    <3>. QED
      BY <2>1, <3>1 DEF Waiting
  <2>. QED
    BY <2>2, <2>3
<1>4. CASE Synchronize \/ StartTransmission \/ ReceptionFailed
             \/ ReceptionOk \/ Recover
  <2>1. UNCHANGED <<queue, taken, mailbox, pending, history>>
    BY <1>4 DEF Synchronize, StartTransmission, ReceptionFailed, ReceptionOk,
                Recover, host, requests
  <2>. QED
    BY <2>1 DEF history, Waiting
<1>. QED
  BY <1>2, <1>3, <1>4 DEF Controller

\* Every step of the transmit path is a step of the stream, or none.
LEMMA StreamStep ==
  ASSUME ControlInv, ControlInv', FramesHeld, TxokIsUnreported, [Next]_vars
  PROVE  Stream!Next \/ UNCHANGED <<taken, Waiting, sent, acked>>
<1>1. CASE Next
  BY <1>1, UsbStream, RequestStream, CanStream, ControllerStream DEF Next, Handler
<1>2. CASE UNCHANGED vars
  <2>1. UNCHANGED <<queue, host, requests, history>>
    BY <1>2 DEF vars
  <2>. QED
    BY <2>1 DEF host, requests, history, Waiting
<1>. QED
  BY <1>1, <1>2

-----------------------------------------------------------------------------
\* Whatever waits came from the host.
LEMMA WaitingTaken ==
  ASSUME ControlInv, FramesHeld
  PROVE  \A i \in 1..Len(Waiting) : Waiting[i] \in 1..taken
<1>1. /\ Len(Waiting) = Len(pending) + QueueLength(queue)
      /\ Len(pending) \in Nat /\ QueueLength(queue) \in Nat
      /\ \A i \in 1..Len(pending) : Waiting[i] = mailbox[pending[i]]
      /\ \A i \in 1..QueueLength(queue) :
           Waiting[Len(pending) + i] = QueueContents(queue)[i]
  BY WaitingIs
<1>2. DOMAIN QueueContents(queue) = 1..QueueLength(queue)
  BY DEF QueueContents
<1>. SUFFICES ASSUME NEW i \in 1..Len(Waiting)
              PROVE  Waiting[i] \in 1..taken
  OBVIOUS
<1>3. CASE i <= Len(pending)
  <2>1. i \in 1..Len(pending) /\ DOMAIN pending = 1..Len(pending)
    BY <1>1, <1>3 DEF ControlInv, TypeOK, RequestsType
  <2>2. pending[i] \in Requested
    BY <2>1 DEF Requested
  <2>. QED
    BY <1>1, <2>1, <2>2 DEF FramesHeld, MailboxesHeld
<1>4. CASE i > Len(pending)
  <2>. DEFINE n == i - Len(pending)
  <2>1. n \in 1..QueueLength(queue) /\ i = Len(pending) + n
    BY <1>1, <1>4
  <2>. HIDE DEF n
  <2>. QED
    BY <1>1, <1>2, <2>1 DEF FramesHeld, QueueHeld
<1>. QED
  BY <1>1, <1>3, <1>4

\* The steps of the stream keep its order, and report only what was sent.
StreamInv == Stream!InOrder /\ sent \subseteq 1..taken /\ acked \subseteq sent

LEMMA StreamKeeps ==
  ASSUME ControlInv, FramesHeld, StreamInv,
         Stream!Next \/ UNCHANGED <<taken, Waiting, sent, acked>>
  PROVE  StreamInv'
<1>. DEFINE w == Waiting
            v == Waiting'
<1>0. /\ w \in Seq(Value) /\ Len(w) \in Nat /\ DOMAIN w = 1..Len(w)
      /\ \A i \in 1..Len(w) : w[i] \in 1..taken
      /\ taken \in Nat
      /\ sent \subseteq 1..taken /\ acked \subseteq sent
  BY WaitingIs, WaitingTaken, CanTxAssumption
     DEF StreamInv, ControlInv, TypeOK, HostType
<1>1. /\ \A i, j \in 1..Len(w) : i < j => w[i] < w[j]
      /\ \A i \in 1..Len(w), f \in sent : f < w[i]
  BY <1>0 DEF StreamInv, Stream!InOrder
<1>2. CASE Stream!Take
  <2>1. /\ taken + 1 \in Frame /\ taken' = taken + 1
        /\ v = Append(w, taken + 1) /\ UNCHANGED <<sent, acked>>
    BY <1>2 DEF Stream!Take
  <2>2. /\ DOMAIN v = 1..(Len(w) + 1) /\ v[Len(w) + 1] = taken + 1
        /\ \A i \in 1..Len(w) : v[i] = w[i]
    <3>1. taken + 1 \in Value
      BY <2>1 DEF Value
    <3>. HIDE DEF w
    <3>. QED
      BY <1>0, <2>1, <3>1, AppendProperties
  <2>. HIDE DEF v, w
  <2>3. /\ \A i, j \in 1..(Len(w) + 1) : i < j => v[i] < v[j]
        /\ \A i \in 1..(Len(w) + 1), f \in sent : f < v[i]
    <3>1. ASSUME NEW i \in 1..(Len(w) + 1), NEW j \in 1..(Len(w) + 1), i < j
          PROVE  v[i] < v[j]
      <4>1. i \in 1..Len(w) /\ v[i] = w[i]
        BY <1>0, <2>2, <3>1
      <4>2. CASE j = Len(w) + 1
        BY <1>0, <2>2, <4>1, <4>2
      <4>3. CASE j \in 1..Len(w)
        BY <1>1, <2>2, <3>1, <4>1, <4>3
      <4>. QED
        BY <1>0, <4>2, <4>3
    <3>2. ASSUME NEW i \in 1..(Len(w) + 1), NEW f \in sent
          PROVE  f < v[i]
      <4>1. CASE i = Len(w) + 1
        BY <1>0, <2>2, <4>1
      <4>2. CASE i \in 1..Len(w)
        BY <1>1, <2>2, <4>2
      <4>. QED
        BY <1>0, <4>1, <4>2
    <3>. QED
      BY <3>1, <3>2
  <2>4. Stream!InOrder'
    BY <2>1, <2>2, <2>3 DEF Stream!InOrder, v
  <2>. QED
    BY <1>0, <2>1, <2>4 DEF StreamInv
<1>3. CASE Stream!Send
  <2>1. /\ w # <<>> /\ sent' = sent \cup {Head(w)} /\ v = Tail(w)
        /\ UNCHANGED <<taken, acked>>
    BY <1>3 DEF Stream!Send
  <2>2. /\ Len(w) > 0 /\ Head(w) = w[1]
        /\ DOMAIN v = 1..(Len(w) - 1)
        /\ \A i \in 1..(Len(w) - 1) : v[i] = w[i + 1]
    <3>. HIDE DEF w
    <3>. QED
      BY <1>0, <2>1, HeadTailProperties, EmptySeq
  <2>. HIDE DEF v, w
  <2>3. /\ \A i, j \in 1..(Len(w) - 1) : i < j => v[i] < v[j]
        /\ \A i \in 1..(Len(w) - 1), f \in sent' : f < v[i]
    BY <1>0, <1>1, <2>1, <2>2
  <2>4. Stream!InOrder'
    BY <2>2, <2>3 DEF Stream!InOrder, v
  <2>5. sent' \subseteq 1..taken /\ acked \subseteq sent'
    <3>1. w[1] \in 1..taken
      BY <1>0, <2>2
    <3>. QED
      BY <1>0, <2>1, <2>2, <3>1
  <2>. QED
    BY <2>1, <2>4, <2>5 DEF StreamInv
<1>4. ASSUME NEW f \in Frame, Stream!Acknowledge(f)
      PROVE  StreamInv'
  <2>1. UNCHANGED <<taken, Waiting, sent>> /\ acked' = acked \cup {f} /\ f \in sent
    BY <1>4 DEF Stream!Acknowledge
  <2>. QED
    BY <2>1 DEF StreamInv, Stream!InOrder
<1>5. ASSUME NEW i \in DOMAIN Waiting, NEW j \in DOMAIN Waiting, i <= j,
             Stream!Discard(i, j)
      PROVE  StreamInv'
  <2>. DEFINE old(n) == IF n < i THEN n ELSE n + (j - i + 1)
              m == Len(w) - (j - i + 1)
  <2>1. /\ v = SubSeq(w, 1, i - 1) \o SubSeq(w, j + 1, Len(w))
        /\ UNCHANGED <<taken, sent, acked>>
    BY <1>5 DEF Stream!Discard
  <2>2. i \in 1..Len(w) /\ j \in i..Len(w) /\ m \in Nat
    BY <1>0, <1>5
  <2>3. /\ v \in Seq(Value) /\ Len(v) = m
        /\ \A n \in 1..m : v[n] = IF n < i THEN w[n] ELSE w[n + (j - i + 1)]
    <3>. HIDE DEF w
    <3>. QED
      BY <1>0, <2>1, <2>2, CutProperties
  <2>. HIDE DEF v, w
  <2>4. \A n \in 1..m : old(n) \in 1..Len(w) /\ v[n] = w[old(n)]
    BY SMTT(20), <1>0, <2>2, <2>3
  <2>5. \A n, k \in 1..m : n < k => old(n) < old(k)
    BY <1>0, <2>2
  <2>. HIDE DEF old, m
  <2>6. /\ \A n, k \in 1..m : n < k => v[n] < v[k]
        /\ \A n \in 1..m, f \in sent : f < v[n]
    BY <1>1, <2>4, <2>5
  <2>7. DOMAIN v = 1..m
    BY <2>3
  <2>8. Stream!InOrder'
    BY <2>1, <2>6, <2>7 DEF Stream!InOrder, v
  <2>. QED
    BY <1>0, <2>1, <2>8 DEF StreamInv
<1>6. CASE UNCHANGED <<taken, Waiting, sent, acked>>
  BY <1>6 DEF StreamInv, Stream!InOrder
<1>. QED
  BY <1>2, <1>3, <1>4, <1>5, <1>6 DEF Stream!Next

-----------------------------------------------------------------------------
\* Flags that are only cleared, or kept, speak for the same frames.
FlagsOnce == \A m, n \in txok : mailbox[m] = mailbox[n] => m = n

LEMMA FlagsCleared ==
  ASSUME TxokIsUnreported, FlagsOnce, txok' \subseteq txok,
         \A m \in txok' : mailbox'[m] = mailbox[m], UNCHANGED <<sent, acked>>
  PROVE  TxokIsUnreported' /\ FlagsOnce'
BY DEF TxokIsUnreported, FlagsOnce

\* A new success flag is for a frame that was not sent before, and a report
\* takes away the flag it was made for.
LEMMA ReportsStep ==
  ASSUME ControlInv, FramesHeld, StreamInv, TxokIsUnreported, FlagsOnce,
         [Next]_vars
  PROVE  TxokIsUnreported' /\ FlagsOnce'
<1>1. CASE UsbInterrupt
  <2>1. CASE CanIf_Open \/ Can_Close
    <3>1. txok' = {}
      BY <2>1 DEF CanIf_Open, OpenBadRate, OpenNoSync, OpenOk, Can_Close, ResetCan
    <3>. QED
      BY <3>1 DEF TxokIsUnreported, FlagsOnce
  <2>2. ASSUME NEW n \in 0..MaxBatch, OutComplete(n)
        PROVE  TxokIsUnreported' /\ FlagsOnce'
    <3>1. UNCHANGED <<mailbox, txok, sent, acked>>
      BY <2>2 DEF OutComplete, requests, history
    <3>. QED
      BY <3>1, FlagsCleared
  <2>. QED
    BY <1>1, <2>1, <2>2 DEF UsbInterrupt
<1>2. ASSUME NEW m \in Mailboxes, PostFrame(m)
      PROVE  TxokIsUnreported' /\ FlagsOnce'
  <2>1. /\ txok' = txok \ {m} /\ UNCHANGED <<sent, acked>>
        /\ mailbox' = [mailbox EXCEPT ![m] = QueueFront(queue)]
    BY <1>2 DEF PostFrame, history
  <2>2. \A n \in txok' : mailbox'[n] = mailbox[n]
    BY <2>1 DEF ControlInv, TypeOK, RequestsType
  <2>. QED
    BY <2>1, <2>2, FlagsCleared
<1>3. CASE FrameSentOk
  <2>1. /\ mb \in txok /\ txok' = txok \ {mb} /\ acked' = acked \cup {mailbox[mb]}
        /\ UNCHANGED <<mailbox, sent>>
    BY <1>3 DEF FrameSentOk
  <2>2. \A m \in txok' : m \in txok /\ mailbox[m] # mailbox[mb]
    BY <2>1 DEF FlagsOnce
  <2>. QED
    BY <2>1, <2>2 DEF TxokIsUnreported, FlagsOnce
<1>4. CASE ClearCompleted
  <2>1. txok' = txok \ {mb} /\ UNCHANGED <<mailbox, sent, acked>>
    BY <1>4 DEF ClearCompleted, history
  <2>. QED
    BY <2>1, FlagsCleared
<1>5. CASE TransmissionOk
  <2>1. /\ onAir # NoMailbox /\ txok' = txok \cup {onAir}
        /\ sent' = sent \cup {mailbox[onAir]} /\ UNCHANGED <<mailbox, acked>>
    BY <1>5 DEF TransmissionOk
  <2>2. Waiting \in Seq(Value) /\ 1 \in DOMAIN Waiting /\ Waiting[1] = mailbox[onAir]
    <3>1. /\ pending # <<>> /\ pending[1] = onAir /\ pending \in Seq(Mailboxes)
      BY <2>1 DEF ControlInv, MailboxFlags, TypeOK, RequestsType
    <3>2. Len(pending) > 0
      BY <3>1, EmptySeq
    <3>3. 1 \in 1..Len(pending) /\ 1 \in 1..Len(Waiting)
      BY <3>2, WaitingIs
    <3>. QED
      BY <3>1, <3>3, WaitingIs
  <2>3. mailbox[onAir] \notin sent /\ mailbox[onAir] \in Int
    <3>1. \A f \in sent : f < mailbox[onAir]
      BY <2>2 DEF StreamInv, Stream!InOrder
    <3>2. mailbox[onAir] \in 1..taken /\ taken \in Nat
      <4>1. Waiting[1] \in 1..taken
        BY <2>2, WaitingTaken
      <4>. QED
        BY <2>2, <4>1, CanTxAssumption DEF ControlInv, TypeOK, HostType
    <3>. QED
      BY <3>1, <3>2
  <2>4. \A m \in txok : mailbox[m] \in sent \ acked
    BY DEF TxokIsUnreported
  <2>5. mailbox[onAir] \notin acked
    BY <2>3 DEF StreamInv
  <2>. QED
    BY <2>1, <2>3, <2>4, <2>5 DEF TxokIsUnreported, FlagsOnce
<1>6. CASE \/ HandleRequest \/ RejectRequest \/ ParseDone \/ PostDone
           \/ ReceiveOutData \/ FrameNotOk \/ FrameSentDone \/ FrameReceived
           \/ ReceiveDone
  <2>1. UNCHANGED <<mailbox, txok, sent, acked>>
    BY <1>6 DEF HandleRequest, RejectRequest, ParseDone, PostDone, ReceiveOutData,
                FrameNotOk, FrameSentDone, FrameReceived, ReceiveDone,
                requests, history
  <2>. QED
    BY <2>1, FlagsCleared
<1>7. CASE \/ ErrorTest \/ ErrorRead \/ ErrorClear \/ AbortMailbox \/ AbortDone
           \/ CanInterrupt
  <2>1. UNCHANGED <<mailbox, txok, sent, acked>>
    BY <1>7 DEF ErrorTest, ErrorRead, ErrorClear, AbortMailbox, AbortDone,
                CanInterrupt, CanIrq, TxIrq, RxIrq, ErrorIrq, requests, history
  <2>. QED
    BY <2>1, FlagsCleared
<1>8. CASE \/ Synchronize \/ StartTransmission \/ TransmissionFailed
           \/ ReceptionFailed \/ ReceptionOk \/ Recover
  <2>1. UNCHANGED <<mailbox, txok, sent, acked>>
    BY <1>8 DEF Synchronize, StartTransmission, TransmissionFailed,
                ReceptionFailed, ReceptionOk, Recover, requests, history
  <2>. QED
    BY <2>1, FlagsCleared
<1>9. CASE UNCHANGED vars
  <2>1. UNCHANGED <<mailbox, txok, sent, acked>>
    BY <1>9 DEF vars, requests, history
  <2>. QED
    BY <2>1, FlagsCleared
<1>. QED
  BY <1>1, <1>2, <1>3, <1>4, <1>5, <1>6, <1>7, <1>8, <1>9
     DEF Next, Handler, Controller

\* The whole invariant holds initially and is kept by every step.
LEMMA InvariantIsInductive == Spec => []Invariant
<1>. DEFINE C == ControlInv /\ FramesHeld
            R == StreamInv /\ TxokIsUnreported /\ FlagsOnce
<1>1. Spec => []C
  BY ControlInvariant
<1>2. Init => R
  <2>. SUFFICES ASSUME Init
                PROVE  R
    OBVIOUS
  <2>1. /\ pending = <<>> /\ txok = {} /\ sent = {} /\ acked = {}
        /\ QueueLength(queue) = 0
    BY Sizes DEF Init, QueueDef, QueueLength
  <2>2. Len(Waiting) = 0 /\ DOMAIN Waiting = {}
    BY <2>1 DEF Waiting, QueueContents
  <2>. QED
    BY <2>1, <2>2 DEF StreamInv, Stream!InOrder, TxokIsUnreported, FlagsOnce
<1>3. C /\ C' /\ R /\ [Next]_vars => R'
  BY StreamStep, StreamKeeps, ReportsStep
<1>4. C /\ R => Invariant
  BY DEF Invariant, FramesOnce, StreamInv, FlagsOnce
<1>. HIDE DEF C, R
<1>. QED
  BY <1>1, <1>2, <1>3, <1>4, PTL DEF Spec

\* A success flag always speaks for a frame that was on the bus and has not
\* been acknowledged (can_if.c:399), so no frame is reported twice or unsent,
\* whatever completes between two register accesses of a handler.
THEOREM ReportsTruthful == Spec => []TxokIsUnreported
  BY InvariantIsInductive, PTL DEF Invariant, FramesOnce

\* The queue, the mailboxes and the refills from two handlers implement the
\* ordered stream of README.md:55: every step is one of its steps, or none.
THEOREM StreamImplemented == Spec => ImplementsStream
<1>1. Init => Stream!Init
  <2>. SUFFICES ASSUME Init
                PROVE  Stream!Init
    OBVIOUS
  <2>1. pending = <<>> /\ QueueContents(queue) = <<>>
    BY Sizes, ResetEmpties DEF Init, QueueDef, QueueContents, QueueLength
  <2>2. Waiting = <<>>
    BY <2>1 DEF Waiting
  <2>. QED
    BY <2>2 DEF Init, Stream!Init
<1>2. Invariant /\ Invariant' /\ [Next]_vars => [Stream!Next]_(Stream!vars)
  BY StreamStep DEF Invariant, FramesOnce, Stream!vars
<1>. QED
  BY <1>1, <1>2, InvariantIsInductive, PTL DEF Spec, ImplementsStream, Stream!Spec

-----------------------------------------------------------------------------
\* The loops of Can_FrameSent and Can_BusError leave their variables as they
\* found them.
LEMMA LoopStep ==
  ASSUME LoopVariables, [Next]_vars
  PROVE  LoopVariables'
<1>. USE DEF LoopVariables
<1>1. CASE UsbInterrupt
  BY <1>1 DEF UsbInterrupt, CanIf_Open, OpenBadRate, OpenNoSync, OpenOk,
              Can_Close, OutComplete, handler
<1>2. CASE \/ HandleRequest \/ RejectRequest \/ ParseDone
           \/ \E m \in Mailboxes : PostFrame(m)
           \/ PostDone \/ ReceiveOutData
  <2>1. /\ UNCHANGED <<mb, ok>>
        /\ pc \in {"parse", "outPost", "txPost", "outReceive", "txReceive"}
    BY <1>2 DEF HandleRequest, RejectRequest, ParseDone, PostFrame, PostDone,
                ReceiveOutData, handler
  <2>2. mb' = 1 /\ ~ok'
    BY <2>1
  <2>. QED
    BY <2>2
<1>3. CASE CanInterrupt
  BY <1>3 DEF CanInterrupt, CanIrq, TxIrq, RxIrq, ErrorIrq
<1>4. CASE \/ FrameSentOk \/ FrameNotOk \/ ClearCompleted \/ FrameSentDone
           \/ FrameReceived \/ ReceiveDone
  BY <1>4 DEF FrameSentOk, FrameNotOk, ClearCompleted, FrameSentDone,
              FrameReceived, ReceiveDone, handler
<1>5. CASE ErrorTest \/ ErrorRead \/ ErrorClear \/ AbortMailbox \/ AbortDone
  BY <1>5 DEF ErrorTest, ErrorRead, ErrorClear, AbortMailbox, AbortDone
<1>6. CASE Controller \/ UNCHANGED vars
  BY <1>6 DEF Controller, Synchronize, StartTransmission, TransmissionOk,
              TransmissionFailed, ReceptionFailed, ReceptionOk, Recover,
              vars, handler
<1>. QED
  BY <1>1, <1>2, <1>3, <1>4, <1>5, <1>6 DEF Next, Handler

-----------------------------------------------------------------------------
\* What is on the air has the oldest request; ending it leaves the others.
LEMMA OldestRequest ==
  ASSUME ControlInv, onAir # NoMailbox
  PROVE  /\ pending \in Seq(Mailboxes) /\ Len(pending) > 0
         /\ onAir \in Requested /\ onAir \in Mailboxes
         /\ pending' = Without(onAir) =>
              Len(pending') = Len(pending) - 1 /\ Requested' = Requested \ {onAir}
<1>1. pending # <<>> /\ pending[1] = onAir /\ pending \in Seq(Mailboxes)
      /\ onAir \in Mailboxes
  BY DEF ControlInv, MailboxFlags, TypeOK, RequestsType
<1>2. Len(pending) > 0 /\ onAir \in Requested
  <2>1. Len(pending) > 0
    BY <1>1, EmptySeq
  <2>2. 1 \in DOMAIN pending
    BY <1>1, <2>1
  <2>. QED
    BY <1>1, <2>1, <2>2 DEF Requested
<1>3. ASSUME pending' = Without(onAir)
      PROVE  Len(pending') = Len(pending) - 1 /\ Requested' = Requested \ {onAir}
  <2>1. Requested' = {pending'[i] : i \in DOMAIN pending'}
    BY DEF Requested
  <2>. QED
    BY <1>2, <1>3, <2>1, WithoutProperties DEF ControlInv
<1>. QED
  BY <1>1, <1>2, <1>3

\* An abort request is made to every mailbox, and ends with the transmission.
LEMMA AbortStep ==
  ASSUME ControlInv, LoopVariables, AbortReaches, [Next]_vars
  PROVE  AbortReaches'
<1>. USE DEF AbortReaches
<1>0. /\ \A m \in Requested : m \in Mailboxes
      /\ onAir # NoMailbox => onAir \in Requested
      /\ NoMailbox \notin Mailboxes
  <2>1. pending \in Seq(Mailboxes)
    BY DEF ControlInv, TypeOK, RequestsType
  <2>2. \A m \in Requested : m \in Mailboxes
    BY <2>1, ElementOfSeq DEF Requested
  <2>. QED
    BY <2>2, OldestRequest, CanTxAssumption DEF Mailboxes, NoMailbox
<1>1. ASSUME UNCHANGED <<onAir, abrq>>, pc' # "abort"
      PROVE  AbortReaches'
  BY <1>1
<1>2. ASSUME UNCHANGED <<onAir, abrq, pending, pc, mb>>
      PROVE  AbortReaches'
  BY <1>2 DEF Requested
<1>3. CASE UsbInterrupt
  <2>1. CASE OpenBadRate \/ OpenNoSync \/ OpenOk \/ Can_Close
    BY <2>1 DEF OpenBadRate, OpenNoSync, OpenOk, Can_Close, ResetCan, handler
  <2>2. ASSUME NEW n \in 0..MaxBatch, OutComplete(n)
        PROVE  AbortReaches'
    BY <1>1, <2>2 DEF OutComplete, requests
  <2>. QED
    BY <1>3, <2>1, <2>2 DEF UsbInterrupt, CanIf_Open
<1>4. CASE \/ HandleRequest \/ RejectRequest \/ ParseDone
           \/ \E m \in Mailboxes : PostFrame(m)
           \/ PostDone \/ ReceiveOutData
  BY <1>1, <1>4 DEF HandleRequest, RejectRequest, ParseDone, PostFrame, PostDone,
                    ReceiveOutData, AfterTx, requests, handler
<1>5. CASE CanInterrupt
  BY <1>1, <1>5 DEF CanInterrupt, CanIrq, TxIrq, RxIrq, ErrorIrq, requests
<1>6. CASE \/ FrameSentOk \/ FrameNotOk \/ ClearCompleted \/ FrameSentDone
           \/ FrameReceived \/ ReceiveDone
  BY <1>1, <1>6 DEF FrameSentOk, FrameNotOk, ClearCompleted, FrameSentDone,
                    FrameReceived, ReceiveDone, AfterTx, AfterRx, requests, handler
<1>7. CASE ErrorTest \/ ErrorRead
  BY <1>1, <1>7 DEF ErrorTest, ErrorRead, requests
<1>8. CASE ErrorClear
  <2>1. UNCHANGED <<onAir, abrq, pending, mb>> /\ mb = 1
    BY <1>8 DEF ErrorClear, LoopVariables, requests
  <2>2. Requested' = Requested
    BY <2>1 DEF Requested
  <2>3. \A m \in Requested : ~(m < mb)
    BY <1>0, <2>1 DEF Mailboxes
  <2>. QED
    BY <2>1, <2>2, <2>3
<1>9. CASE AbortMailbox
  <2>1. /\ pc = "abort" /\ pc' = "abort" /\ UNCHANGED onAir /\ mb' = mb + 1
        /\ mb \in Nat
    BY <1>9 DEF AbortMailbox, ControlInv, TypeOK, HandlerType
  <2>2. CASE mb \in Requested /\ mb # onAir
    <3>1. pending' = Without(mb) /\ UNCHANGED abrq
      BY <1>9, <2>2 DEF AbortMailbox
    <3>2. Requested' = Requested \ {mb}
      <4>1. Requested' = {pending'[i] : i \in DOMAIN pending'}
        BY DEF Requested
      <4>. QED
        BY <2>2, <3>1, <4>1, WithoutProperties DEF ControlInv
    <3>3. ASSUME NEW m \in Requested', m < mb'
          PROVE  m \in abrq'
      <4>1. m \in Requested /\ m # mb /\ m \in Nat
        BY <1>0, <3>2 DEF Mailboxes
      <4>2. m < mb
        BY <2>1, <3>3, <4>1
      <4>. QED
        BY <2>1, <3>1, <4>1, <4>2
    <3>. QED
      BY <2>1, <3>1, <3>3
  <2>3. CASE ~(mb \in Requested /\ mb # onAir)
    <3>1. UNCHANGED pending /\ abrq' = IF mb = onAir THEN abrq \cup {mb} ELSE abrq
      BY <1>9, <2>3 DEF AbortMailbox
    <3>2. Requested' = Requested
      BY <3>1 DEF Requested
    <3>3. abrq' \subseteq {onAir} \ {NoMailbox}
      <4>1. mb # NoMailbox
        BY <1>9 DEF AbortMailbox, ControlInv, TypeOK, HandlerType, NoMailbox
      <4>. QED
        BY <3>1, <4>1
    <3>4. ASSUME NEW m \in Requested', m < mb'
          PROVE  m \in abrq'
      <4>1. m \in Requested /\ m \in Nat
        BY <1>0, <3>2 DEF Mailboxes
      <4>2. m < mb \/ m = mb
        BY <2>1, <3>4, <4>1
      <4>. QED
        BY <2>1, <2>3, <3>1, <4>1, <4>2
    <3>. QED
      BY <2>1, <3>3, <3>4
  <2>. QED
    BY <2>2, <2>3
<1>10. CASE AbortDone
  BY <1>1, <1>10 DEF AbortDone, requests
<1>11. CASE TransmissionOk \/ (TransmissionFailed /\ onAir \in abrq)
  <2>1. /\ onAir # NoMailbox /\ onAir' = NoMailbox /\ abrq' = abrq \ {onAir}
        /\ pending' = Without(onAir) /\ UNCHANGED <<pc, mb>>
    BY <1>11 DEF TransmissionOk, TransmissionFailed, handler
  <2>2. Requested' = Requested \ {onAir}
    BY <2>1, OldestRequest
  <2>. QED
    BY <2>1, <2>2
<1>12. CASE TransmissionFailed /\ onAir \notin abrq
  <2>1. UNCHANGED <<pending, abrq, pc, mb>>
    BY <1>12 DEF TransmissionFailed, handler
  <2>2. Requested' = Requested /\ abrq = {}
    BY <1>12, <2>1 DEF Requested
  <2>. QED
    BY <2>1, <2>2
<1>13. CASE StartTransmission
  <2>1. UNCHANGED <<pending, abrq, pc, mb>> /\ onAir = NoMailbox
    BY <1>13 DEF StartTransmission, handler
  <2>2. Requested' = Requested /\ abrq = {}
    BY <2>1 DEF Requested
  <2>. QED
    BY <2>1, <2>2
<1>14. CASE Synchronize \/ ReceptionFailed \/ ReceptionOk \/ Recover \/ UNCHANGED vars
  <2>1. UNCHANGED <<onAir, abrq, pending, pc, mb>>
    BY <1>14 DEF Synchronize, ReceptionFailed, ReceptionOk, Recover, vars,
                 requests, handler
  <2>. QED
    BY <1>2, <2>1
<1>15. CASE Controller
  BY <1>11, <1>12, <1>13, <1>14, <1>15 DEF Controller
<1>16. CASE Handler
  BY <1>4, <1>6, <1>7, <1>8, <1>9, <1>10, <1>16 DEF Handler
<1>. HIDE DEF AbortReaches
<1>. QED
  BY <1>3, <1>5, <1>14, <1>15, <1>16 DEF Next

-----------------------------------------------------------------------------
\* A step that changes nothing the service depends on keeps it attended.
LEMMA QuietStep ==
  ASSUME QueueAttended,
         UNCHANGED <<queue, pending, abrq>>, Serving' => Serving,
         txok # {} \/ unseen => txok' # {} \/ unseen',
         Attends => Attends'
  PROVE  QueueAttended'
BY DEF QueueAttended

\* So does one after which the handler still attends to the queue, the queue
\* is empty or the interface is out of service.
LEMMA AttendedStep ==
  ASSUME Attends' \/ QueueEmpty(queue') \/ ~Serving'
  PROVE  QueueAttended'
BY DEF QueueAttended

\* With two mailboxes or more, the mailboxes are all requested or the queue
\* is empty when Can_PostFrames ends.
LEMMA AllRequested ==
  ASSUME ControlInv, MailboxCount >= 2, Empty = {}
  PROVE  Len(pending) >= 2 /\ pending # <<>>
<1>1. pending \in Seq(Mailboxes) /\ Len(pending) \in Nat
  BY DEF ControlInv, TypeOK, RequestsType
<1>2. 1 \in Requested /\ 2 \in Requested
  BY CanTxAssumption DEF Empty, Mailboxes
<1>3. PICK i \in 1..Len(pending) : pending[i] = 1
  BY <1>1, <1>2 DEF Requested
<1>4. PICK j \in 1..Len(pending) : pending[j] = 2
  BY <1>1, <1>2 DEF Requested
<1>5. i # j
  BY <1>3, <1>4
<1>. QED
  BY <1>1, <1>3, <1>4, <1>5, EmptySeq

\* The queue is refilled from wherever the mailboxes can become empty.
LEMMA QueueStep ==
  ASSUME MailboxCount >= 2, ControlInv, FramesHeld, StreamInv, TxokIsUnreported,
         FlagsOnce, AbortReaches, LoopVariables, QueueAttended, [Next]_vars
  PROVE  QueueAttended'
<1>1. ASSUME queue' = QueueReset(queue)
      PROVE  QueueEmpty(queue')
  BY <1>1 DEF QueueReset, QueueEmpty
<1>2. CASE UsbInterrupt
  <2>1. CASE OpenBadRate \/ Can_Close
    <3>1. ~Serving'
      BY <2>1 DEF OpenBadRate, Can_Close, Serving
    <3>. QED
      BY <3>1, AttendedStep
  <2>2. CASE OpenNoSync \/ OpenOk
    <3>1. QueueEmpty(queue')
      BY <1>1, <2>2 DEF OpenNoSync, OpenOk
    <3>. QED
      BY <3>1, AttendedStep
  <2>3. ASSUME NEW n \in 0..MaxBatch, OutComplete(n)
        PROVE  QueueAttended'
    <3>1. Attends'
      BY <2>3 DEF OutComplete, Attends
    <3>. QED
      BY <3>1, AttendedStep
  <2>. QED
    BY <1>2, <2>1, <2>2, <2>3 DEF UsbInterrupt, CanIf_Open
<1>3. CASE \/ HandleRequest \/ RejectRequest \/ ParseDone
           \/ \E m \in Mailboxes : PostFrame(m)
  <2>1. Attends' \/ ~Serving'
    BY <1>3 DEF HandleRequest, RejectRequest, ParseDone, PostFrame, Attends, Serving,
                handler
  <2>. QED
    BY <2>1, AttendedStep
<1>4. CASE PostDone
  <2>1. UNCHANGED <<queue, pending>> /\ (QueueEmpty(queue) \/ Empty = {})
    BY <1>4 DEF PostDone, requests
  <2>2. CASE QueueEmpty(queue)
    BY <2>1, <2>2, AttendedStep
  <2>3. CASE Empty = {}
    BY <2>1, <2>3, AllRequested DEF QueueAttended
  <2>. QED
    BY <2>1, <2>2, <2>3
<1>5. CASE ReceiveOutData \/ CanInterrupt \/ FrameNotOk \/ ClearCompleted
             \/ FrameReceived \/ ReceiveDone
  <2>1. UNCHANGED <<queue, pending, abrq, can, stopped>>
    BY <1>5 DEF ReceiveOutData, CanInterrupt, CanIrq, TxIrq, RxIrq, ErrorIrq,
                FrameNotOk, ClearCompleted, FrameReceived, ReceiveDone, host,
                requests, bus
  <2>4. txok # {} \/ unseen => txok' # {} \/ unseen'
    <3>1. CASE ClearCompleted
      <4>1. /\ txok' = txok \ {mb} /\ unseen' = (unseen \/ mb \in txok)
        BY <3>1 DEF ClearCompleted
      <4>. QED
        BY <4>1
    <3>2. CASE ~ClearCompleted
      BY <1>5, <3>2 DEF ReceiveOutData, CanInterrupt, CanIrq, TxIrq, RxIrq,
                        ErrorIrq, FrameNotOk, FrameReceived, ReceiveDone,
                        requests, history
    <3>. QED
      BY <3>1, <3>2
  <2>2. /\ pc \notin {"parse", "outPost", "txPost", "abort"}
        /\ UNCHANGED ok
    BY <1>5 DEF ReceiveOutData, CanInterrupt, CanIrq, TxIrq, RxIrq, ErrorIrq,
                FrameNotOk, ClearCompleted, FrameReceived, ReceiveDone, handler
  <2>3. Attends => Attends'
    BY <2>2 DEF Attends
  <2>. QED
    BY <2>1, <2>3, <2>4, QuietStep DEF Serving
<1>6. CASE FrameSentOk
  <2>1. ok'
    BY <1>6 DEF FrameSentOk
  <2>2. Attends'
    BY <2>1 DEF Attends
  <2>. QED
    BY <2>2, AttendedStep
<1>7. CASE FrameSentDone
  <2>1. UNCHANGED <<queue, pending, abrq, can, stopped, txok, unseen>>
    BY <1>7 DEF FrameSentDone, host, requests, history, bus
  <2>2. pc = "txTxok" /\ (ok => pc' = "txPost")
    BY <1>7 DEF FrameSentDone
  <2>3. Attends => Attends'
    BY <2>2 DEF Attends
  <2>. QED
    BY <2>1, <2>3, QuietStep DEF Serving
<1>8. CASE ErrorTest \/ ErrorRead \/ ErrorClear
  <2>1. UNCHANGED <<queue, pending, abrq, can, stopped, txok, unseen>>
    BY <1>8 DEF ErrorTest, ErrorRead, ErrorClear, host, requests,
                history, bus
  <2>2. /\ pc \notin {"parse", "outPost", "txPost", "abort"}
        /\ UNCHANGED ok
    BY <1>8 DEF ErrorTest, ErrorRead, ErrorClear
  <2>3. Attends => Attends'
    BY <2>2 DEF Attends
  <2>. QED
    BY <2>1, <2>3, QuietStep DEF Serving
<1>9. CASE AbortMailbox
  <2>1. Attends'
    BY <1>9 DEF AbortMailbox, Attends
  <2>. QED
    BY <2>1, AttendedStep
<1>10. CASE AbortDone
  <2>1. QueueEmpty(queue')
    BY <1>1, <1>10 DEF AbortDone
  <2>. QED
    BY <2>1, AttendedStep
<1>11. CASE TransmissionOk
  <2>1. txok' = txok \cup {onAir}
    BY <1>11 DEF TransmissionOk
  <2>. QED
    BY <2>1 DEF QueueAttended
<1>12. CASE TransmissionFailed /\ onAir \in abrq
  <2>1. /\ onAir # NoMailbox /\ abrq' = abrq \ {onAir} /\ pending' = Without(onAir)
        /\ UNCHANGED <<queue, can, stopped, pc, ok, txok, unseen>>
    BY <1>12 DEF TransmissionFailed, host, handler, history
  <2>2. abrq' = {} /\ abrq # {}
    BY <1>12, <2>1 DEF AbortReaches
  <2>3. Len(pending') = Len(pending) - 1 /\ Len(pending) \in Nat
    BY <2>1, OldestRequest
  <2>4. Len(pending) >= 2 => pending' # <<>>
    <3>1. Len(pending) >= 2 => Len(pending') # 0
      BY <2>3
    <3>. QED
      BY <3>1
  <2>5. Attends' <=> Attends
    BY <2>1 DEF Attends
  <2>. QED
    BY <2>1, <2>2, <2>4, <2>5 DEF QueueAttended, Serving
<1>13. CASE \/ TransmissionFailed /\ onAir \notin abrq
            \/ Synchronize \/ StartTransmission \/ ReceptionFailed
            \/ ReceptionOk \/ Recover \/ UNCHANGED vars
  <2>1. /\ UNCHANGED <<queue, stopped, pending, abrq, txok, unseen, pc, ok>>
        /\ can' # "off" => can # "off"
    BY <1>13 DEF TransmissionFailed, Synchronize, StartTransmission,
                 ReceptionFailed, ReceptionOk, Recover, vars, host, requests,
                 handler, history, bus
  <2>2. Attends => Attends'
    BY <2>1 DEF Attends
  <2>. QED
    BY <2>1, <2>2, QuietStep DEF Serving
<1>. QED
  BY <1>2, <1>3, <1>4, <1>5, <1>6, <1>7, <1>8, <1>9, <1>10, <1>11, <1>12, <1>13
     DEF Next, Handler, Controller

-----------------------------------------------------------------------------
\* The loops and the aborts of every instance.
LEMMA AbortInvariant == Spec => [](Invariant /\ LoopVariables /\ AbortReaches)
<1>1. Spec => []Invariant
  BY InvariantIsInductive
<1>2. Init => LoopVariables /\ AbortReaches
  BY DEF Init, LoopVariables, AbortReaches
<1>3. /\ LoopVariables /\ [Next]_vars => LoopVariables'
      /\ Invariant /\ LoopVariables /\ AbortReaches /\ [Next]_vars => AbortReaches'
  BY LoopStep, AbortStep DEF Invariant
<1>. QED
  BY <1>1, <1>2, <1>3, PTL DEF Spec

\* When Can_BusError is done, of all frames taken before at most the one on
\* the air is left, and it is not retried (can_if.c:452).
THEOREM AbortsAreComplete == Spec => AbortLeavesAtMostOne
<1>1. ASSUME Invariant, Invariant', AbortReaches, AbortDone
      PROVE  Len(Waiting') <= 1 /\ Requested' \subseteq abrq'
  <2>1. /\ pc = "abort" /\ mb = MailboxCount + 1 /\ queue' = QueueReset(queue)
        /\ UNCHANGED <<pending, abrq>>
    BY <1>1 DEF AbortDone, requests
  <2>2. pending \in Seq(Mailboxes) /\ Len(pending) \in Nat
    BY <1>1 DEF Invariant, ControlInv, TypeOK, RequestsType
  <2>3. ASSUME NEW m \in Requested
        PROVE  m \in abrq
    <3>1. m \in Mailboxes
      BY <2>2, ElementOfSeq DEF Requested
    <3>2. m < mb
      BY <2>1, <3>1, CanTxAssumption DEF Mailboxes
    <3>. QED
      BY <1>1, <2>1, <3>2 DEF AbortReaches
  <2>4. \A i \in 1..Len(pending) : pending[i] = onAir
    <3>1. \A i \in 1..Len(pending) : pending[i] \in Requested
      BY <2>2 DEF Requested
    <3>. QED
      BY <1>1, <2>3, <3>1 DEF AbortReaches
  <2>5. Len(pending) <= 1
    <3>1. \A i, j \in 1..Len(pending) : i = j
      BY <1>1, <2>2, <2>4 DEF Invariant, ControlInv, MailboxFlags
    <3>2. CASE Len(pending) >= 2
      <4>1. 1 \in 1..Len(pending) /\ 2 \in 1..Len(pending)
        BY <2>2, <3>2
      <4>. QED
        BY <3>1, <4>1
    <3>. QED
      BY <2>2, <3>2
  <2>6. QueueLength(queue') = 0
    BY <1>1, <2>1, Sizes, ResetEmpties DEF Invariant, ControlInv, TypeOK
  <2>7. Len(Waiting') = Len(pending') + QueueLength(queue')
    BY <1>1, WaitingIsNext DEF Invariant
  <2>8. Requested' = Requested
    BY <2>1 DEF Requested
  <2>. QED
    BY <2>1, <2>2, <2>3, <2>5, <2>6, <2>7, <2>8
<1>2. Invariant /\ Invariant' /\ AbortReaches
        => [AbortDone => /\ Len(Waiting') <= 1
                         /\ Requested' \subseteq abrq']_vars
  BY <1>1
<1>. QED
  BY <1>2, AbortInvariant, PTL DEF Spec, AbortLeavesAtMostOne

\* With two mailboxes or more, frames stay behind in CanTxQ only when the
\* success of a frame was discarded unseen (can_if.c:421).
THEOREM OnlyLossStrands == (MailboxCount >= 2) => (Spec => []StrandedOnlyByLoss)
<1>. SUFFICES ASSUME MailboxCount >= 2
              PROVE  Spec => []StrandedOnlyByLoss
  OBVIOUS
<1>1. Spec => [](Invariant /\ LoopVariables /\ AbortReaches)
  BY AbortInvariant
<1>2. Init => QueueAttended
  BY DEF Init, QueueAttended, Serving
<1>3. Invariant /\ LoopVariables /\ AbortReaches /\ QueueAttended /\ [Next]_vars
        => QueueAttended'
  BY QueueStep DEF Invariant, FramesOnce, StreamInv, FlagsOnce
<1>4. LoopVariables /\ QueueAttended => StrandedOnlyByLoss
  BY DEF LoopVariables, QueueAttended, Attends, StrandedOnlyByLoss
<1>. QED
  BY <1>1, <1>2, <1>3, <1>4, PTL DEF Spec

-----------------------------------------------------------------------------
\* The composition with the IN pipe.

\* Every step of both is a step of the transmit path, or none.
LEMMA BothSteps ==
  ASSUME [NextBoth]_both
  PROVE  [Next]_vars
<1>1. CASE Reports
  BY <1>1 DEF Reports, FrameSentReports, ReceptionReports, ErrorReports,
              Next, Handler
<1>2. CASE Open \/ OpenFails \/ Close
  BY <1>2 DEF Open, OpenFails, Close, Next, UsbInterrupt, CanIf_Open
<1>3. CASE InInterrupt
  BY <1>3 DEF InInterrupt
<1>4. CASE Silent \/ CanInterrupt \/ Receives \/ Controller
  BY <1>4 DEF Silent, Receives, Next, Handler, UsbInterrupt
<1>5. CASE UNCHANGED both
  BY <1>5 DEF both
<1>. QED
  BY <1>1, <1>2, <1>3, <1>4, <1>5 DEF NextBoth

LEMMA TransmitPart == SpecBoth => Spec
<1>1. InitBoth => Init
  BY DEF InitBoth
<1>2. [NextBoth]_both => [Next]_vars
  BY BothSteps
<1>. QED
  BY <1>1, <1>2, PTL DEF SpecBoth, Spec

\* The composition keeps what the transmit path alone keeps.
THEOREM CompositionInvariant == SpecBoth => []Invariant
  BY TransmitPart, InvariantIsInductive, PTL

\* ... and the frames their order.
THEOREM CompositionStream == SpecBoth => ImplementsStream
  BY TransmitPart, StreamImplemented, PTL

-----------------------------------------------------------------------------
\* The CAN interrupts run only while the CAN controller is on, and that is so
\* only between CanIf_Open and Can_Close.
CanSteps == {"txTxok", "txRqcp", "txPost", "txReceive", "receive", "errorTest",
             "errorRead"}

Enabled ==
    /\ pc \in CanSteps => can # "off"
    /\ port = "closed" => can = "off"

LEMMA EnabledStep ==
  ASSUME Enabled, [Next]_vars
  PROVE  Enabled'
<1>. USE DEF Enabled, CanSteps
<1>1. CASE UsbInterrupt
  BY <1>1 DEF UsbInterrupt, CanIf_Open, OpenBadRate, OpenNoSync, OpenOk,
              Can_Close, OutComplete, bus, handler
<1>2. CASE \/ HandleRequest \/ RejectRequest \/ ParseDone
           \/ \E m \in Mailboxes : PostFrame(m)
           \/ PostDone \/ ReceiveOutData
  <2>1. UNCHANGED <<can, port>>
    BY <1>2 DEF HandleRequest, RejectRequest, ParseDone, PostFrame, PostDone,
                ReceiveOutData, host, bus
  <2>2. pc' \in CanSteps => pc \in CanSteps
    BY <1>2 DEF HandleRequest, RejectRequest, ParseDone, PostFrame, PostDone,
                ReceiveOutData, AfterTx, handler
  <2>. QED
    BY <2>1, <2>2
<1>3. CASE CanInterrupt
  BY <1>3 DEF CanInterrupt, CanIrq, TxIrq, RxIrq, ErrorIrq, host, bus
<1>4. CASE \/ FrameSentOk \/ FrameNotOk \/ ClearCompleted \/ FrameSentDone
           \/ FrameReceived \/ ReceiveDone
  <2>1. UNCHANGED <<can, port>> /\ pc \in CanSteps
    BY <1>4 DEF FrameSentOk, FrameNotOk, ClearCompleted, FrameSentDone,
                FrameReceived, ReceiveDone, host, bus
  <2>. QED
    BY <2>1
<1>5. CASE ErrorTest \/ ErrorRead \/ ErrorClear \/ AbortMailbox \/ AbortDone
  <2>1. UNCHANGED <<can, port>>
    BY <1>5 DEF ErrorTest, ErrorRead, ErrorClear, AbortMailbox, AbortDone, host, bus
  <2>2. pc' \in CanSteps => pc \in CanSteps
    BY <1>5 DEF ErrorTest, ErrorRead, ErrorClear, AbortMailbox, AbortDone
  <2>. QED
    BY <2>1, <2>2
<1>6. CASE Controller \/ UNCHANGED vars
  <2>1. UNCHANGED <<port, pc>>
    BY <1>6 DEF Controller, Synchronize, StartTransmission, TransmissionOk,
                TransmissionFailed, ReceptionFailed, ReceptionOk, Recover, vars,
                host, handler
  <2>2. UNCHANGED can \/ (can = "syncing" /\ can' = "running")
    BY <1>6 DEF Controller, Synchronize, StartTransmission, TransmissionOk,
                TransmissionFailed, ReceptionFailed, ReceptionOk, Recover, vars, bus
  <2>. QED
    BY <2>1, <2>2
<1>. QED
  BY <1>1, <1>2, <1>3, <1>4, <1>5, <1>6 DEF Next, Handler

\* The queue macros of the IN pipe are those of the transmit path.
LEMMA SameMacros ==
  ASSUME NEW q, NEW n, NEW m
  PROVE  In!QueuePutArray(In!QueuePut(q, n), m) = QueuePutArray(QueuePut(q, n), m)
<1>1. In!QueuePut(q, n) = QueuePut(q, n)
  BY DEF In!QueuePut, QueuePut, In!NextSlot, NextSlot
<1>2. ASSUME NEW r
      PROVE  In!QueuePutArray(r, m) = QueuePutArray(r, m)
  BY Zenon DEF In!QueuePutArray, QueuePutArray, In!FirstRun, FirstRun
<1>. QED
  BY <1>1, <1>2

\* What a callback reports is a message the IN pipe is there for, added while
\* the pipe may be used.
LEMMA ReportStep ==
  ASSUME Invariant, Enabled, Reports
  PROVE  In!Next \/ UNCHANGED In!vars
<1>0. /\ port \in {"closed", "failed", "open"}
      /\ pc \in CanSteps
      /\ UNCHANGED <<port, can>>
  BY DEF Invariant, ControlInv, TypeOK, HostType, Reports, FrameSentReports,
         ReceptionReports, ErrorReports, FrameSentOk, FrameReceived, ErrorRead,
         CanSteps, host, bus
<1>1. In!Reporting /\ UNCHANGED InPort
  BY <1>0 DEF Enabled, In!Reporting, InPort
<1>2. ASSUME NEW m \in Messages, Report(m)
      PROVE  In!Next
  <2>1. CASE In!HasRoom(m)
    <3>1. In!SendInData(In!QueuePutArray(In!QueuePut(ring, Len(m) + 1), m), In!Free)
      BY <1>2, <2>1, SameMacros DEF Report
    <3>. QED
      BY <1>1, <2>1, <3>1 DEF In!Next, In!AddMessage
  <2>2. CASE ~In!HasRoom(m)
    <3>1. UNCHANGED <<ring, flight, last, left>>
      BY <1>2, <2>2 DEF Report, inPipe
    <3>. QED
      BY <1>1, <2>2, <3>1 DEF In!Next, In!AddMessage
  <2>. QED
    BY <2>1, <2>2
<1>3. CASE FrameSentReports
  <2>1. mb \in txok /\ Report(Ack(mailbox[mb]))
    BY <1>3 DEF FrameSentReports, FrameSentOk
  <2>2. mailbox[mb] \in Frame
    BY <2>1 DEF Invariant, FramesOnce, TxokIsUnreported, ControlInv, TypeOK,
                HistoryType
  <2>. QED
    BY <1>2, <2>1, <2>2 DEF Messages
<1>4. CASE ReceptionReports
  BY <1>2, <1>4 DEF ReceptionReports, Messages
<1>5. CASE ErrorReports
  <2>1. CASE lec
    BY <1>2, <1>5, <2>1 DEF ErrorReports, Messages
  <2>2. CASE ~lec
    <3>1. UNCHANGED inPipe
      BY <1>5, <2>2 DEF ErrorReports
    <3>. QED
      BY <1>1, <3>1 DEF inPipe, In!vars
  <2>. QED
    BY <2>1, <2>2
<1>. QED
  BY <1>3, <1>4, <1>5 DEF Reports

\* Every step of both is a step of the IN pipe, or none.
LEMMA InStep ==
  ASSUME Invariant, Enabled, [NextBoth]_both
  PROVE  In!Next \/ UNCHANGED In!vars
<1>1. CASE Reports
  BY <1>1, ReportStep
<1>2. CASE Open
  <2>1. InPort' = "open" /\ ring' = QueueReset(ring) /\ UNCHANGED <<flight, last, left>>
    BY <1>2 DEF Open, OpenOk, InPort
  <2>2. In!QueueReset(ring) = QueueReset(ring)
    BY DEF In!QueueReset, QueueReset
  <2>. QED
    BY <2>1, <2>2 DEF In!Next, In!OpenOk
<1>3. CASE OpenFails
  <2>1. UNCHANGED inPipe /\ InPort' \in {"silent", "failed"}
    BY <1>3 DEF OpenFails, OpenBadRate, OpenNoSync, InPort
  <2>. QED
    BY <2>1 DEF inPipe, In!Next, In!OpenBadRate, In!OpenNoSync
<1>4. CASE Close
  <2>1. /\ InPort # "closed" /\ InPort' = "closed"
        /\ ring' = ring /\ flight' = <<>> /\ last' = 0 /\ left' = 0
    BY <1>4 DEF Close, Can_Close, InPort
  <2>. QED
    BY <2>1 DEF In!Next, In!Close
<1>5. CASE InInterrupt
  BY <1>5 DEF InInterrupt, In!Next
<1>6. CASE (Silent \/ CanInterrupt \/ Receives \/ Controller) /\ UNCHANGED inPipe
  <2>1. UNCHANGED port
    BY <1>6 DEF Silent, HandleRequest, RejectRequest, ParseDone, PostFrame, PostDone,
                ReceiveOutData, FrameNotOk, ClearCompleted, FrameSentDone,
                ReceiveDone, ErrorTest, ErrorClear, AbortMailbox, AbortDone,
                CanInterrupt, CanIrq, TxIrq, RxIrq, ErrorIrq, Receives, OutComplete,
                Controller, Synchronize, StartTransmission, TransmissionOk,
                TransmissionFailed, ReceptionFailed, ReceptionOk, Recover, host
  <2>2. UNCHANGED can \/ (can = "syncing" /\ can' = "running")
    BY <1>6 DEF Silent, HandleRequest, RejectRequest, ParseDone, PostFrame, PostDone,
                ReceiveOutData, FrameNotOk, ClearCompleted, FrameSentDone,
                ReceiveDone, ErrorTest, ErrorClear, AbortMailbox, AbortDone,
                CanInterrupt, CanIrq, TxIrq, RxIrq, ErrorIrq, Receives, OutComplete,
                Controller, Synchronize, StartTransmission, TransmissionOk,
                TransmissionFailed, ReceptionFailed, ReceptionOk, Recover, bus
  <2>3. UNCHANGED InPort
    BY <2>1, <2>2 DEF InPort
  <2>. QED
    BY <1>6, <2>3 DEF inPipe, In!vars
<1>7. CASE UNCHANGED both
  BY <1>7 DEF both, vars, inPipe, host, bus, InPort, In!vars
<1>. QED
  BY <1>1, <1>2, <1>3, <1>4, <1>5, <1>6, <1>7 DEF NextBoth

\* The messages of the composition are such as CanIfIn assumes them to be, so
\* what CanIfInProofs shows of the pipe holds of the one the handlers use.
LEMMA MessagesFitPipe ==
  /\ InSize \in Nat \ {0} /\ PacketSize \in Nat \ {0}
  /\ \A m \in Messages : m \in Seq(In!Byte) /\ Len(m) \in 1..254
<1>. SUFFICES ASSUME NEW m \in Messages
              PROVE  m \in Seq(In!Byte) /\ Len(m) \in 1..254
  BY CanDybugAssumption
<1>1. CASE \E f \in Frame : m = Ack(f)
  <2>1. PICK f \in Frame : m = <<CANIF_ACK_FLAG + f>>
    BY <1>1 DEF Ack
  <2>2. CANIF_ACK_FLAG + f \in In!Byte
    BY CanDybugAssumption DEF Frame, CANIF_ACK_FLAG, In!Byte
  <2>. QED
    BY <2>1, <2>2
<1>2. CASE m = BusError
  <2>1. m = <<64, 0>>
    BY <1>2 DEF BusError, CANIF_BUS_ERROR
  <2>. QED
    BY <2>1 DEF In!Byte
<1>3. CASE m = Received
  <2>1. m = <<0, 0, 0>>
    BY <1>3 DEF Received
  <2>. QED
    BY <2>1 DEF In!Byte
<1>. QED
  BY <1>1, <1>2, <1>3 DEF Messages

\* The handlers use the IN pipe as CanIfIn takes it to be used: they report
\* only what it can hold, and only while the interface is open.
THEOREM InImplemented == SpecBoth => ImplementsIn
<1>1. SpecBoth => [](Invariant /\ Enabled)
  <2>1. InitBoth => Enabled
    BY DEF InitBoth, Init, Enabled, CanSteps
  <2>2. Enabled /\ [Next]_vars => Enabled'
    BY EnabledStep
  <2>. QED
    BY <2>1, <2>2, TransmitPart, CompositionInvariant, PTL DEF SpecBoth, Spec
<1>2. InitBoth => In!Init
  BY DEF InitBoth, Init, InPort, In!Init, In!QueueDef, QueueDef
<1>3. Invariant /\ Enabled /\ [NextBoth]_both => [In!Next]_(In!vars)
  BY InStep
<1>. QED
  BY <1>1, <1>2, <1>3, PTL DEF SpecBoth, ImplementsIn, In!Spec

-----------------------------------------------------------------------------
\* The acknowledgements in w are of frames taken after frame s and reported
\* according to a, each once.
FreshIn(w, s, a) ==
    \A i \in DOMAIN w, f \in Frame :
        w[i] = CANIF_ACK_FLAG + f =>
            /\ f > s /\ f \in a
            /\ \A j \in DOMAIN w : w[j] = CANIF_ACK_FLAG + f => i = j

\* What can still be acknowledged was taken in this session.
Newer ==
    /\ \A i \in 1..Len(Waiting) : Waiting[i] > session
    /\ \A m \in txok : mailbox[m] > session

\* The ring and the transfer in flight hold bytes.
PipeHeld ==
    /\ ring \in Queue(InSize, Nat)
    /\ flight \in Seq(Nat)
    /\ former => flight # <<>>

\* The inductive invariant behind FreshReports.
FreshInv ==
    /\ PipeHeld
    /\ session \in 0..taken
    /\ port = "open" => Newer /\ FreshIn(Told, session, acked)

\* The chunk the IN pipe submits is what QUEUE_GET_ARRAY would take.
LEMMA InChunk ==
  ASSUME NEW size \in Nat \ {0}, NEW E, NEW q \in Queue(size, E), ~QueueEmpty(q)
  PROVE  LET start == In!ChunkStart(q)
             n     == In!ChunkLength(q)
         IN  /\ n \in 1..QueueLength(q)
             /\ [q EXCEPT !.tail = start + n - 1] = QueueGetArray(q, n)
             /\ [i \in 1..n |-> q.buffer[start + i - 1]] = QueueFrontArray(q, n)
<1>. DEFINE start == In!ChunkStart(q)
            n     == In!ChunkLength(q)
<1>1. /\ q.size = size /\ q.head \in 0..size /\ q.tail \in 0..size
      /\ q.tail # q.head
      /\ q = [size |-> q.size, head |-> q.head, tail |-> q.tail, buffer |-> q.buffer]
  BY DEF Queue, QueueEmpty
<1>2. n \in 1..QueueLength(q)
  BY <1>1 DEF In!ChunkLength, QueueLength
<1>3. [q EXCEPT !.tail = start + n - 1] =
        [size |-> q.size, head |-> q.head, tail |-> start + n - 1,
         buffer |-> q.buffer]
  BY <1>1
<1>4. QueueGetArray(q, n).tail = start + n - 1
  BY <1>1 DEF In!ChunkStart, In!ChunkLength, QueueGetArray, FirstRun, GetArrayRoom
<1>5. [q EXCEPT !.tail = start + n - 1] = QueueGetArray(q, n)
  BY <1>3, <1>4 DEF QueueGetArray
<1>6. [i \in 1..n |-> q.buffer[start + i - 1]] = QueueFrontArray(q, n)
  <2>1. CASE q.tail = q.size
    <3>1. FirstRun(n, GetArrayRoom(q)) = 0 /\ start = 0
      BY <1>1, <2>1 DEF FirstRun, GetArrayRoom, In!ChunkStart, In!ChunkLength
    <3>. QED
      BY <1>2, <3>1 DEF QueueFrontArray
  <2>2. CASE q.tail # q.size
    <3>1. FirstRun(n, GetArrayRoom(q)) = n /\ start = q.tail + 1
      BY <1>1, <2>2 DEF FirstRun, GetArrayRoom, In!ChunkStart, In!ChunkLength
    <3>. QED
      BY <1>1, <1>2, <3>1 DEF QueueFrontArray
  <2>. QED
    BY <2>1, <2>2
<1>. QED
  BY <1>2, <1>5, <1>6

\* CanIf_SendInData, called for the ring q, moves bytes from its front into a
\* free pipe and none is lost or added.
LEMMA SendKeepsBytes ==
  ASSUME InSize \in Nat \ {0}, NEW q \in Queue(InSize, Nat), NEW free \in BOOLEAN,
         flight \in Seq(Nat), In!SendInData(q, free)
  PROVE  /\ ring' \in Queue(InSize, Nat) /\ flight' \in Seq(Nat)
         /\ ~free => flight' = flight /\ Waits' = QueueContents(q)
         /\ flight' \o Waits' = (IF free THEN <<>> ELSE flight) \o QueueContents(q)
<1>. DEFINE c == QueueContents(q)
<1>0. c \in Seq(Nat) /\ Len(c) = QueueLength(q) /\ QueueLength(q) \in 0..InSize
  BY ContentsType
<1>1. Waits' = QueueContents(ring')
  BY DEF Waits
<1>2. In!QueueEmpty(q) <=> QueueEmpty(q)
  BY DEF In!QueueEmpty, QueueEmpty
<1>3. CASE ~QueueEmpty(q) /\ free
  <2>. DEFINE start == In!ChunkStart(q)
              n     == In!ChunkLength(q)
  <2>1. /\ ring' = [q EXCEPT !.tail = start + n - 1]
        /\ flight' = [i \in 1..n |-> q.buffer[start + i - 1]]
    BY <1>2, <1>3 DEF In!SendInData, In!Submit
  <2>2. /\ n \in 1..QueueLength(q)
        /\ ring' = QueueGetArray(q, n) /\ flight' = QueueFrontArray(q, n)
    <3>1. /\ n \in 1..QueueLength(q)
          /\ [q EXCEPT !.tail = start + n - 1] = QueueGetArray(q, n)
          /\ [i \in 1..n |-> q.buffer[start + i - 1]] = QueueFrontArray(q, n)
      BY <1>3, InChunk
    <3>. QED
      BY <2>1, <3>1
  <2>. HIDE DEF start, n
  <2>3. /\ ring' \in Queue(InSize, Nat)
        /\ flight' = SubSeq(c, 1, n) /\ Waits' = SubSeq(c, n + 1, Len(c))
    BY <1>1, <2>2, GetArrayTakesFront
  <2>. HIDE DEF c
  <2>4. n \in 1..Len(c)
    BY <1>0, <2>2
  <2>5. SubSeq(c, 1, n) \o SubSeq(c, n + 1, Len(c)) = SubSeq(c, 1, Len(c))
    <3>1. 1 \in 1..(Len(c) + 1) /\ n \in (1 - 1)..Len(c) /\ Len(c) \in n..Len(c)
      BY <1>0, <2>4
    <3>. QED
      BY <1>0, <3>1, ConcatAdjacentSubSeq
  <2>6. flight' \o Waits' = c
    BY <1>0, <2>3, <2>5, SubSeqFull
  <2>7. flight' \in Seq(Nat)
    <3>1. \A i \in 1..n : c[i] \in Nat
      BY <1>0, <2>4
    <3>. QED
      BY <2>3, <2>4, <3>1, SubSeqProperties
  <2>8. <<>> \o c = c
    BY <1>0, ConcatEmptySeq
  <2>. QED
    BY <1>3, <2>3, <2>6, <2>7, <2>8 DEF c
<1>4. CASE ~(~QueueEmpty(q) /\ free)
  <2>1. ring' = q /\ flight' = IF free THEN <<>> ELSE flight
    BY <1>2, <1>4 DEF In!SendInData, In!NoSubmit
  <2>2. Waits' = c
    BY <1>1, <2>1
  <2>3. flight' \in Seq(Nat)
    BY <2>1, EmptySeq
  <2>. QED
    BY <2>1, <2>2, <2>3
<1>. QED
  BY <1>3, <1>4

\* The messages are short, and only the acknowledgement of f reads like it.
LEMMA MessageBytes ==
  ASSUME NEW m \in Messages
  PROVE  /\ m \in Seq(Nat) /\ Len(m) \in 1..3
         /\ \A i \in 1..Len(m), f \in Frame : m[i] = CANIF_ACK_FLAG + f => m = Ack(f)
<1>0. Frame \subseteq Nat
  BY CanTxAssumption DEF Frame
<1>1. CASE \E g \in Frame : m = Ack(g)
  <2>1. PICK g \in Frame : m = <<CANIF_ACK_FLAG + g>>
    BY <1>1 DEF Ack
  <2>2. CANIF_ACK_FLAG + g \in Nat
    BY <1>0 DEF CANIF_ACK_FLAG
  <2>. QED
    BY <2>1, <2>2 DEF Ack
<1>2. CASE m = BusError
  BY <1>0, <1>2 DEF BusError, CANIF_BUS_ERROR, CANIF_ACK_FLAG
<1>3. CASE m = Received
  BY <1>0, <1>3 DEF Received, CANIF_ACK_FLAG
<1>. QED
  BY <1>1, <1>2, <1>3 DEF Messages

\* What the session tells is a sequence of bytes.
LEMMA ToldType ==
  ASSUME InSize \in Nat \ {0}, ring \in Queue(InSize, Nat), flight \in Seq(Nat)
  PROVE  /\ Waits \in Seq(Nat) /\ Told \in Seq(Nat)
         /\ Len(Waits) = QueueLength(ring) /\ QueueLength(ring) \in 0..InSize
<1>1. /\ Waits \in Seq(Nat) /\ Len(Waits) = QueueLength(ring)
      /\ QueueLength(ring) \in 0..InSize
  BY ContentsType DEF Waits
<1>2. flight \o Waits \in Seq(Nat)
  BY <1>1, ConcatProperties
<1>. QED
  BY <1>1, <1>2 DEF Told

\* A reported message goes behind what the session told so far, whether a part
\* of that is submitted in the same step or not.
LEMMA ReportAppends ==
  ASSUME InSize \in Nat \ {0}, PipeHeld, NEW m \in Messages,
         Report(m), In!HasRoom(m), former' = former
  PROVE  PipeHeld' /\ Told' = Told \o (<<Len(m) + 1>> \o m)
<1>. DEFINE p == QueuePut(ring, Len(m) + 1)
            q == QueuePutArray(p, m)
            b == <<Len(m) + 1>>
            e == b \o m
<1>0. ring \in Queue(InSize, Nat) /\ flight \in Seq(Nat) /\ (former => flight # <<>>)
  BY DEF PipeHeld
<1>1. m \in Seq(Nat) /\ Len(m) \in 1..3 /\ Len(m) + 1 \in Nat
  BY MessageBytes
<1>2. /\ QueueLength(ring) \in 0..InSize /\ Waits \in Seq(Nat)
      /\ Len(Waits) = QueueLength(ring)
  BY <1>0, ToldType
<1>3. QueueLength(ring) + Len(m) + 1 <= InSize
  <2>1. In!QueueSpace(ring) = QueueSpace(ring)
    BY DEF In!QueueSpace, QueueSpace
  <2>2. QueueSpace(ring) = InSize - QueueLength(ring)
    BY <1>0, SpaceAndLength
  <2>. QED
    BY <1>1, <1>2, <2>1, <2>2 DEF In!HasRoom
<1>4. /\ p \in Queue(InSize, Nat)
      /\ QueueLength(p) = QueueLength(ring) + 1
      /\ QueueContents(p) = Append(Waits, Len(m) + 1)
  <2>1. QueueLength(ring) < InSize
    BY <1>1, <1>2, <1>3
  <2>. QED
    BY <1>0, <1>1, <2>1, PutAppends DEF Waits
<1>. HIDE DEF p
<1>5. m \in ArrayOf(Nat) /\ Fits(p, m)
  <2>1. QueueSpace(p) = InSize - QueueLength(p)
    BY <1>4, SpaceAndLength
  <2>. QED
    BY <1>1, <1>2, <1>3, <1>4, <2>1 DEF ArrayOf, Fits
<1>6. q \in Queue(InSize, Nat) /\ QueueContents(q) = QueueContents(p) \o m
  <2>. HIDE DEF q
  <2>1. /\ QueuePutArray(p, m) \in Queue(InSize, Nat)
        /\ QueueContents(QueuePutArray(p, m)) = QueueContents(p) \o m
    BY ONLY ZenonT(30), InSize \in Nat \ {0}, <1>4, <1>5, PutArrayAppends
  <2>. QED
    BY <2>1 DEF q
<1>7. b \in Seq(Nat) /\ e \in Seq(Nat)
  BY <1>1
<1>8. QueueContents(q) = Waits \o e
  <2>1. Append(Waits, Len(m) + 1) = Waits \o b
    BY <1>1, <1>2, AppendIsConcat
  <2>2. (Waits \o b) \o m = Waits \o e
    <3>1. Waits \in Seq(Nat) /\ b \in Seq(Nat) /\ m \in Seq(Nat)
      BY <1>1, <1>2, <1>7
    <3>. HIDE DEF b
    <3>2. (Waits \o b) \o m = Waits \o (b \o m)
      BY ONLY SMTT(30), <3>1, ConcatAssociative
    <3>. QED
      BY <3>2 DEF b
  <2>. QED
    BY <1>4, <1>6, <2>1, <2>2
<1>9. In!SendInData(q, In!Free)
  BY Zenon DEF Report, p
<1>. HIDE DEF q, e
<1>10. In!Free \in BOOLEAN /\ (In!Free <=> flight = <<>>)
  BY DEF In!Free
<1>11. /\ ring' \in Queue(InSize, Nat) /\ flight' \in Seq(Nat)
       /\ ~In!Free => flight' = flight /\ Waits' = Waits \o e
       /\ flight' \o Waits' = (IF In!Free THEN <<>> ELSE flight) \o (Waits \o e)
  BY <1>0, <1>6, <1>8, <1>9, <1>10, SendKeepsBytes
<1>12. CASE former
  <2>1. flight' = flight /\ Waits' = Waits \o e
    BY <1>0, <1>10, <1>11, <1>12
  <2>. QED
    BY <1>0, <1>11, <1>12, <2>1 DEF PipeHeld, Told, e
<1>13. CASE ~former
  <2>1. flight' \o Waits' = flight \o (Waits \o e)
    BY <1>10, <1>11
  <2>2. flight \o (Waits \o e) = (flight \o Waits) \o e
    <3>1. flight \in Seq(Nat) /\ Waits \in Seq(Nat) /\ e \in Seq(Nat)
      BY <1>0, <1>2, <1>7 DEF e
    <3>. QED
      BY ONLY SMTT(30), <3>1, ConcatAssociative
  <2>. QED
    BY <1>11, <1>13, <2>1, <2>2 DEF PipeHeld, Told, e
<1>. QED
  BY <1>12, <1>13

\* A message behind bytes keeps the acknowledgements fresh, when the frame it
\* may acknowledge is of this session and was not reported before.
LEMMA AppendedFresh ==
  ASSUME NEW w \in Seq(Nat), NEW m \in Messages, NEW s \in Nat, NEW a, NEW b,
         a \subseteq b, FreshIn(w, s, a),
         \A f \in Frame : m = Ack(f) => f > s /\ f \notin a /\ f \in b
  PROVE  FreshIn(w \o (<<Len(m) + 1>> \o m), s, b)
<1>. DEFINE e   == <<Len(m) + 1>> \o m
            all == w \o e
<1>1. /\ m \in Seq(Nat) /\ Len(m) \in 1..3
      /\ \A i \in 1..Len(m), f \in Frame : m[i] = CANIF_ACK_FLAG + f => m = Ack(f)
  BY MessageBytes
<1>2. Len(w) \in Nat /\ DOMAIN w = 1..Len(w)
  OBVIOUS
<1>3. /\ e \in Seq(Nat) /\ Len(e) = Len(m) + 1
      /\ e[1] = Len(m) + 1 /\ \A i \in 1..Len(m) : e[i + 1] = m[i]
  BY <1>1
<1>. HIDE DEF e
<1>4. /\ all \in Seq(Nat) /\ Len(all) = Len(w) + Len(e)
      /\ DOMAIN all = 1..(Len(w) + Len(e))
      /\ \A i \in 1..Len(w) : all[i] = w[i]
      /\ \A i \in 1..Len(e) : all[Len(w) + i] = e[i]
  <2>1. /\ w \o e \in Seq(Nat) /\ Len(w \o e) = Len(w) + Len(e)
        /\ \A i \in 1..(Len(w) + Len(e)) :
             (w \o e)[i] = IF i <= Len(w) THEN w[i] ELSE e[i - Len(w)]
    BY ZenonT(30), <1>3, ConcatProperties
  <2>2. Len(e) \in Nat
    BY <1>1, <1>3
  <2>. QED
    BY <1>2, <2>1, <2>2
<1>. HIDE DEF all
<1>5. ASSUME NEW i \in 1..Len(all), NEW f \in Frame, all[i] = CANIF_ACK_FLAG + f
      PROVE  /\ f > s /\ f \in b
             /\ \A j \in 1..Len(all) : all[j] = CANIF_ACK_FLAG + f => i = j
  <2>0. f \in Nat \ {0}
    BY CanTxAssumption DEF Frame
  <2>1. ASSUME NEW k \in 1..Len(w), all[k] = CANIF_ACK_FLAG + f
        PROVE  /\ f > s /\ f \in a
               /\ \A j \in 1..Len(w) : all[j] = CANIF_ACK_FLAG + f => k = j
    <3>1. k \in DOMAIN w /\ w[k] = CANIF_ACK_FLAG + f
      BY <1>2, <1>4, <2>1
    <3>2. /\ f > s /\ f \in a
          /\ \A j \in DOMAIN w : w[j] = CANIF_ACK_FLAG + f => k = j
      BY <3>1 DEF FreshIn
    <3>. QED
      BY <1>2, <1>4, <3>2
  <2>2. ASSUME NEW k \in 1..Len(all), k > Len(w), all[k] = CANIF_ACK_FLAG + f
        PROVE  m = Ack(f) /\ k = Len(w) + 2
    <3>1. PICK j \in 1..Len(e) : k = Len(w) + j
      <4>1. k - Len(w) \in 1..Len(e) /\ k = Len(w) + (k - Len(w))
        BY <1>1, <1>2, <1>3, <1>4, <2>2
      <4>. QED
        BY <4>1
    <3>2. e[j] = CANIF_ACK_FLAG + f
      BY <1>4, <2>2, <3>1
    <3>3. j # 1
      <4>. SUFFICES ASSUME j = 1 PROVE FALSE
        OBVIOUS
      <4>1. Len(m) + 1 = 128 + f
        BY <1>3, <3>2 DEF CANIF_ACK_FLAG
      <4>2. \A x \in 1..3, y \in Nat \ {0} : x + 1 # 128 + y
        OBVIOUS
      <4>. QED
        BY ONLY <1>1, <2>0, <4>1, <4>2
    <3>4. j - 1 \in 1..Len(m) /\ j = (j - 1) + 1
      BY <1>1, <1>3, <3>1, <3>3
    <3>5. m[j - 1] = CANIF_ACK_FLAG + f
      BY <1>3, <3>2, <3>4
    <3>6. m = Ack(f)
      BY <1>1, <3>4, <3>5
    <3>7. Len(m) = 1
      BY <3>6 DEF Ack
    <3>. QED
      BY <1>2, <3>1, <3>4, <3>6, <3>7
  <2>3. CASE i <= Len(w)
    <3>1. i \in 1..Len(w)
      BY <1>2, <2>3
    <3>2. f > s /\ f \in a
      BY <1>5, <2>1, <3>1
    <3>3. m # Ack(f)
      BY <3>2
    <3>. QED
      BY <1>2, <1>4, <1>5, <2>1, <2>2, <3>1, <3>2, <3>3
  <2>4. CASE i > Len(w)
    <3>1. m = Ack(f) /\ i = Len(w) + 2
      BY <1>5, <2>2, <2>4
    <3>2. f > s /\ f \notin a /\ f \in b
      BY <3>1
    <3>. QED
      BY <1>2, <1>4, <2>1, <2>2, <3>1, <3>2
  <2>. QED
    BY <1>2, <2>3, <2>4
<1>6. DOMAIN all = 1..Len(all)
  BY <1>4
<1>7. FreshIn(all, s, b)
  BY <1>5, <1>6 DEF FreshIn
<1>. QED
  BY <1>7 DEF all, e

\* Reporting keeps what the session tells fresh.
LEMMA ReportFresh ==
  ASSUME InSize \in Nat \ {0}, PipeHeld, NEW m \in Messages,
         Report(m), former' = former, NEW s \in Nat, NEW a, NEW b, a \subseteq b,
         \A f \in Frame : m = Ack(f) => f > s /\ f \notin a /\ f \in b
  PROVE  PipeHeld' /\ (FreshIn(Told, s, a) => FreshIn(Told', s, b))
<1>1. CASE ~In!HasRoom(m)
  <2>1. UNCHANGED <<ring, flight, former>>
    BY <1>1 DEF Report, inPipe
  <2>2. PipeHeld' /\ Told' = Told
    BY <2>1 DEF PipeHeld, Told, Waits
  <2>3. \A x : x = Told => (FreshIn(x, s, a) => FreshIn(x, s, b))
    BY DEF FreshIn
  <2>. QED
    BY <2>2, <2>3
<1>2. CASE In!HasRoom(m)
  <2>1. PipeHeld' /\ Told' = Told \o (<<Len(m) + 1>> \o m)
    BY <1>2, ReportAppends
  <2>2. Told \in Seq(Nat)
    BY ToldType DEF PipeHeld
  <2>. DEFINE w == Told
              v == Told'
  <2>3. w \in Seq(Nat) /\ v = w \o (<<Len(m) + 1>> \o m)
    BY <2>1, <2>2
  <2>. HIDE DEF w, v
  <2>4. FreshIn(w, s, a) => FreshIn(v, s, b)
    BY <2>3, AppendedFresh
  <2>. QED
    BY <2>1, <2>4 DEF w, v
<1>. QED
  BY <1>1, <1>2

\* So does the end of a transfer: what is left is the end of what was told.
LEMMA CompletedFresh ==
  ASSUME InSize \in Nat \ {0}, PipeHeld, In!SendInData(ring, TRUE),
         former' = FALSE, NEW s \in Nat, NEW a
  PROVE  PipeHeld' /\ (FreshIn(Told, s, a) => FreshIn(Told', s, a))
<1>1. /\ ring \in Queue(InSize, Nat) /\ flight \in Seq(Nat)
      /\ Waits \in Seq(Nat)
  BY ToldType DEF PipeHeld
<1>2. /\ ring' \in Queue(InSize, Nat) /\ flight' \in Seq(Nat)
      /\ flight' \o Waits' = <<>> \o Waits
  BY <1>1, SendKeepsBytes DEF Waits
<1>3. Told' = Waits
  BY <1>1, <1>2, ConcatEmptySeq DEF Told
<1>4. FreshIn(Told, s, a) => FreshIn(Waits, s, a)
  <2>1. CASE former
    BY <2>1 DEF Told
  <2>2. CASE ~former
    <3>. DEFINE w == Waits
                n == Len(flight)
    <3>1. w \in Seq(Nat) /\ n \in Nat /\ Len(w) \in Nat
          /\ DOMAIN w = 1..Len(w)
      BY <1>1
    <3>. HIDE DEF w
    <3>2. /\ flight \o w \in Seq(Nat) /\ Len(flight \o w) = n + Len(w)
          /\ \A i \in 1..(n + Len(w)) :
               (flight \o w)[i] = IF i <= n THEN flight[i] ELSE w[i - n]
      BY <1>1, <3>1, ConcatProperties
    <3>. HIDE DEF n
    <3>3. DOMAIN (flight \o w) = 1..(n + Len(w))
      BY <3>2
    <3>4. \A i \in DOMAIN w : /\ n + i \in DOMAIN (flight \o w)
                              /\ (flight \o w)[n + i] = w[i]
      BY SMTT(20), <3>1, <3>2, <3>3
    <3>5. \A i, j \in DOMAIN w : n + i = n + j => i = j
      BY <3>1
    <3>6. FreshIn(flight \o w, s, a) => FreshIn(w, s, a)
      BY <3>4, <3>5 DEF FreshIn
    <3>. QED
      BY <2>2, <3>6 DEF w, Told
  <2>. QED
    BY <2>1, <2>2
<1>. QED
  BY <1>2, <1>3, <1>4 DEF PipeHeld

\* A success flag a step sets is of the oldest frame waiting.
LEMMA FlagsSet ==
  ASSUME ControlInv, [Next]_vars, NEW m \in txok'
  PROVE  \/ m \in txok /\ mailbox'[m] = mailbox[m]
         \/ 1 \in 1..Len(Waiting) /\ mailbox'[m] = Waiting[1]
<1>1. CASE UsbInterrupt
  <2>1. CASE CanIf_Open \/ Can_Close
    BY <2>1 DEF CanIf_Open, OpenBadRate, OpenNoSync, OpenOk, Can_Close, ResetCan
  <2>2. CASE \E n \in 0..MaxBatch : OutComplete(n)
    BY <2>2 DEF OutComplete, requests
  <2>. QED
    BY <1>1, <2>1, <2>2 DEF UsbInterrupt
<1>2. CASE \E n \in Mailboxes : PostFrame(n)
  <2>1. PICK n \in Mailboxes : PostFrame(n)
    BY <1>2
  <2>2. txok' = txok \ {n} /\ mailbox' = [mailbox EXCEPT ![n] = QueueFront(queue)]
    BY <2>1 DEF PostFrame
  <2>. QED
    BY <2>2 DEF ControlInv, TypeOK, RequestsType
<1>3. CASE FrameSentOk \/ ClearCompleted
  BY <1>3 DEF FrameSentOk, ClearCompleted
<1>4. CASE TransmissionOk
  <2>1. onAir # NoMailbox /\ txok' = txok \cup {onAir} /\ UNCHANGED mailbox
    BY <1>4 DEF TransmissionOk
  <2>2. pending # <<>> /\ pending[1] = onAir /\ pending \in Seq(Mailboxes)
    BY <2>1 DEF ControlInv, MailboxFlags, TypeOK, RequestsType
  <2>3. Len(pending) > 0
    BY <2>2, EmptySeq
  <2>4. 1 \in 1..Len(pending) /\ 1 \in 1..Len(Waiting)
    BY <2>3, WaitingIs
  <2>5. Waiting[1] = mailbox[onAir]
    BY <2>2, <2>4, WaitingIs
  <2>. QED
    BY <2>1, <2>4, <2>5
<1>5. CASE \/ HandleRequest \/ RejectRequest \/ ParseDone \/ PostDone
           \/ ReceiveOutData \/ FrameNotOk \/ FrameSentDone \/ FrameReceived
           \/ ReceiveDone
  BY <1>5 DEF HandleRequest, RejectRequest, ParseDone, PostDone, ReceiveOutData,
              FrameNotOk, FrameSentDone, FrameReceived, ReceiveDone, requests
<1>6. CASE \/ ErrorTest \/ ErrorRead \/ ErrorClear \/ AbortMailbox \/ AbortDone
           \/ CanInterrupt
  BY <1>6 DEF ErrorTest, ErrorRead, ErrorClear, AbortMailbox, AbortDone,
              CanInterrupt, CanIrq, TxIrq, RxIrq, ErrorIrq, requests
<1>7. CASE \/ Synchronize \/ StartTransmission \/ TransmissionFailed
           \/ ReceptionFailed \/ ReceptionOk \/ Recover \/ UNCHANGED vars
  BY <1>7 DEF Synchronize, StartTransmission, TransmissionFailed, ReceptionFailed,
              ReceptionOk, Recover, vars, requests
<1>. QED
  BY <1>1, <1>2, <1>3, <1>4, <1>5, <1>6, <1>7 DEF Next, Handler, Controller

\* The frames of the stream stay newer than s, when those taken from now on are.
LEMMA WaitingNewer ==
  ASSUME ControlInv, NEW s \in 0..taken,
         \A i \in 1..Len(Waiting) : Waiting[i] > s,
         Stream!Next \/ UNCHANGED <<taken, Waiting, sent, acked>>
  PROVE  \A i \in 1..Len(Waiting') : Waiting'[i] > s
<1>. DEFINE w == Waiting
            v == Waiting'
<1>0. /\ w \in Seq(Value) /\ Len(w) \in Nat /\ DOMAIN w = 1..Len(w)
      /\ taken \in Nat
  BY WaitingIs, CanTxAssumption DEF ControlInv, TypeOK, HostType
<1>1. CASE Stream!Take
  <2>1. taken + 1 \in Value /\ v = Append(w, taken + 1)
    BY <1>1 DEF Stream!Take, Value
  <2>2. Len(v) = Len(w) + 1 /\ v[Len(w) + 1] = taken + 1
        /\ \A i \in 1..Len(w) : v[i] = w[i]
    <3>. HIDE DEF w
    <3>1. /\ Len(Append(w, taken + 1)) = Len(w) + 1
          /\ Append(w, taken + 1)[Len(w) + 1] = taken + 1
          /\ \A i \in 1..Len(w) : Append(w, taken + 1)[i] = w[i]
      BY <1>0, <2>1, AppendProperties
    <3>. QED
      BY <2>1, <3>1
  <2>. HIDE DEF v
  <2>3. \A i \in 1..Len(v) : i \in 1..Len(w) \/ i = Len(w) + 1
    BY <1>0, <2>2
  <2>. HIDE DEF w
  <2>4. taken + 1 > s
    BY <1>0
  <2>5. \A i \in 1..Len(v) : v[i] > s
    BY <2>2, <2>3, <2>4 DEF w
  <2>. QED
    BY <2>5 DEF v
<1>2. CASE Stream!Send
  <2>1. w # <<>> /\ v = Tail(w)
    BY <1>2 DEF Stream!Send
  <2>2. Len(v) = Len(w) - 1 /\ \A i \in 1..(Len(w) - 1) : v[i] = w[i + 1]
    <3>. HIDE DEF w
    <3>. QED
      BY <1>0, <2>1, HeadTailProperties, EmptySeq
  <2>. HIDE DEF v
  <2>3. \A i \in 1..Len(v) : i + 1 \in 1..Len(w)
    BY <1>0, <2>2
  <2>4. \A i \in 1..Len(v) : v[i] > s
    BY <2>2, <2>3
  <2>. QED
    BY <2>4 DEF v
<1>3. CASE \E f \in Frame : Stream!Acknowledge(f)
  BY <1>3 DEF Stream!Acknowledge
<1>4. ASSUME NEW i \in DOMAIN Waiting, NEW j \in DOMAIN Waiting, i <= j,
             Stream!Discard(i, j)
      PROVE  \A n \in 1..Len(Waiting') : Waiting'[n] > s
  <2>. DEFINE m == Len(w) - (j - i + 1)
  <2>1. v = SubSeq(w, 1, i - 1) \o SubSeq(w, j + 1, Len(w))
    BY <1>4 DEF Stream!Discard
  <2>2. i \in 1..Len(w) /\ j \in i..Len(w) /\ m \in Nat
    BY <1>0, <1>4
  <2>3. /\ Len(v) = m
        /\ \A n \in 1..m : v[n] = IF n < i THEN w[n] ELSE w[n + (j - i + 1)]
    <3>. DEFINE c == SubSeq(w, 1, i - 1) \o SubSeq(w, j + 1, Len(w))
    <3>1. /\ Len(c) = Len(w) - (j - i + 1)
          /\ \A n \in 1..(Len(w) - (j - i + 1)) :
               c[n] = IF n < i THEN w[n] ELSE w[n + (j - i + 1)]
      <4>. HIDE DEF w
      <4>. QED
        BY ONLY <1>0, <2>2, CutProperties
    <3>. HIDE DEF c, w, v
    <3>. QED
      BY <2>1, <3>1 DEF c
  <2>. HIDE DEF v
  <2>4. \A n \in 1..m : n \in 1..Len(w) /\ n + (j - i + 1) \in 1..Len(w)
    BY <1>0, <2>2
  <2>5. \A n \in 1..Len(v) : v[n] > s
    BY <2>3, <2>4
  <2>. QED
    BY <2>5 DEF v
<1>5. CASE UNCHANGED <<taken, Waiting, sent, acked>>
  BY <1>5
<1>. QED
  BY <1>1, <1>2, <1>3, <1>4, <1>5 DEF Stream!Next

\* Outside CanIf_Open the session stays the same, and no step but CanIf_Open
\* opens the interface.
LEMMA SessionStays ==
  ASSUME [NextBoth]_both, ~Open
  PROVE  session' = session /\ (port' = "open" => port = "open")
<1>1. CASE Reports /\ UNCHANGED epoch
  BY <1>1 DEF epoch, Reports, FrameSentReports, ReceptionReports, ErrorReports,
              FrameSentOk, FrameReceived, ErrorRead, host
<1>2. CASE OpenFails \/ Close
  BY <1>2 DEF epoch, OpenFails, OpenBadRate, OpenNoSync, Close, Can_Close
<1>3. CASE InInterrupt
  BY <1>3 DEF InInterrupt, vars, host
<1>4. CASE (Silent \/ CanInterrupt \/ Receives \/ Controller)
             /\ UNCHANGED <<inPipe, epoch>>
  BY <1>4 DEF epoch, Silent, HandleRequest, RejectRequest, ParseDone, PostFrame, PostDone,
              ReceiveOutData, FrameNotOk, ClearCompleted, FrameSentDone,
              ReceiveDone, ErrorTest, ErrorClear, AbortMailbox, AbortDone,
              CanInterrupt, CanIrq, TxIrq, RxIrq, ErrorIrq, Receives, OutComplete,
              Controller, Synchronize, StartTransmission, TransmissionOk,
              TransmissionFailed, ReceptionFailed, ReceptionOk, Recover, host
<1>5. CASE UNCHANGED both
  BY <1>5 DEF both, epoch, vars, host
<1>. QED
  BY <1>1, <1>2, <1>3, <1>4, <1>5 DEF NextBoth

\* CanIf_Open leaves nothing of the former session, neither frames nor flags
\* nor messages, but the transfer in flight.
LEMMA OpenIsFresh ==
  ASSUME Invariant, Invariant', FreshInv, Open
  PROVE  FreshInv'
<1>0. InSize \in Nat \ {0} /\ TxCapacity \in Nat
  BY CanDybugAssumption, CanTxAssumption DEF TxCapacity
<1>1. /\ ring' = QueueReset(ring) /\ session' = taken /\ taken' = taken
      /\ queue' = QueueReset(queue) /\ pending' = <<>> /\ txok' = {}
      /\ flight' = flight /\ former' = (flight # <<>>)
  BY DEF Open, OpenOk, ResetCan, In!Free
<1>2. PipeHeld' /\ Told' = <<>>
  <2>1. ring' \in Queue(InSize, Nat) /\ Waits' = <<>>
    BY <1>0, <1>1, ResetEmpties DEF FreshInv, PipeHeld, Waits
  <2>2. PipeHeld'
    BY <1>1, <2>1 DEF FreshInv, PipeHeld
  <2>3. CASE flight = <<>>
    <3>1. <<>> \o <<>> = <<>>
      BY EmptySeq, ConcatEmptySeq
    <3>. QED
      BY <1>1, <2>1, <2>2, <2>3, <3>1 DEF Told
  <2>4. CASE flight # <<>>
    BY <1>1, <2>1, <2>2, <2>4 DEF Told
  <2>. QED
    BY <2>3, <2>4
<1>3. session' \in 0..taken'
  BY <1>1, CanTxAssumption DEF Invariant, ControlInv, TypeOK, HostType
<1>4. Len(Waiting') = 0
  <2>1. QueueLength(queue') = 0
    BY <1>0, <1>1, ResetEmpties DEF Invariant, ControlInv, TypeOK
  <2>2. Len(pending') = 0
    BY <1>1
  <2>. QED
    BY <2>1, <2>2, WaitingIsNext DEF Invariant
<1>5. Newer'
  BY <1>1, <1>4 DEF Newer
<1>6. FreshIn(Told', session', acked')
  BY <1>2 DEF FreshIn
<1>. QED
  BY <1>2, <1>3, <1>5, <1>6 DEF FreshInv

\* What is reported in a session is new: it was taken in the session, and its
\* success flag is gone with the report.
LEMMA ReportsAreFresh ==
  ASSUME Invariant, FreshInv, Reports, former' = former
  PROVE  /\ PipeHeld'
         /\ port = "open" => FreshIn(Told', session, acked')
<1>0. InSize \in Nat \ {0} /\ PipeHeld
  BY CanDybugAssumption DEF FreshInv
<1>1. session \in Nat
  BY CanTxAssumption DEF FreshInv, Invariant, ControlInv, TypeOK, HostType
<1>2. CASE FrameSentReports
  <2>. DEFINE g == mailbox[mb]
  <2>1. mb \in txok /\ Report(Ack(g)) /\ acked' = acked \cup {g}
    BY <1>2 DEF FrameSentReports, FrameSentOk
  <2>2. g \in Frame /\ g \notin acked
    BY <2>1 DEF Invariant, FramesOnce, TxokIsUnreported, ControlInv, TypeOK,
                HistoryType
  <2>3. Ack(g) \in Messages
    BY <2>2 DEF Messages
  <2>4. ASSUME NEW f \in Frame, Ack(g) = Ack(f) PROVE f = g
    <3>1. CANIF_ACK_FLAG + g = CANIF_ACK_FLAG + f
      BY <2>4 DEF Ack
    <3>. QED
      BY <2>2, <3>1, CanTxAssumption DEF Frame, CANIF_ACK_FLAG
  <2>5. port = "open" => g > session
    BY <2>1 DEF FreshInv, Newer
  <2>6. CASE port = "open"
    <3>1. \A f \in Frame : Ack(g) = Ack(f) => f > session /\ f \notin acked /\ f \in acked'
      BY <2>1, <2>2, <2>4, <2>5, <2>6
    <3>2. acked \subseteq acked'
      BY <2>1
    <3>. HIDE DEF g
    <3>. QED
      BY <1>0, <1>1, <2>1, <2>3, <2>6, <3>1, <3>2, ReportFresh DEF FreshInv
  <2>7. CASE port # "open"
    <3>1. CASE In!HasRoom(Ack(g))
      <4>. HIDE DEF g
      <4>. QED
        BY <1>0, <2>1, <2>3, <2>7, <3>1, ReportAppends
    <3>2. CASE ~In!HasRoom(Ack(g))
      BY <1>0, <2>1, <2>7, <3>2 DEF Report, inPipe, PipeHeld
    <3>. QED
      BY <3>1, <3>2
  <2>. QED
    BY <2>6, <2>7
<1>3. CASE ReceptionReports \/ ErrorReports
  <2>1. acked' = acked
    BY <1>3 DEF ReceptionReports, ErrorReports, FrameReceived, ErrorRead, history
  <2>2. CASE UNCHANGED inPipe
    BY <2>1, <2>2 DEF inPipe, FreshInv, PipeHeld, Told, Waits
  <2>3. ASSUME NEW m \in {BusError, Received}, Report(m)
        PROVE  /\ PipeHeld'
               /\ port = "open" => FreshIn(Told', session, acked')
    <3>1. m \in Messages
      BY DEF Messages
    <3>2. \A f \in Frame : m # Ack(f)
      <4>1. Len(m) # 1
        BY DEF BusError, Received
      <4>. QED
        BY <4>1 DEF Ack
    <3>. QED
      BY <1>0, <1>1, <2>1, <2>3, <3>1, <3>2, ReportFresh DEF FreshInv
  <2>. QED
    BY <1>3, <2>2, <2>3 DEF ReceptionReports, ErrorReports
<1>. QED
  BY <1>2, <1>3 DEF Reports

LEMMA FreshStep ==
  ASSUME Invariant, Invariant', FreshInv, [NextBoth]_both
  PROVE  FreshInv'
<1>1. CASE Open
  BY <1>1, OpenIsFresh
<1>2. CASE ~Open
  <2>1. session' = session /\ (port' = "open" => port = "open")
    BY <1>2, SessionStays
  <2>2. [Next]_vars
    BY BothSteps
  <2>3. Stream!Next \/ UNCHANGED <<taken, Waiting, sent, acked>>
    BY <2>2, StreamStep DEF Invariant, FramesOnce
  <2>4. session \in 0..taken'
    <3>1. taken' = taken \/ taken' = taken + 1
      BY <2>3 DEF Stream!Next, Stream!Take, Stream!Send, Stream!Acknowledge,
                  Stream!Discard
    <3>2. taken \in Nat
      BY CanTxAssumption DEF Invariant, ControlInv, TypeOK, HostType
    <3>. QED
      BY <3>1, <3>2 DEF FreshInv
  <2>5. ASSUME port' = "open" PROVE Newer'
    <3>1. Newer /\ session \in 0..taken
      BY <2>1, <2>5 DEF FreshInv
    <3>2. \A i \in 1..Len(Waiting') : Waiting'[i] > session
      BY <2>3, <3>1, WaitingNewer DEF Invariant, Newer
    <3>3. \A m \in txok' : mailbox'[m] > session
      BY <2>2, <3>1, FlagsSet DEF Invariant, Newer
    <3>. QED
      BY <2>1, <3>2, <3>3 DEF Newer
  <2>6. /\ PipeHeld'
        /\ port' = "open" => FreshIn(Told', session, acked')
    <3>0. ASSUME UNCHANGED <<ring, flight, former, acked>>
          PROVE  /\ PipeHeld'
                 /\ port' = "open" => FreshIn(Told', session, acked')
      BY <2>1, <3>0 DEF FreshInv, PipeHeld, Told, Waits
    <3>1. CASE Reports /\ UNCHANGED epoch
      BY <2>1, <3>1, ReportsAreFresh DEF epoch
    <3>2. CASE InInterrupt
      <4>1. UNCHANGED <<port, acked>>
        BY <3>2 DEF InInterrupt, vars, host, history
      <4>2. CASE In!LoadPacket /\ UNCHANGED former
        BY <3>0, <4>1, <4>2 DEF In!LoadPacket
      <4>3. CASE In!EpInComplete /\ former' = FALSE
        <5>1. In!SendInData(ring, TRUE)
          BY <4>3 DEF In!EpInComplete
        <5>2. InSize \in Nat \ {0} /\ PipeHeld /\ session \in Nat
          BY CanDybugAssumption, CanTxAssumption
             DEF FreshInv, Invariant, ControlInv, TypeOK, HostType
        <5>. QED
          BY <4>1, <4>3, <5>1, <5>2, CompletedFresh DEF FreshInv
      <4>. QED
        BY <3>2, <4>2, <4>3 DEF InInterrupt
    <3>3. CASE OpenFails
      BY <3>3 DEF OpenFails, OpenBadRate, OpenNoSync, inPipe, epoch, FreshInv, PipeHeld
    <3>4. CASE Close
      <4>1. /\ port' # "open" /\ ring' = ring /\ flight' = <<>> /\ former' = FALSE
        BY <3>4 DEF Close, Can_Close
      <4>2. flight' \in Seq(Nat)
        BY <4>1, EmptySeq
      <4>. QED
        BY <4>1, <4>2 DEF FreshInv, PipeHeld
    <3>5. CASE (Silent \/ CanInterrupt \/ Receives \/ Controller)
                 /\ UNCHANGED <<inPipe, epoch>>
      <4>1. UNCHANGED acked
        BY <3>5 DEF Silent, HandleRequest, RejectRequest, ParseDone, PostFrame,
                    PostDone, ReceiveOutData, FrameNotOk, ClearCompleted,
                    FrameSentDone, ReceiveDone, ErrorTest, ErrorClear,
                    AbortMailbox, AbortDone, CanInterrupt, CanIrq, TxIrq, RxIrq,
                    ErrorIrq, Receives, OutComplete, Controller, Synchronize,
                    StartTransmission, TransmissionOk, TransmissionFailed,
                    ReceptionFailed, ReceptionOk, Recover, history
      <4>. QED
        BY <3>0, <3>5, <4>1 DEF inPipe, epoch
    <3>6. CASE UNCHANGED both
      BY <3>0, <3>6 DEF both, inPipe, epoch, vars, history
    <3>. QED
      BY <1>2, <3>1, <3>2, <3>3, <3>4, <3>5, <3>6 DEF NextBoth
  <2>. QED
    BY <2>1, <2>4, <2>5, <2>6 DEF FreshInv
<1>. QED
  BY <1>1, <1>2

\* Apart from the transfer that was in flight at CanIf_Open the host is told
\* about the frames of the new session only, and about each once: the
\* peripheral (can_if.c:100), the queue (can_if.c:504) and the ring
\* (can_if.c:114) are all reset, in whatever state the former session left them.
THEOREM ReportsAreOfTheSession == SpecBoth => []FreshReports
<1>1. InitBoth => FreshInv
  <2>. SUFFICES ASSUME InitBoth PROVE FreshInv
    OBVIOUS
  <2>1. ring \in Queue(InSize, Nat)
    BY CanDybugAssumption DEF InitBoth, QueueDef, Queue
  <2>2. flight \in Seq(Nat) /\ former = FALSE
    BY EmptySeq DEF InitBoth
  <2>. QED
    BY <2>1, <2>2 DEF InitBoth, Init, FreshInv, PipeHeld
<1>2. Invariant /\ Invariant' /\ FreshInv /\ [NextBoth]_both => FreshInv'
  BY FreshStep
<1>3. Invariant /\ FreshInv => FreshReports
  <2>. SUFFICES ASSUME Invariant, FreshInv, port = "open", NEW f \in Frame,
                       NEW i \in DOMAIN Told, Told[i] = CANIF_ACK_FLAG + f
                PROVE  /\ f > session /\ f \in sent
                       /\ \A j \in DOMAIN Told : Told[j] = CANIF_ACK_FLAG + f => i = j
    BY Zenon DEF FreshReports, AcksIn
  <2>1. acked \subseteq sent
    BY DEF Invariant, FramesOnce
  <2>. QED
    BY <2>1 DEF FreshInv, FreshIn
<1>. QED
  BY <1>1, <1>2, <1>3, CompositionInvariant, PTL DEF SpecBoth
=============================================================================
