---------------------------- MODULE UartRxProofs ----------------------------
(***************************************************************************)
(* Safety of the UART0 receiver for every buffer size, FIFO depth,         *)
(* threshold, chunk length, queue length and pace of the sender.           *)
(***************************************************************************)
EXTENDS UartRx, SequenceTheorems, TLAPS

(* The bytes in the buffer end where the next ones will be put.            *)
InBehind == pIn = Wrap(pOut + Count)

IInv == TypeOK /\ InBehind

-----------------------------------------------------------------------------
(* What the operations on the ring buffer do to it.                        *)

(* Going around the array.                                                 *)
LEMMA WrapMeets ==
  ASSUME NEW p \in 0..(Size - 1), NEW c \in 0..(Size - 1)
  PROVE  Wrap(p + c) \in 0..(Size - 1) /\ (Wrap(p + c) = p <=> c = 0)
BY RxAssumption DEF Wrap

LEMMA CountRange ==
  ASSUME TypeOK
  PROVE  Count \in 0..(Size - 1) /\ Count = Size - space
BY RxAssumption DEF TypeOK, Count

LEMMA PostTypes ==
  ASSUME NEW q \in 0..QueueLen
  PROVE  Post(q) \in 1..QueueLen /\ Post(q) >= q
BY RxAssumption DEF Post

LEMMA ReadLenRange ==
  ASSUME TypeOK
  PROVE  ReadLen \in 0..Count
BY RxAssumption, CountRange DEF ReadLen

(* The shortcut of UART_ReadAsync - no look past the end of the array      *)
(* unless pOutPos is beyond pInPos - finds the bytes that wait and leaves  *)
(* pOutPos where going round would have.                                   *)
LEMMA ShortcutIsRight ==
  ASSUME IInv, NEW n \in 0..Count
  PROVE  /\ (IF pOut > pIn THEN Wrap(pOut + n) ELSE pOut + n) = Wrap(pOut + n)
         /\ \A k \in 1..n : ByteAt(k) = buf[Wrap(pOut + k - 1)]
<1> USE RxAssumption DEF IInv, InBehind, TypeOK
<1>1. Count \in 0..(Size - 1)
  BY CountRange
<1>2. ASSUME ~(pOut > pIn) PROVE pOut + n \in 0..(Size - 1)
  BY <1>1, <1>2 DEF Wrap
<1>3. (IF pOut > pIn THEN Wrap(pOut + n) ELSE pOut + n) = Wrap(pOut + n)
  BY <1>2 DEF Wrap
<1>4. ASSUME NEW k \in 1..n PROVE ByteAt(k) = buf[Wrap(pOut + k - 1)]
  BY <1>1, <1>2 DEF ByteAt, Wrap
<1> QED BY <1>3, <1>4

(* The bytes that leave the array are bytes.                               *)
LEMMA ReadIsSeq ==
  ASSUME IInv, NEW n \in 0..Count
  PROVE  /\ [k \in 1..n |-> ByteAt(k)] \in Seq(Nat)
         /\ Len([k \in 1..n |-> ByteAt(k)]) = n
<1> USE RxAssumption DEF IInv, TypeOK
<1> DEFINE s == [k \in 1..n |-> ByteAt(k)]
<1>1. Count \in 0..(Size - 1) /\ n \in Nat
  BY CountRange
<1>2. \A k \in 1..n : Wrap(pOut + k - 1) \in 0..(Size - 1)
  BY <1>1 DEF Wrap
<1>3. \A k \in 1..n : ByteAt(k) \in Nat
  BY <1>2, ShortcutIsRight
<1>4. s \in [1..n -> Nat]
  BY <1>3
<1> QED BY <1>1, <1>4

-----------------------------------------------------------------------------
(* Each step keeps the types and the place of pInPos.                      *)

LEMMA CollectKeeps ==
  ASSUME IInv, Collect
  PROVE  /\ buf' \in [0..(Size - 1) -> Nat]
         /\ pIn' \in 0..(Size - 1) /\ pOut' = pOut
         /\ space' \in 1..Size /\ fifo' = 0
         /\ stored' \in Nat /\ dropped' = dropped
         /\ InBehind' /\ (pIn' = pOut' <=> Count' = 0)
<1>1. /\ fifo \in Nat /\ space \in 1..Size /\ Size \in Nat
      /\ pOut \in 0..(Size - 1) /\ pIn \in 0..(Size - 1)
      /\ buf \in [0..(Size - 1) -> Nat] /\ stored \in Nat
  BY RxAssumption DEF IInv, TypeOK
<1>2. /\ pIn' = Wrap(pIn + fifo) /\ space' = space - fifo /\ stored' = stored + fifo
      /\ fifo' = 0 /\ pOut' = pOut /\ dropped' = dropped /\ fifo < space
  BY DEF Collect, Fits
<1>3. buf' \in [0..(Size - 1) -> Nat]
  <2> DEFINE k(i) == IF i >= pIn THEN i - pIn ELSE i + Size - pIn
             new(i) == IF k(i) < fifo THEN stored + k(i) + 1 ELSE buf[i]
  <2>1. buf' = [i \in 0..(Size - 1) |-> new(i)]
    BY DEF Collect
  <2>2. ASSUME NEW i \in 0..(Size - 1) PROVE new(i) \in Nat
    <3>1. k(i) \in Nat /\ buf[i] \in Nat
      BY <1>1
    <3> HIDE DEF k
    <3> QED BY <1>1, <3>1
  <2> HIDE DEF new
  <2> QED BY <2>1, <2>2
<1>4. Count = Size - space /\ Count' = Size - space' /\ pIn = Wrap(pOut + Count)
  BY DEF IInv, InBehind, Count
<1>5. Count \in 0..(Size - 1) /\ Count' = Count + fifo /\ Count' \in 0..(Size - 1)
      /\ space' \in 1..Size /\ stored' \in Nat
  BY <1>1, <1>2, <1>4
<1>6. pIn' = Wrap(pOut' + Count')
  BY <1>1, <1>2, <1>4, <1>5 DEF Wrap
<1>7. pIn' \in 0..(Size - 1) /\ (pIn' = pOut' <=> Count' = 0)
  <2>1. /\ Wrap(pOut + Count') \in 0..(Size - 1)
        /\ Wrap(pOut + Count') = pOut <=> Count' = 0
    BY <1>1, <1>5, WrapMeets
  <2>2. pIn' = Wrap(pOut + Count')
    BY <1>2, <1>6
  <2> QED BY <1>2, <2>1, <2>2
<1> QED BY <1>1, <1>2, <1>3, <1>5, <1>6, <1>7 DEF InBehind

LEMMA DiscardKeeps ==
  ASSUME IInv, Discard
  PROVE  fifo' \in 0..FifoLen /\ dropped' \in Nat
BY RxAssumption DEF IInv, TypeOK, Discard, Fits

LEMMA InductiveIInv == IInv /\ [Next]_vars => IInv'
<1> SUFFICES ASSUME IInv, [Next]_vars
             PROVE  IInv'
  OBVIOUS
<1> USE RxAssumption DEF IInv
<1>1. CASE Arrive
  <2>1. fifo' \in 0..FifoLen /\ arrived' \in Nat /\ overrun' \in Nat
    BY <1>1 DEF Arrive, TypeOK
  <2> QED BY <1>1, <2>1 DEF Arrive, TypeOK, InBehind, Count, ring, queues
<1>2. CASE LineQuiet
  BY <1>2 DEF LineQuiet, TypeOK, InBehind, Count, ring, queues, ghosts
<1>3. CASE RxInterrupt
  <2>1. recvQ' \in 0..QueueLen
    BY <1>3 DEF RxInterrupt, TypeOK, Post
  <2> QED BY <1>3, <2>1 DEF RxInterrupt, TypeOK, InBehind, Count, ring, ghosts
<1>4. CASE RecvTask
  <2>1. /\ recvQ' \in 0..QueueLen /\ pc' = "reenable"
        /\ UNCHANGED <<tout, rxEna, procQ, tmpEna, parsed, arrived, overrun, pace>>
    BY <1>4 DEF RecvTask, TypeOK
  <2>2. CASE Collect
    <3>1. /\ buf' \in [0..(Size - 1) -> Nat]
          /\ pIn' \in 0..(Size - 1) /\ pOut' = pOut
          /\ space' \in 1..Size /\ fifo' = 0
          /\ stored' \in Nat /\ dropped' = dropped
          /\ InBehind' /\ (pIn' = pOut' <=> Count' = 0)
      BY <2>2, CollectKeeps
    <3> QED BY <2>1, <3>1 DEF TypeOK
  <2>3. CASE Discard
    BY <2>1, <2>3, DiscardKeeps DEF Discard, TypeOK, InBehind, Count, Wrap, ring
  <2> QED BY <1>4, <2>2, <2>3 DEF RecvTask
<1>5. CASE RecvReenable
  BY <1>5 DEF RecvReenable, Unmask, TypeOK, InBehind, Count, ring, queues, ghosts
<1>6. CASE RecvPost
  <2>1. procQ' \in 0..QueueLen
    BY <1>6, PostTypes DEF RecvPost, TypeOK
  <2> QED BY <1>6, <2>1 DEF RecvPost, TypeOK, InBehind, Count, ring, irqs, ghosts
<1>7. CASE ProcessTask
  <2> DEFINE n == ReadLen
             s == [k \in 1..n |-> ByteAt(k)]
  <2>1. n \in 0..Count /\ Count \in 0..(Size - 1) /\ Count = Size - space
    BY ReadLenRange, CountRange
  <2>2. /\ parsed' = parsed \o s /\ space' = space + n
        /\ pOut' = IF pOut > pIn THEN Wrap(pOut + n) ELSE pOut + n
        /\ rxEna' = (rxEna \/ space' >= FifoLen) /\ procQ' = procQ - 1 /\ procQ > 0
        /\ pc' = "again"
        /\ UNCHANGED <<fifo, tout, recvQ, tmpEna, buf, pIn, stored, arrived,
                       overrun, dropped, pace>>
    BY <1>7 DEF ProcessTask
  <2>3. s \in Seq(Nat)
    BY <2>1, ReadIsSeq
  <2>4. pOut' = Wrap(pOut + n)
    BY <2>1, <2>2, ShortcutIsRight
  <2> HIDE DEF n, s
  <2>5. parsed' \in Seq(Nat)
    BY <2>2, <2>3, ConcatProperties DEF TypeOK
  <2>6. /\ pOut \in 0..(Size - 1) /\ pOut' \in 0..(Size - 1) /\ space' \in 1..Size
        /\ Count' = Count - n /\ Count' \in 0..(Size - 1)
    BY <2>1, <2>2, <2>4 DEF TypeOK, Count, Wrap
  <2>7. InBehind'
    <3>1. pIn' = pIn /\ pIn = Wrap(pOut + Count) /\ Count \in Nat /\ n \in 0..Count
      BY <2>1, <2>2 DEF InBehind
    <3>2. pIn' = Wrap(pOut' + Count')
      BY <2>1, <2>4, <2>6, <3>1 DEF Wrap
    <3> QED BY <3>2 DEF InBehind
  <2>8. pIn' = pOut' <=> Count' = 0
    BY <2>6, <2>7, WrapMeets DEF InBehind
  <2>9. rxEna' \in BOOLEAN /\ procQ' \in 0..QueueLen
    BY <2>2 DEF TypeOK
  <2> QED BY <2>2, <2>5, <2>6, <2>7, <2>8, <2>9 DEF TypeOK
<1>8. CASE ProcessAgain
  <2>1. procQ' \in 0..QueueLen
    BY <1>8, PostTypes DEF ProcessAgain, TypeOK
  <2> QED BY <1>8, <2>1 DEF ProcessAgain, TypeOK, InBehind, Count, ring, irqs, ghosts
<1>9. CASE TxEnableLoad
  BY <1>9 DEF TxEnableLoad, TypeOK, InBehind, Count, ring, irqs, queues, ghosts
<1>10. CASE TxEnableStore
  BY <1>10 DEF TxEnableStore, TypeOK, InBehind, Count, ring, queues, ghosts
<1>11. CASE UNCHANGED vars
  BY <1>11 DEF vars, TypeOK, InBehind, Count, ring, irqs, queues, ghosts
<1> QED
  BY <1>1, <1>2, <1>3, <1>4, <1>5, <1>6, <1>7, <1>8, <1>9, <1>10, <1>11
     DEF Next, RunningTask

LEMMA InitIInv == Init => IInv
<1> SUFFICES ASSUME Init PROVE IInv
  OBVIOUS
<1> USE RxAssumption DEF Init
<1>1. buf \in [0..(Size - 1) -> Nat] /\ parsed \in Seq(Nat)
  OBVIOUS
<1>2. Count = 0
  BY DEF Count
<1> QED BY <1>1, <1>2 DEF IInv, TypeOK, InBehind, Wrap

(* Positions, counters and queues stay in their ranges, and one byte of    *)
(* Space stays free, so that equal positions always mean an empty buffer.  *)
THEOREM TypeCorrect == Spec => []TypeOK
<1>1. Init => IInv BY InitIInv
<1> QED BY <1>1, InductiveIInv, PTL DEF Spec, IInv

-----------------------------------------------------------------------------
(* With the interrupt masked, something that will unmask it is to come;    *)
(* and UART_SendAsync does not put a mask back that nobody will take off.  *)
UnmaskOwed ==
  /\ rxEna \/ recvQ > 0 \/ pc = "reenable"
  /\ pc = "txena" => tmpEna \/ recvQ > 0

AttendedInv == IInv /\ UnmaskOwed /\ RingAttended

LEMMA InductiveAttended == AttendedInv /\ [Next]_vars => AttendedInv'
<1> SUFFICES ASSUME AttendedInv, [Next]_vars
             PROVE  UnmaskOwed' /\ RingAttended'
  BY InductiveIInv DEF AttendedInv
<1> USE DEF AttendedInv, UnmaskOwed, RingAttended
<1>0. /\ recvQ \in Nat /\ procQ \in Nat /\ Count' = Size - space' /\ Count = Size - space
      /\ Post(recvQ) > 0 /\ Post(Post(recvQ)) > 0 /\ Post(procQ) > 0
  BY RxAssumption DEF IInv, TypeOK, Post, Count
<1>1. CASE Arrive
  BY <1>0, <1>1 DEF Arrive, ring, queues
<1>2. CASE LineQuiet
  BY <1>0, <1>2 DEF LineQuiet, ring, queues
<1>3. CASE RxInterrupt
  BY <1>0, <1>3 DEF RxInterrupt, ring
<1>4. CASE RecvTask
  BY <1>4 DEF RecvTask
<1>5. CASE RecvReenable
  BY <1>0, <1>5 DEF RecvReenable, Unmask, ring, queues
<1>6. CASE RecvPost
  BY <1>0, <1>6 DEF RecvPost, ring, irqs
<1>7. CASE ProcessTask
  BY <1>0, <1>7 DEF ProcessTask
<1>8. CASE ProcessAgain
  BY <1>0, <1>8 DEF ProcessAgain, MoreToDo, ring, irqs
<1>9. CASE TxEnableLoad
  BY <1>0, <1>9 DEF TxEnableLoad, ring, irqs, queues
<1>10. CASE TxEnableStore
  BY <1>0, <1>10 DEF TxEnableStore, ring, queues
<1>11. CASE UNCHANGED vars
  BY <1>0, <1>11 DEF vars, ring, irqs, queues
<1> QED
  BY <1>1, <1>2, <1>3, <1>4, <1>5, <1>6, <1>7, <1>8, <1>9, <1>10, <1>11
     DEF Next, RunningTask

(* No byte is left in the FIFO or in the buffer without an interrupt or an *)
(* event to come that will fetch it, although posts to a full queue are    *)
(* refused and UART_SendAsync writes the interrupt mask back.              *)
THEOREM Attended == Spec => []NothingForgotten
<1>1. Init => AttendedInv
  <2> SUFFICES ASSUME Init PROVE UnmaskOwed /\ RingAttended
    BY InitIInv DEF AttendedInv
  <2>1. rxEna = TRUE /\ pc = "idle" /\ space = Size
    BY DEF Init
  <2> QED BY <2>1, RxAssumption DEF UnmaskOwed, RingAttended, Count
<1>2. AttendedInv => NothingForgotten
  BY DEF AttendedInv, UnmaskOwed, NothingForgotten, FifoAttended
<1> QED BY <1>1, <1>2, InductiveAttended, PTL DEF Spec

-----------------------------------------------------------------------------
(* A sender keeps to its limit, and while the limit is below the size of   *)
(* the buffer what is in the FIFO always fits.                             *)
PaceInv == IInv /\ fifo + Count <= pace /\ NeverDiscards

LEMMA InductivePace == PaceInv /\ [Next]_vars => PaceInv'
<1> SUFFICES ASSUME PaceInv, [Next]_vars
             PROVE  (fifo + Count <= pace)' /\ NeverDiscards'
  BY InductiveIInv DEF PaceInv
<1> USE DEF PaceInv, NeverDiscards
<1>0. /\ fifo \in Nat /\ pace \in Nat /\ dropped \in Nat /\ Size \in Nat
      /\ space \in 1..Size /\ Count = Size - space /\ Count' = Size - space'
  BY RxAssumption DEF IInv, TypeOK, Count
<1>1. CASE Arrive
  BY <1>0, <1>1 DEF Arrive, ring
<1>2. CASE LineQuiet
  BY <1>0, <1>2 DEF LineQuiet, ring, ghosts
<1>3. CASE RxInterrupt
  BY <1>0, <1>3 DEF RxInterrupt, ring, ghosts
<1>4. CASE RecvTask
  <2>1. pace' = pace
    BY <1>4 DEF RecvTask
  <2>2. CASE Collect
    <3>1. fifo' = 0 /\ space' = space - fifo /\ dropped' = dropped
      BY <2>2 DEF Collect
    <3> QED BY <1>0, <2>1, <3>1
  <2>3. CASE Discard
    BY <1>0, <2>1, <2>3 DEF Discard, Fits, ring
  <2> QED BY <1>4, <2>2, <2>3 DEF RecvTask
<1>5. CASE RecvReenable
  BY <1>0, <1>5 DEF RecvReenable, ring, ghosts
<1>6. CASE RecvPost
  BY <1>0, <1>6 DEF RecvPost, ring, irqs, ghosts
<1>7. CASE ProcessTask
  <2>1. fifo' = fifo /\ space' = space + ReadLen /\ pace' = pace /\ dropped' = dropped
    BY <1>7 DEF ProcessTask
  <2>2. ReadLen \in 0..Count
    BY ReadLenRange DEF IInv
  <2> QED BY <1>0, <2>1, <2>2
<1>8. CASE ProcessAgain
  BY <1>0, <1>8 DEF ProcessAgain, ring, irqs, ghosts
<1>9. CASE TxEnableLoad
  BY <1>0, <1>9 DEF TxEnableLoad, ring, irqs, ghosts
<1>10. CASE TxEnableStore
  BY <1>0, <1>10 DEF TxEnableStore, ring, ghosts
<1>11. CASE UNCHANGED vars
  BY <1>0, <1>11 DEF vars, ring, irqs, ghosts
<1> QED
  BY <1>1, <1>2, <1>3, <1>4, <1>5, <1>6, <1>7, <1>8, <1>9, <1>10, <1>11
     DEF Next, RunningTask

(* A sender that keeps less in flight than the buffer holds never has a    *)
(* byte read from the FIFO and thrown away.                                *)
THEOREM PacedIsSafe == Spec => []NeverDiscards
<1>1. Init => PaceInv
  <2> SUFFICES ASSUME Init PROVE fifo + Count <= pace /\ NeverDiscards
    BY InitIInv DEF PaceInv
  <2>1. fifo = 0 /\ space = Size /\ pace \in Nat /\ dropped = 0
    BY RxAssumption DEF Init
  <2> QED BY <2>1, RxAssumption DEF NeverDiscards, Count
<1> QED BY <1>1, InductivePace, PTL DEF Spec, PaceInv

-----------------------------------------------------------------------------
(* The ring buffer implements the bounded queue.                           *)

LEMMA FunctionIsSeq ==
  ASSUME NEW S, NEW n \in Nat, NEW f \in [1..n -> S]
  PROVE  f \in Seq(S) /\ Len(f) = n
OBVIOUS

LEMMA PendingIsSeq ==
  ASSUME IInv
  PROVE  /\ Pending \in Seq(Nat) /\ Len(Pending) = Count
         /\ \A k \in 1..Count : Pending[k] = buf[Wrap(pOut + k - 1)]
<1> USE RxAssumption DEF IInv, TypeOK
<1>1. Count \in Nat /\ Count <= Size
  BY CountRange
<1>2. \A k \in 1..Count : Wrap(pOut + k - 1) \in 0..(Size - 1)
  BY <1>1 DEF Wrap
<1>3. Pending \in [1..Count -> Nat]
  BY <1>2 DEF Pending
<1>4. Pending \in Seq(Nat) /\ Len(Pending) = Count
  BY <1>1, <1>3
<1>5. \A k \in 1..Count : Pending[k] = buf[Wrap(pOut + k - 1)]
  BY DEF Pending
<1> QED BY <1>4, <1>5

LEMMA CollectPuts ==
  ASSUME IInv, IInv', Collect, UNCHANGED parsed
  PROVE  [Queue!Next]_(Queue!vars)
<1> DEFINE new == [i \in 1..fifo |-> stored + i]
<1>1. /\ fifo \in Nat /\ fifo < space /\ space \in 1..Size /\ Size \in Nat
      /\ pOut \in 0..(Size - 1) /\ stored \in Nat
      /\ Count = Size - space /\ Count \in 0..(Size - 1) /\ pIn = Wrap(pOut + Count)
  <2>1. fifo < space
    BY DEF Collect, Fits
  <2>2. Count = Size - space /\ Count \in 0..(Size - 1)
    BY CountRange DEF IInv
  <2> QED BY <2>1, <2>2, RxAssumption DEF IInv, InBehind, TypeOK
<1>2. /\ space' = space - fifo /\ stored' = stored + fifo /\ pOut' = pOut
      /\ Count' = Count + fifo
  BY <1>1 DEF Collect, Count
<1>3. new \in Seq(Nat) /\ Len(new) = fifo /\ \A i \in 1..fifo : new[i] = stored + i
  <2>1. new \in [1..fifo -> Nat]
    BY <1>1
  <2> QED BY <1>1, <2>1
<1> HIDE DEF new
<1>4. /\ Pending \in Seq(Nat) /\ Len(Pending) = Count
      /\ \A k \in 1..Count : Pending[k] = buf[Wrap(pOut + k - 1)]
  BY PendingIsSeq
<1>5. /\ Pending' \in Seq(Nat) /\ Len(Pending') = Count'
      /\ \A k \in 1..Count' : Pending'[k] = buf'[Wrap(pOut' + k - 1)]
  <2> USE DEF IInv, TypeOK
  <2>1. Count' \in Nat /\ Count' <= Size
    BY <1>1, <1>2
  <2>2. \A k \in 1..Count' : Wrap(pOut' + k - 1) \in 0..(Size - 1)
    BY <1>1, <1>2, <2>1, SMTT(30) DEF Wrap
  <2>3. Pending' \in [1..Count' -> Nat]
    BY <2>2 DEF Pending
  <2>4. Pending' \in Seq(Nat) /\ Len(Pending') = Count'
    BY <2>1, <2>3, FunctionIsSeq
  <2>5. \A k \in 1..Count' : Pending'[k] = buf'[Wrap(pOut' + k - 1)]
    BY DEF Pending
  <2> QED BY <2>4, <2>5
<1>6. ASSUME NEW k \in 1..(Count + fifo)
      PROVE  Pending'[k] = IF k <= Count THEN Pending[k] ELSE new[k - Count]
  <2> DEFINE i == Wrap(pOut + k - 1)
             j == IF i >= pIn THEN i - pIn ELSE i + Size - pIn
  <2>1. i \in 0..(Size - 1) /\ j = IF k <= Count THEN Size + k - 1 - Count ELSE k - 1 - Count
    BY <1>1 DEF Wrap
  <2>2. Pending'[k] = IF j < fifo THEN stored + j + 1 ELSE buf[i]
    BY <1>2, <1>5, <2>1 DEF Collect
  <2> HIDE DEF i, j
  <2>3. CASE k <= Count
    <3>1. ~(j < fifo) /\ k \in 1..Count
      BY <1>1, <2>1, <2>3
    <3> QED BY <1>4, <2>2, <2>3, <3>1 DEF i
  <2>4. CASE k > Count
    <3>1. j < fifo /\ stored + j + 1 = stored + (k - Count) /\ k - Count \in 1..fifo
      BY <1>1, <2>1, <2>4
    <3> QED BY <1>1, <1>3, <2>2, <2>4, <3>1
  <2> QED BY <1>1, <2>3, <2>4
<1>7. Pending' = Pending \o new
  <2>1. /\ Pending \o new \in Seq(Nat) /\ Len(Pending \o new) = Count + fifo
        /\ \A k \in 1..(Count + fifo) :
             (Pending \o new)[k] = IF k <= Count THEN Pending[k] ELSE new[k - Count]
    BY <1>3, <1>4, ConcatProperties
  <2>2. Len(Pending') = Len(Pending \o new)
    BY <1>2, <1>5, <2>1
  <2>3. \A k \in 1..Len(Pending') : Pending'[k] = (Pending \o new)[k]
    BY <1>2, <1>5, <1>6, <2>1
  <2> QED BY <1>5, <2>1, <2>2, <2>3, SeqEqual
<1>8. CASE fifo = 0
  <2>1. new = <<>>
    BY <1>3, <1>8, EmptySeq
  <2>2. Pending' = Pending
    BY <1>4, <1>7, <2>1, ConcatEmptySeq
  <2>3. stored' = stored
    BY <1>1, <1>2, <1>8
  <2> QED BY <2>2, <2>3 DEF Queue!vars
<1>9. CASE fifo > 0
  <2>1. Queue!Put(fifo)
    BY <1>1, <1>2, <1>4, <1>7 DEF Queue!Put, new
  <2>2. fifo \in 1..Size
    BY <1>1, <1>9
  <2> QED BY <2>1, <2>2 DEF Queue!Next
<1> QED BY <1>1, <1>8, <1>9

LEMMA ProcessTakes ==
  ASSUME IInv, IInv', ProcessTask
  PROVE  [Queue!Next]_(Queue!vars)
<1> DEFINE n == ReadLen
           s == [k \in 1..n |-> ByteAt(k)]
<1>1. /\ n \in 0..Count /\ Count \in 0..(Size - 1) /\ Count = Size - space
      /\ pOut \in 0..(Size - 1) /\ Size \in Nat
  BY RxAssumption, ReadLenRange, CountRange DEF IInv, TypeOK
<1>2. /\ parsed' = parsed \o s /\ space' = space + n /\ buf' = buf /\ stored' = stored
      /\ pOut' = IF pOut > pIn THEN Wrap(pOut + n) ELSE pOut + n
  BY DEF ProcessTask
<1>3. pOut' = Wrap(pOut + n) /\ \A k \in 1..n : ByteAt(k) = buf[Wrap(pOut + k - 1)]
  BY <1>1, <1>2, ShortcutIsRight
<1>4. Count' = Count - n
  BY <1>1, <1>2 DEF Count, IInv, TypeOK
<1>5. s \in Seq(Nat) /\ Len(s) = n /\ \A k \in 1..n : s[k] = ByteAt(k)
  BY <1>1, ReadIsSeq
<1> HIDE DEF n, s
<1>6. /\ Pending \in Seq(Nat) /\ Len(Pending) = Count
      /\ \A k \in 1..Count : Pending[k] = buf[Wrap(pOut + k - 1)]
  BY PendingIsSeq
<1>7. s = SubSeq(Pending, 1, n)
  <2>1. \A i \in 1..n : Pending[i] \in Nat
    BY <1>1, <1>6, ElementOfSeq
  <2>2. /\ SubSeq(Pending, 1, n) \in Seq(Nat) /\ Len(SubSeq(Pending, 1, n)) = n
        /\ \A i \in 1..n : SubSeq(Pending, 1, n)[i] = Pending[i]
    BY <1>1, <1>6, <2>1
  <2>3. ASSUME NEW i \in 1..n PROVE s[i] = SubSeq(Pending, 1, n)[i]
    <3>1. i \in 1..Count
      BY <1>1
    <3>2. s[i] = Pending[i]
      BY <1>3, <1>5, <1>6, <3>1
    <3> QED BY <2>2, <3>2
  <2>4. Len(s) = n
    BY <1>5
  <2> QED BY <1>5, <2>2, <2>3, <2>4, SeqEqual
<1>8. Pending' = SubSeq(Pending, n + 1, Count)
  <2>1. Pending' = [k \in 1..(Count - n) |-> buf[Wrap(Wrap(pOut + n) + k - 1)]]
    BY <1>2, <1>3, <1>4 DEF Pending
  <2>2. \A k \in 1..(Count - n) : Wrap(Wrap(pOut + n) + k - 1) = Wrap(pOut + (n + k) - 1)
    BY <1>1 DEF Wrap
  <2>3. \A k \in 1..(Count - n) : n + k \in 1..Count
    BY <1>1
  <2>4. Pending' = [k \in 1..(Count - n) |-> Pending[n + k]]
    BY <1>6, <2>1, <2>2, <2>3
  <2>5. \A k \in 1..(Count - n) : Pending[n + k] \in Nat
    BY <1>6, <2>3, ElementOfSeq
  <2>6. /\ Pending' \in Seq(Nat) /\ Len(Pending') = Count - n
        /\ \A k \in 1..(Count - n) : Pending'[k] = Pending[n + k]
    BY <1>1, <2>4, <2>5, SMTT(30)
  <2>7. /\ SubSeq(Pending, n + 1, Count) \in Seq(Nat)
        /\ Len(SubSeq(Pending, n + 1, Count)) = Count - n
        /\ \A k \in 1..(Count - n) : SubSeq(Pending, n + 1, Count)[k] = Pending[n + k]
    <3>1. \A k \in (n + 1)..Count : Pending[k] \in Nat
      BY <1>1, <1>6, ElementOfSeq
    <3>2. n + 1 \in Int /\ Count \in Int /\ (n + 1 <= Count => Count - (n + 1) + 1 = Count - n)
          /\ (~(n + 1 <= Count) => Count - n = 0)
          /\ \A k \in 1..(Count - n) : n + 1 + k - 1 = n + k
          /\ Count - (n + 1) + 1 = Count - n
      BY <1>1
    <3> QED BY <3>1, <3>2, SubSeqProperties
  <2> QED BY <2>6, <2>7, SeqEqual
<1>9. CASE n = 0
  <2>1. s = <<>>
    BY <1>5, <1>9, EmptySeq
  <2>2. parsed' = parsed
    BY <1>2, <2>1, ConcatEmptySeq DEF IInv, TypeOK
  <2>3. Pending' = Pending
    BY <1>1, <1>6, <1>8, <1>9, SubSeqFull
  <2> QED BY <1>2, <2>2, <2>3 DEF Queue!vars
<1>10. CASE n > 0
  <2>1. Queue!Take(n)
    BY <1>1, <1>2, <1>6, <1>7, <1>8 DEF Queue!Take
  <2>2. n \in 1..Size
    BY <1>1, <1>10
  <2> QED BY <2>1, <2>2 DEF Queue!Next
<1> QED BY <1>1, <1>9, <1>10

LEMMA StepRefines == IInv /\ IInv' /\ [Next]_vars => [Queue!Next]_(Queue!vars)
<1> SUFFICES ASSUME IInv, IInv', [Next]_vars
             PROVE  [Queue!Next]_(Queue!vars)
  OBVIOUS
<1>1. ASSUME UNCHANGED ring, UNCHANGED <<stored, parsed>>
      PROVE  UNCHANGED Queue!vars
  BY <1>1 DEF Queue!vars, Pending, Count, ring
<1>2. CASE RecvTask
  <2>1. UNCHANGED parsed
    BY <1>2 DEF RecvTask
  <2>2. CASE Collect
    BY <2>1, <2>2, CollectPuts
  <2>3. CASE Discard
    BY <1>1, <2>1, <2>3 DEF Discard
  <2> QED BY <1>2, <2>2, <2>3 DEF RecvTask
<1>3. CASE ProcessTask
  BY <1>3, ProcessTakes
<1>4. CASE Arrive \/ LineQuiet \/ RxInterrupt \/ TxEnableLoad \/ RunningTask \/ UNCHANGED vars
  BY <1>1, <1>4 DEF Arrive, LineQuiet, RxInterrupt, TxEnableLoad, RunningTask, RecvReenable,
                    RecvPost, ProcessAgain, TxEnableStore, vars, ghosts
<1> QED BY <1>2, <1>3, <1>4 DEF Next

(* The receiver's ring buffer is a bounded first-in first-out queue: what  *)
(* the parser gets is what was put in, in order, whatever the FIFO, the    *)
(* interrupts and the other tasks do meanwhile.                            *)
THEOREM IsAQueue == Spec => ImplementsQueue
<1>1. Init => Queue!Init
  <2> SUFFICES ASSUME Init PROVE Queue!Init
    OBVIOUS
  <2>1. Pending \in Seq(Nat) /\ Len(Pending) = Count
    BY InitIInv, PendingIsSeq
  <2>2. Count = 0 /\ parsed = <<>> /\ stored = 0
    BY RxAssumption DEF Init, Count
  <2>3. Pending = <<>>
    BY <2>1, <2>2, EmptySeq
  <2> QED BY <2>2, <2>3 DEF Queue!Init
<1>2. Init => IInv
  BY InitIInv
<1> QED BY <1>1, <1>2, InductiveIInv, StepRefines, PTL
        DEF Spec, ImplementsQueue, Queue!Spec
=============================================================================
