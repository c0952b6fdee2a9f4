---------------------------- MODULE TxFlowProofs ----------------------------
(***************************************************************************)
(* Safety of the UART0 transmitter for every buffer size, FIFO depth,      *)
(* threshold, set of message lengths and set of interrupt windows; and on  *)
(* top of it that of the flow control towards the browser, for every low   *)
(* water mark.                                                             *)
(***************************************************************************)
EXTENDS TxFlow, SequenceTheorems, TLAPS

(* Where the task is says how far the message has got, and the Space it    *)
(* has loaded is never more than there is: interrupts only add to Space.   *)
Progressing ==
  /\ pc = "copy" => 0 < len /\ len <= space
  /\ pc = "store" => 0 < chunk /\ chunk <= len /\ len <= tmp /\ tmp <= space

IInv == TypeOK /\ Progressing

(* Bytes taken out of the array from a position on are a sequence.         *)
LEMMA TakenIsSeq ==
  ASSUME TypeOK, NEW n \in 0..Size
  PROVE  /\ [k \in 1..n |-> buf[Wrap(pOut + k - 1)]] \in Seq(Nat)
         /\ Len([k \in 1..n |-> buf[Wrap(pOut + k - 1)]]) = n
<1> DEFINE s == [k \in 1..n |-> buf[Wrap(pOut + k - 1)]]
<1>1. \A k \in 1..n : Wrap(pOut + k - 1) \in 0..(Size - 1)
  BY TxAssumption DEF TypeOK, Wrap
<1>2. \A k \in 1..n : buf[Wrap(pOut + k - 1)] \in Nat
  BY <1>1 DEF TypeOK
<1>3. s \in [1..n -> Nat]
  BY <1>2
<1>4. n \in Nat
  BY TxAssumption
<1>5. s \in Seq(Nat) /\ Len(s) = n
  BY <1>3, <1>4
<1> QED BY <1>5

LEMMA EnqTypes ==
  ASSUME IInv, NEW n \in 0..Count, n <= FifoRemain,
         TxFifoEnq(n), txEna' \in BOOLEAN, notifyOnly' \in BOOLEAN
  PROVE  IInv'
<1> USE TxAssumption
<1>1. n \in 0..Size
  BY DEF IInv, TypeOK, Count
<1>2. wire' \in Seq(Nat)
  <2> DEFINE s == [k \in 1..n |-> buf[Wrap(pOut + k - 1)]]
  <2>1. s \in Seq(Nat)
    BY <1>1, TakenIsSeq DEF IInv
  <2>2. wire \in Seq(Nat) /\ wire' = wire \o s
    BY DEF TxFifoEnq, IInv, TypeOK
  <2> HIDE DEF s
  <2> QED BY <2>1, <2>2, ConcatProperties
<1>3. pOut' \in 0..(Size - 1) /\ space' \in 0..Size /\ fifo' \in 0..FifoLen
  BY <1>1 DEF TxFifoEnq, IInv, TypeOK, Wrap, Count, FifoRemain
<1>4. TypeOK'
  BY <1>2, <1>3 DEF TxFifoEnq, IInv, TypeOK, task
<1>5. Progressing'
  BY <1>1, <1>3 DEF TxFifoEnq, IInv, TypeOK, Progressing, task
<1> QED BY <1>4, <1>5 DEF IInv

LEMMA InductiveIInv == IInv /\ [Next]_vars => IInv'
<1> SUFFICES ASSUME IInv, [Next]_vars
             PROVE  IInv'
  OBVIOUS
<1> USE TxAssumption DEF IInv
<1>1. ASSUME NEW n \in Lens, SendAsync(n) PROVE IInv'
  BY <1>1, n \in Nat DEF SendAsync, Accepts, TypeOK, Progressing, Labels, ring
<1>2. CASE RxEnableLoad
  BY <1>2 DEF RxEnableLoad, TypeOK, Progressing, Labels, ring
<1>3. CASE Copy
  <2>1. buf' \in [0..(Size - 1) -> Nat]
    BY <1>3 DEF Copy, TypeOK
  <2>2. pIn' \in 0..(Size - 1) /\ chunk' \in 0..Size /\ 0 < chunk' /\ chunk' <= len
    BY <1>3 DEF Copy, TypeOK, TxAssumption, Wrap, Progressing
  <2> QED BY <1>3, <2>1, <2>2 DEF Copy, TypeOK, Progressing, Labels
<1>4. CASE StoreSpace
  BY <1>4 DEF StoreSpace, NewSpace, TypeOK, Progressing, Labels
<1>5. CASE EnableTxIrq
  BY <1>5 DEF EnableTxIrq, Rearm, TypeOK, Progressing, Labels, ring
<1>6. CASE RxEnableStore
  BY <1>6 DEF RxEnableStore, TypeOK, Progressing, Labels, ring
<1>7. CASE DispatchFill
  <2>1. FifoRemain \in 0..Count
    BY <1>7 DEF DispatchFill, TxIrq, FifoRemain, Count, TypeOK
  <2>2. FifoRemain <= FifoRemain
    BY DEF FifoRemain, TypeOK
  <2>3. TxFifoEnq(FifoRemain) /\ txEna' \in BOOLEAN /\ notifyOnly' \in BOOLEAN
    BY <1>7 DEF DispatchFill, Rearm, TypeOK
  <2> QED BY <2>1, <2>2, <2>3, EnqTypes
<1>8. CASE DispatchLast
  <2>1. Count \in 0..Count /\ Count <= FifoRemain
    BY <1>8 DEF DispatchLast, Count, TypeOK
  <2>2. TxFifoEnq(Count) /\ txEna' \in BOOLEAN /\ notifyOnly' \in BOOLEAN
    BY <1>8 DEF DispatchLast, Rearm
  <2> QED BY <2>1, <2>2, EnqTypes
<1>9. CASE DispatchNotify
  <2>1. Count \in 0..Count /\ Count <= FifoRemain
    BY <1>9 DEF DispatchNotify, Count, TypeOK
  <2>2. TxFifoEnq(Count) /\ txEna' \in BOOLEAN /\ notifyOnly' \in BOOLEAN
    BY <1>9 DEF DispatchNotify
  <2> QED BY <2>1, <2>2, EnqTypes
<1>10. CASE Shift
  BY <1>10 DEF Shift, TypeOK, Progressing, ring, task
<1>11. CASE UNCHANGED vars
  BY <1>11 DEF vars, TypeOK, Progressing, ring, task
<1> QED
  BY <1>1, <1>2, <1>3, <1>4, <1>5, <1>6, <1>7, <1>8, <1>9, <1>10, <1>11
     DEF Next, TaskStep, Dispatch

LEMMA InitIInv == Init => IInv
<1> SUFFICES ASSUME Init PROVE IInv
  OBVIOUS
<1>1. buf \in [0..(Size - 1) -> Nat] /\ wire \in Seq(Nat)
  BY DEF Init
<1>2. pIn = 0 /\ pOut = 0 /\ space = Size /\ fifo = 0 /\ stored = 0 /\ pc = "idle"
  BY DEF Init
<1>3. len = 0 /\ chunk = 0 /\ tmp = 0
  BY DEF Init
<1>4. notifyOnly \in BOOLEAN /\ txEna \in BOOLEAN /\ tmpEna \in BOOLEAN
  BY DEF Init
<1>5. TypeOK
  BY <1>1, <1>2, <1>3, <1>4, TxAssumption DEF TypeOK, Labels
<1> QED BY <1>2, <1>5 DEF IInv, Progressing

(* Positions, counters and the accounting of Space stay in their ranges    *)
(* whatever the interrupt preempts.                                        *)
THEOREM TypeCorrect == Spec => []TypeOK
<1>1. Init => IInv BY InitIInv
<1>2. QED
  BY <1>1, InductiveIInv, PTL DEF Spec, IInv

-----------------------------------------------------------------------------
(* A receive task that re-enables its interrupt never loads a cleared      *)
(* TX-empty bit while the register has it set.                             *)
RxLoaded == pc = "rxena" /\ txEna => tmpEna

ArmedInv == IInv /\ RxLoaded /\ TxArmed

LEMMA InductiveArmed == ArmedInv /\ [Next]_vars => ArmedInv'
<1> SUFFICES ASSUME ArmedInv, [Next]_vars, IInv'
             PROVE  RxLoaded' /\ TxArmed'
  BY InductiveIInv DEF ArmedInv
<1> USE TxAssumption DEF ArmedInv, IInv, TypeOK, RxLoaded, TxArmed, Count
<1>1. ASSUME NEW n \in Lens, SendAsync(n) PROVE RxLoaded' /\ TxArmed'
  BY <1>1 DEF SendAsync, ring
<1>2. CASE RxEnableLoad
  BY <1>2 DEF RxEnableLoad, ring
<1>3. CASE Copy
  BY <1>3 DEF Copy
<1>4. CASE StoreSpace
  BY <1>4 DEF StoreSpace
<1>5. CASE EnableTxIrq
  BY <1>5 DEF EnableTxIrq, Rearm, ring
<1>6. CASE RxEnableStore
  BY <1>6 DEF RxEnableStore, ring
<1>7. CASE DispatchFill
  BY <1>7 DEF DispatchFill, TxIrq, TxFifoEnq, Rearm, FifoRemain, task
<1>8. CASE DispatchLast
  BY <1>8 DEF DispatchLast, TxIrq, TxFifoEnq, Rearm, task
<1>9. CASE DispatchNotify
  BY <1>9 DEF DispatchNotify, TxIrq, TxFifoEnq, task
<1>10. CASE Shift
  BY <1>10 DEF Shift, ring, task
<1>11. CASE UNCHANGED vars
  BY <1>11 DEF vars, ring, task
<1> QED
  BY <1>1, <1>2, <1>3, <1>4, <1>5, <1>6, <1>7, <1>8, <1>9, <1>10, <1>11
     DEF Next, TaskStep, Dispatch

(* No byte that is waiting, and no notification that is owed, is left      *)
(* without an interrupt to come, whatever read-modify-writes of INT_ENA    *)
(* the interrupt lands in.                                                 *)
THEOREM NothingStranded == Spec => []TxArmed
<1>1. Init => ArmedInv
  <2> SUFFICES ASSUME Init PROVE RxLoaded /\ TxArmed
    BY InitIInv DEF ArmedInv
  <2>1. pc = "idle" /\ space = Size /\ notifyOnly = FALSE
    BY DEF Init
  <2> QED BY <2>1, TxAssumption DEF RxLoaded, TxArmed, Count
<1> QED BY <1>1, InductiveArmed, PTL DEF Spec, ArmedInv

-----------------------------------------------------------------------------
(* How far the task has written beyond what Space accounts for.            *)
Ahead == IF pc = "store" THEN chunk ELSE 0

(* The bytes from pOutPos on are the ones accepted and not yet sent, in    *)
(* order, and pInPos is where they end.                                    *)
RingInv ==
  /\ pc = "store" => tmp = space
  /\ stored = Len(wire) + Count
  /\ pIn = Wrap(pOut + Count + Ahead)
  /\ \A k \in 1..(Count + Ahead) : buf[Wrap(pOut + k - 1)] = Len(wire) + k

SafeInv == IInv /\ RingInv /\ WireInOrder

LEMMA EnqKeepsOrder ==
  ASSUME SafeInv, pc # "store", NEW n \in 0..Count, TxFifoEnq(n)
  PROVE  RingInv' /\ WireInOrder'
<1> USE TxAssumption DEF SafeInv, IInv, TypeOK
<1>0. Count \in 0..Size /\ Count = Size - space
  BY DEF Count
<1> DEFINE s == [k \in 1..n |-> buf[Wrap(pOut + k - 1)]]
<1>1. n \in 0..Size /\ n <= Count
  BY <1>0
<1>2. s \in Seq(Nat) /\ Len(s) = n /\ \A k \in 1..n : s[k] = buf[Wrap(pOut + k - 1)]
  BY <1>1, TakenIsSeq
<1>3. wire' = wire \o s /\ wire \in Seq(Nat)
  BY DEF TxFifoEnq
<1> HIDE DEF s
<1>4. /\ Len(wire') = Len(wire) + n
      /\ \A i \in 1..(Len(wire) + n) :
           wire'[i] = IF i <= Len(wire) THEN wire[i] ELSE s[i - Len(wire)]
  <2>1. /\ Len(wire \o s) = Len(wire) + Len(s)
        /\ \A i \in 1..(Len(wire) + Len(s)) :
             (wire \o s)[i] = IF i <= Len(wire) THEN wire[i] ELSE s[i - Len(wire)]
    BY <1>2, <1>3, ConcatProperties
  <2>2. wire' = wire \o s /\ Len(s) = n
    BY <1>2, <1>3
  <2> QED BY <2>1, <2>2
<1>5. Ahead = 0 /\ Ahead' = 0
  BY DEF Ahead, TxFifoEnq, task
<1>6. \A k \in 1..Count : buf[Wrap(pOut + k - 1)] = Len(wire) + k
  <2>1. Count + Ahead = Count
    BY <1>0, <1>5
  <2> QED BY <2>1 DEF RingInv
<1>7. Len(wire) \in Nat
  BY <1>3
<1>8. WireInOrder'
  <2> SUFFICES ASSUME NEW i \in 1..(Len(wire) + n) PROVE wire'[i] = i
    BY <1>4 DEF WireInOrder
  <2>1. CASE i <= Len(wire)
    BY <2>1, <1>4, <1>7 DEF WireInOrder
  <2>2. CASE i > Len(wire)
    <3>1. i - Len(wire) \in 1..n /\ i - Len(wire) \in 1..Count
      BY <2>2, <1>0, <1>1, <1>7
    <3>2. wire'[i] = buf[Wrap(pOut + (i - Len(wire)) - 1)]
      BY <2>2, <3>1, <1>2, <1>4, <1>7
    <3>3. buf[Wrap(pOut + (i - Len(wire)) - 1)] = Len(wire) + (i - Len(wire))
      BY <3>1, <1>6
    <3> QED BY <3>2, <3>3, <1>7
  <2> QED BY <2>1, <2>2, <1>7
<1>9. Count' = Count - n /\ buf' = buf /\ pOut' = Wrap(pOut + n) /\ pIn' = pIn
      /\ stored' = stored /\ pc' = pc
  BY <1>0, <1>1 DEF TxFifoEnq, task, Count
<1>10. \A k \in 1..(Count - n) :
         buf[Wrap(Wrap(pOut + n) + k - 1)] = Len(wire) + n + k
  <2> TAKE k \in 1..(Count - n)
  <2>1. n + k \in 1..Count
    BY <1>0, <1>1
  <2>2. Wrap(Wrap(pOut + n) + k - 1) = Wrap(pOut + (n + k) - 1)
    BY <2>1, <1>0, <1>1 DEF Wrap
  <2>3. buf[Wrap(pOut + (n + k) - 1)] = Len(wire) + (n + k)
    BY <2>1, <1>6
  <2>4. Len(wire) + (n + k) = Len(wire) + n + k
    BY <1>0, <1>1, <1>7
  <2> QED BY <2>2, <2>3, <2>4
<1>11. pIn = Wrap(Wrap(pOut + n) + (Count - n))
  BY <1>0, <1>1, <1>5 DEF RingInv, Wrap
<1>12. stored = Len(wire) + n + (Count - n)
  BY <1>0, <1>1, <1>7 DEF RingInv
<1> QED
  <2>1. stored' = Len(wire') + Count'
    BY <1>4, <1>7, <1>9, <1>12
  <2>2. pIn' = Wrap(pOut' + Count' + Ahead')
    BY <1>5, <1>9, <1>11 DEF Wrap
  <2>3. \A k \in 1..(Count' + Ahead') : buf'[Wrap(pOut' + k - 1)] = Len(wire') + k
    BY <1>4, <1>5, <1>9, <1>10
  <2>4. pc' # "store"
    BY <1>9
  <2> QED BY <2>1, <2>2, <2>3, <2>4, <1>8 DEF RingInv

(* Copy writes the next bytes behind the ones waiting and over none of     *)
(* them.                                                                   *)
LEMMA CopyKeepsOrder ==
  ASSUME SafeInv, Copy
  PROVE  RingInv' /\ WireInOrder'
<1> USE TxAssumption DEF SafeInv, IInv, TypeOK
<1> DEFINE n == chunk'
<1>0. Count \in 0..Size /\ Count = Size - space /\ Len(wire) \in Nat
  BY DEF Count
<1>1. /\ pc = "copy" /\ pc' = "store" /\ tmp' = space /\ space' = space
      /\ wire' = wire /\ pOut' = pOut /\ stored' = stored
      /\ Count' = Count /\ Ahead = 0 /\ Ahead' = n
  BY DEF Copy, Count, Ahead
<1>2. n \in 1..len /\ pIn + n <= Size /\ Count + n <= Size /\ pIn' = Wrap(pIn + n)
  BY <1>0, <1>1 DEF Copy, Progressing
<1>3. buf' = [i \in 0..(Size - 1) |->
                IF pIn <= i /\ i < pIn + n THEN stored + (i - pIn) + 1 ELSE buf[i]]
  BY DEF Copy
<1> HIDE DEF n
<1>4. pIn = Wrap(pOut + Count) /\ stored = Len(wire) + Count
  <2>1. pOut + Count + Ahead = pOut + Count
    BY <1>0, <1>1
  <2> QED BY <2>1 DEF RingInv
<1>5. pIn' = Wrap(pOut' + Count' + Ahead')
  <2>1. Wrap(Wrap(pOut + Count) + n) = Wrap(pOut + Count + n)
    BY <1>0, <1>2, <1>4 DEF Wrap
  <2> QED BY <2>1, <1>1, <1>2, <1>4
<1>6. \A k \in 1..(Count + n) : buf'[Wrap(pOut + k - 1)] = Len(wire) + k
  <2> SUFFICES ASSUME NEW k \in 1..(Count + n)
               PROVE  buf'[Wrap(pOut + k - 1)] = Len(wire) + k
    OBVIOUS
  <2>1. Wrap(pOut + k - 1) \in 0..(Size - 1)
    BY <1>0, <1>2 DEF Wrap
  <2>2. CASE k <= Count
    <3>1. ~(pIn <= Wrap(pOut + k - 1) /\ Wrap(pOut + k - 1) < pIn + n)
      BY <2>2, <1>0, <1>2, <1>4 DEF Wrap
    <3>2. Count + Ahead = Count /\ k \in 1..Count
      BY <2>2, <1>0, <1>1
    <3>3. buf[Wrap(pOut + k - 1)] = Len(wire) + k
      BY <3>2 DEF RingInv
    <3> QED BY <3>1, <3>3, <2>1, <1>3
  <2>3. CASE k > Count
    <3>1. Wrap(pOut + k - 1) = pIn + (k - Count - 1)
      BY <2>3, <1>0, <1>2, <1>4 DEF Wrap
    <3>2. pIn <= Wrap(pOut + k - 1) /\ Wrap(pOut + k - 1) < pIn + n
      BY <3>1, <2>3, <1>0, <1>2
    <3>3. buf'[Wrap(pOut + k - 1)] = stored + (Wrap(pOut + k - 1) - pIn) + 1
      BY <3>2, <2>1, <1>3
    <3>4. Wrap(pOut + k - 1) - pIn = k - Count - 1
      BY <3>1, <1>0, <1>2
    <3>5. k \in Nat /\ Count \in Nat /\ Len(wire) \in Nat
      BY <1>0, <1>2
    <3>6. stored + (k - Count - 1) + 1 = Len(wire) + k
      BY <3>5, <1>4
    <3> QED BY <3>3, <3>4, <3>6
  <2> QED BY <2>2, <2>3, <1>0, <1>2
<1> QED
  <2>1. \A k \in 1..(Count' + Ahead') : buf'[Wrap(pOut' + k - 1)] = Len(wire') + k
    BY <1>1, <1>6
  <2>2. stored' = Len(wire') + Count' /\ WireInOrder'
    BY <1>1, <1>4 DEF WireInOrder
  <2>3. pc' = "store" => tmp' = space'
    BY <1>1
  <2> QED BY <1>5, <2>1, <2>2, <2>3 DEF RingInv

(* With Space unchanged since its load, the store accounts for exactly the *)
(* bytes that were copied.                                                 *)
LEMMA StoreKeepsOrder ==
  ASSUME SafeInv, StoreSpace
  PROVE  RingInv' /\ WireInOrder'
<1> USE TxAssumption DEF SafeInv, IInv, TypeOK
<1>0. Count \in 0..Size /\ Count = Size - space /\ Len(wire) \in Nat
  BY DEF Count
<1>1. /\ pc = "store" /\ pc' # "store" /\ wire' = wire /\ pOut' = pOut
      /\ buf' = buf /\ pIn' = pIn /\ stored' = stored + chunk
  BY DEF StoreSpace
<1>2. space' = space - chunk /\ Count' = Count + chunk /\ chunk \in 0..Size
  BY <1>0, <1>1 DEF StoreSpace, NewSpace, RingInv, Count
<1>3. Ahead = chunk /\ Ahead' = 0
  BY <1>1 DEF Ahead
<1>4. Count + Ahead = Count' + Ahead' /\ pOut + Count + Ahead = pOut' + Count' + Ahead'
  BY <1>0, <1>1, <1>2, <1>3
<1>5. pIn' = Wrap(pOut' + Count' + Ahead')
  BY <1>1, <1>4 DEF RingInv
<1>6. \A k \in 1..(Count' + Ahead') : buf'[Wrap(pOut' + k - 1)] = Len(wire') + k
  BY <1>1, <1>4 DEF RingInv
<1>7. stored' = Len(wire') + Count'
  <2>1. stored = Len(wire) + Count
    BY DEF RingInv
  <2> QED BY <2>1, <1>0, <1>1, <1>2, SMTT(30)
<1> QED BY <1>1, <1>5, <1>6, <1>7 DEF RingInv, WireInOrder

LEMMA InductiveSafe ==
  "store" \notin Windows /\ SafeInv /\ [Next]_vars => SafeInv'
<1> SUFFICES ASSUME "store" \notin Windows, SafeInv, [Next]_vars
             PROVE  RingInv' /\ WireInOrder'
  BY InductiveIInv DEF SafeInv
<1>1. ASSUME ring' = ring, wire' = wire, stored' = stored, pc # "store", pc' # "store"
      PROVE  RingInv' /\ WireInOrder'
  <2>1. Ahead = 0 /\ Ahead' = 0 /\ Count' = Count
    BY <1>1 DEF Ahead, ring, Count
  <2> QED BY <1>1, <2>1 DEF SafeInv, RingInv, WireInOrder, ring
<1>2. ASSUME NEW n \in Lens, SendAsync(n) PROVE RingInv' /\ WireInOrder'
  BY <1>1, <1>2 DEF SendAsync
<1>3. CASE RxEnableLoad
  BY <1>1, <1>3 DEF RxEnableLoad
<1>4. CASE Copy
  BY <1>4, CopyKeepsOrder
<1>5. CASE StoreSpace
  BY <1>5, StoreKeepsOrder
<1>6. CASE EnableTxIrq
  BY <1>1, <1>6 DEF EnableTxIrq
<1>7. CASE RxEnableStore
  BY <1>1, <1>7 DEF RxEnableStore
<1>8. CASE Dispatch
  <2>1. pc # "store"
    BY <1>8 DEF Dispatch, DispatchFill, DispatchLast, DispatchNotify, TxIrq
  <2>2. Count \in 0..Count /\ (Count > FifoRemain => FifoRemain \in 0..Count)
    BY TxAssumption DEF SafeInv, IInv, TypeOK, Count, FifoRemain
  <2>3. PICK n \in 0..Count : TxFifoEnq(n)
    BY <1>8, <2>2 DEF Dispatch, DispatchFill, DispatchLast, DispatchNotify
  <2> QED BY <2>1, <2>3, EnqKeepsOrder
<1>9. CASE Shift
  <2>1. ring' = ring /\ wire' = wire /\ stored' = stored
        /\ pc' = pc /\ chunk' = chunk /\ tmp' = tmp
    BY <1>9 DEF Shift, task
  <2> QED BY <2>1 DEF SafeInv, RingInv, WireInOrder, ring, Count, Ahead
<1>10. CASE UNCHANGED vars
  BY <1>10 DEF vars, task, SafeInv, RingInv, WireInOrder, ring, Count, Ahead
<1> QED
  BY <1>2, <1>3, <1>4, <1>5, <1>6, <1>7, <1>8, <1>9, <1>10 DEF Next, TaskStep

LEMMA InitSafe == Init => SafeInv
<1> SUFFICES ASSUME Init PROVE RingInv /\ WireInOrder
  BY InitIInv DEF SafeInv
<1>1. /\ pc = "idle" /\ space = Size /\ pIn = 0 /\ pOut = 0 /\ stored = 0
      /\ wire = <<>>
  BY DEF Init
<1>2. Count = 0 /\ Ahead = 0 /\ Len(wire) = 0 /\ Wrap(0) = 0
  BY <1>1, TxAssumption DEF Count, Ahead, Wrap
<1> QED BY <1>1, <1>2 DEF RingInv, WireInOrder

(* When the interrupt is not taken between the load and the store of       *)
(* Space, every byte the FIFO gets is the next one accepted: none is lost, *)
(* repeated or stale, however the messages fold around the array.          *)
THEOREM InOrder ==
  ASSUME "store" \notin Windows
  PROVE  Spec => []WireInOrder
<1>1. SafeInv /\ [Next]_vars => SafeInv'
  BY InductiveSafe
<1> QED BY <1>1, InitSafe, PTL DEF Spec, SafeInv

-----------------------------------------------------------------------------
(* The race on Space only ever makes the buffer look fuller than it is:    *)
(* with the interrupt anywhere, accepting a message overwrites nothing     *)
(* that Space still accounts for.                                          *)
THEOREM NoOvercommitment == Spec => []NeverOvercommitted
<1> DEFINE Inv == IInv /\ NeverOvercommitted
<1>1. Init => Inv
  BY InitSafe DEF SafeInv, RingInv, NeverOvercommitted, IInv, TypeOK
<1>2. Inv /\ [Next]_vars => Inv'
  <2> SUFFICES ASSUME Inv, [Next]_vars, IInv'
               PROVE  NeverOvercommitted'
    BY InductiveIInv
  <2> USE TxAssumption DEF IInv, TypeOK, NeverOvercommitted, Count
  <2>1. ASSUME NEW n \in 0..Count, TxFifoEnq(n) PROVE NeverOvercommitted'
    <3> DEFINE s == [k \in 1..n |-> buf[Wrap(pOut + k - 1)]]
    <3>0. n \in 0..Size
      OBVIOUS
    <3>1. s \in Seq(Nat) /\ Len(s) = n
      BY <3>0, TakenIsSeq
    <3>2. wire' = wire \o s /\ stored' = stored /\ space' = space + n
      BY <2>1 DEF TxFifoEnq
    <3> HIDE DEF s
    <3>3. Len(wire \o s) = Len(wire) + Len(s)
      BY <3>1, ConcatProperties
    <3> QED BY <3>1, <3>2, <3>3
  <2>2. CASE Dispatch
    <3>1. Count \in 0..Count /\ (Count > FifoRemain => FifoRemain \in 0..Count)
      BY DEF FifoRemain
    <3> QED BY <2>1, <2>2, <3>1 DEF Dispatch, DispatchFill, DispatchLast, DispatchNotify
  <2>3. CASE StoreSpace
    <3>1. space' = tmp - chunk /\ stored' = stored + chunk /\ wire' = wire
      BY <2>3 DEF StoreSpace, NewSpace
    <3>2. tmp <= space
      BY <2>3 DEF StoreSpace, Progressing
    <3> QED BY <3>1, <3>2
  <2>4. ASSUME space' = space, wire' = wire, stored' = stored
        PROVE  NeverOvercommitted'
    BY <2>4
  <2> QED
    BY <2>2, <2>3, <2>4
       DEF Next, TaskStep, SendAsync, RxEnableLoad, Copy, EnableTxIrq, RxEnableStore,
           Shift, ring, vars
<1> QED BY <1>1, <1>2, PTL DEF Spec

-----------------------------------------------------------------------------
(* The transmitter's ring buffer implements the bounded queue.             *)

LEMMA FunctionIsSeq ==
  ASSUME NEW S, NEW n \in Nat, NEW f \in [1..n -> S]
  PROVE  f \in Seq(S) /\ Len(f) = n
OBVIOUS

(* What waits is what was accepted and not sent.                           *)
Waiting ==
  /\ Count \in 0..Size /\ Len(wire) \in Nat /\ wire \in Seq(Nat)
  /\ Pending \in Seq(Nat) /\ Len(Pending) = Count
  /\ \A k \in 1..Count : Pending[k] = Len(wire) + k

LEMMA PendingIs == SafeInv => Waiting
<1> SUFFICES ASSUME SafeInv PROVE Waiting
  OBVIOUS
<1>1. Count \in 0..Size /\ wire \in Seq(Nat) /\ Len(wire) \in Nat /\ Size \in Nat
  BY TxAssumption DEF SafeInv, IInv, TypeOK, Count
<1>2. \A k \in 1..Count : buf[Wrap(pOut + k - 1)] = Len(wire) + k
  <2>1. Ahead \in Nat
    BY DEF SafeInv, IInv, TypeOK, Ahead
  <2>2. \A k \in 1..Count : k \in 1..(Count + Ahead)
    BY <1>1, <2>1
  <2> QED BY <2>2 DEF SafeInv, RingInv
<1>3. \A k \in 1..Count : Pending[k] = Len(wire) + k
  BY <1>2 DEF Pending
<1>4. Pending \in [1..Count -> Nat]
  <2>1. Pending = [k \in 1..Count |-> Len(wire) + k]
    BY <1>2 DEF Pending
  <2> QED BY <1>1, <2>1
<1>5. Pending \in Seq(Nat) /\ Len(Pending) = Count
  BY <1>1, <1>4, FunctionIsSeq
<1> QED BY <1>1, <1>3, <1>5 DEF Waiting

LEMMA PendingWillBe == SafeInv' => Waiting'
BY PendingIs, PTL

(* Two queues that wait at the same place of the wire, and are as long.    *)
LEMMA SameQueue ==
  ASSUME SafeInv, SafeInv', Count' = Count, UNCHANGED <<wire, stored>>
  PROVE  UNCHANGED Queue!vars
<1>1. /\ Pending \in Seq(Nat) /\ Len(Pending) = Count
      /\ \A k \in 1..Count : Pending[k] = Len(wire) + k
  BY PendingIs DEF Waiting
<1>2. /\ Pending' \in Seq(Nat) /\ Len(Pending') = Count'
      /\ \A k \in 1..Count' : Pending'[k] = Len(wire') + k
  BY PendingWillBe DEF Waiting
<1>3. Pending' = Pending
  <2>1. Len(Pending') = Len(Pending)
    BY <1>1, <1>2
  <2>2. \A k \in 1..Len(Pending') : Pending'[k] = Pending[k]
    BY <1>1, <1>2
  <2> QED BY <1>1, <1>2, <2>1, <2>2, SeqEqual
<1> QED BY <1>3 DEF Queue!vars

(* The store of Space is where a piece of a message enters the queue.      *)
LEMMA StorePuts ==
  ASSUME SafeInv, SafeInv', StoreSpace
  PROVE  Queue!Next
<1> DEFINE new == [i \in 1..chunk |-> stored + i]
<1>1. /\ chunk \in 1..Size /\ stored \in Nat /\ Size \in Nat
      /\ stored = Len(wire) + Count /\ space' = space - chunk
  BY TxAssumption DEF StoreSpace, NewSpace, SafeInv, RingInv, IInv, TypeOK, Progressing
<1>2. stored' = stored + chunk /\ wire' = wire
  BY DEF StoreSpace
<1>3. /\ Count \in 0..Size /\ Len(wire) \in Nat
      /\ Pending \in Seq(Nat) /\ Len(Pending) = Count
      /\ \A k \in 1..Count : Pending[k] = Len(wire) + k
  BY PendingIs DEF Waiting
<1>4. /\ Count' \in 0..Size
      /\ Pending' \in Seq(Nat) /\ Len(Pending') = Count'
      /\ \A k \in 1..Count' : Pending'[k] = Len(wire) + k
  BY <1>2, PendingWillBe DEF Waiting
<1>5. Count' = Count + chunk
  BY <1>1, <1>3, TxAssumption DEF Count, SafeInv, IInv, TypeOK
<1>6. new \in Seq(Nat) /\ Len(new) = chunk
  <2>1. new \in [1..chunk -> Nat]
    BY <1>1
  <2>2. chunk \in Nat
    BY <1>1
  <2> QED BY <2>1, <2>2, FunctionIsSeq
<1>7. \A i \in 1..chunk : new[i] = stored + i
  OBVIOUS
<1> HIDE DEF new
<1>8. Pending' = Pending \o new
  <2>1. /\ Pending \o new \in Seq(Nat) /\ Len(Pending \o new) = Count + chunk
        /\ \A k \in 1..(Count + chunk) :
             (Pending \o new)[k] = IF k <= Count THEN Pending[k] ELSE new[k - Count]
    BY <1>3, <1>6, ConcatProperties
  <2>2. ASSUME NEW k \in 1..(Count + chunk) PROVE (Pending \o new)[k] = Len(wire) + k
    <3>1. CASE k <= Count
      <4>1. k \in 1..Count
        BY <1>3, <3>1
      <4> QED BY <1>3, <2>1, <3>1, <4>1
    <3>2. CASE k > Count
      <4>1. k - Count \in 1..chunk /\ stored + (k - Count) = Len(wire) + k
        BY <1>1, <1>3, <3>2
      <4>2. (Pending \o new)[k] = new[k - Count]
        BY <1>1, <1>3, <2>1, <3>2, SMTT(30)
      <4>3. new[k - Count] = stored + (k - Count)
        BY <1>7, <4>1
      <4> QED BY <4>1, <4>2, <4>3
    <3>3. k <= Count \/ k > Count
      BY <1>1, <1>3
    <3> QED BY <3>1, <3>2, <3>3
  <2>3. /\ Len(Pending') = Len(Pending \o new)
        /\ \A k \in 1..Len(Pending') : Pending'[k] = (Pending \o new)[k]
    BY <1>4, <1>5, <2>1, <2>2
  <2> QED BY <1>4, <2>1, <2>3, SeqEqual
<1>9. Queue!Put(chunk)
  BY <1>2, <1>3, <1>4, <1>5, <1>8 DEF Queue!Put, new
<1> QED BY <1>1, <1>9 DEF Queue!Next

(* What goes to the FIFO is the front of the queue.                        *)
LEMMA EnqTakes ==
  ASSUME SafeInv, SafeInv', NEW n \in 0..Count, TxFifoEnq(n)
  PROVE  [Queue!Next]_(Queue!vars)
<1> DEFINE s == [k \in 1..n |-> buf[Wrap(pOut + k - 1)]]
<1>1. /\ Count \in 0..Size /\ Len(wire) \in Nat /\ wire \in Seq(Nat)
      /\ Pending \in Seq(Nat) /\ Len(Pending) = Count
      /\ \A k \in 1..Count : Pending[k] = Len(wire) + k
  BY PendingIs DEF Waiting
<1>2. /\ Pending' \in Seq(Nat) /\ Len(Pending') = Count'
      /\ \A k \in 1..Count' : Pending'[k] = Len(wire') + k
  BY PendingWillBe DEF Waiting
<1>3. wire' = wire \o s /\ stored' = stored /\ space' = space + n
  BY DEF TxFifoEnq
<1>4. Count' = Count - n /\ n \in Nat /\ n <= Count
  BY <1>1, <1>3, TxAssumption DEF Count, SafeInv, IInv, TypeOK
<1>5. s = SubSeq(Pending, 1, n)
  <2>1. s = [k \in 1..n |-> Pending[k]]
    <3>1. \A k \in 1..n : k \in 1..Count
      BY <1>1, <1>4
    <3> QED BY <3>1 DEF Pending
  <2>2. \A k \in 1..n : Pending[k] \in Nat
    BY <1>1, <1>4
  <2>3. s \in Seq(Nat) /\ Len(s) = n /\ \A k \in 1..n : s[k] = Pending[k]
    <3>1. s \in [1..n -> Nat]
      BY <2>1, <2>2
    <3> QED BY <1>4, <2>1, <3>1, FunctionIsSeq
  <2>4. /\ SubSeq(Pending, 1, n) \in Seq(Nat) /\ Len(SubSeq(Pending, 1, n)) = n
        /\ \A k \in 1..n : SubSeq(Pending, 1, n)[k] = Pending[k]
    BY <1>1, <1>4, <2>2
  <2> HIDE DEF s
  <2> QED BY <2>3, <2>4, SeqEqual
<1> HIDE DEF s
<1>6. Len(wire') = Len(wire) + n
  <2>1. s \in Seq(Nat) /\ Len(s) = n
    <3>1. \A k \in 1..n : Pending[k] \in Nat
      BY <1>1, <1>4
    <3> QED BY <1>1, <1>4, <1>5, <3>1
  <2> QED BY <1>1, <1>3, <2>1, ConcatProperties
<1>7. Pending' = SubSeq(Pending, n + 1, Count)
  <2>1. /\ SubSeq(Pending, n + 1, Count) \in Seq(Nat)
        /\ Len(SubSeq(Pending, n + 1, Count)) = Count - n
        /\ \A k \in 1..(Count - n) : SubSeq(Pending, n + 1, Count)[k] = Pending[n + k]
    <3>1. \A k \in (n + 1)..Count : Pending[k] \in Nat
      BY <1>1, <1>4, ElementOfSeq
    <3>2. /\ n + 1 \in Int /\ Count \in Int /\ (~(n + 1 <= Count) => Count - n = 0)
          /\ \A k \in 1..(Count - n) : n + 1 + k - 1 = n + k
          /\ Count - (n + 1) + 1 = Count - n
      BY <1>1, <1>4
    <3> QED BY <3>1, <3>2, SubSeqProperties
  <2>2. ASSUME NEW k \in 1..(Count - n) PROVE Pending'[k] = Pending[n + k]
    <3>1. n + k \in 1..Count /\ Len(wire) + n + k = Len(wire) + (n + k)
      BY <1>1, <1>4
    <3> QED BY <1>1, <1>2, <1>4, <1>6, <3>1
  <2>3. /\ Len(Pending') = Len(SubSeq(Pending, n + 1, Count))
        /\ \A k \in 1..Len(Pending') : Pending'[k] = SubSeq(Pending, n + 1, Count)[k]
    BY <1>2, <1>4, <2>1, <2>2
  <2> QED BY <1>2, <2>1, <2>3, SeqEqual
<1>8. CASE n = 0
  <2>1. wire' = wire
    <3>1. s = <<>>
      BY <1>1, <1>5, <1>8, SubSeqEmpty
    <3> QED BY <1>1, <1>3, <3>1, ConcatEmptySeq
  <2>2. Count' = Count
    BY <1>1, <1>4, <1>8
  <2> QED BY <1>3, <2>1, <2>2, SameQueue
<1>9. CASE n > 0
  <2>1. Queue!Take(n)
    BY <1>1, <1>3, <1>4, <1>5, <1>7 DEF Queue!Take
  <2>2. n \in 1..Size
    BY <1>1, <1>4, <1>9, TxAssumption
  <2> QED BY <2>1, <2>2 DEF Queue!Next
<1> QED BY <1>4, <1>8, <1>9

LEMMA StepRefines ==
  SafeInv /\ SafeInv' /\ [Next]_vars => [Queue!Next]_(Queue!vars)
<1> SUFFICES ASSUME SafeInv, SafeInv', [Next]_vars
             PROVE  [Queue!Next]_(Queue!vars)
  OBVIOUS
<1>1. CASE StoreSpace
  BY <1>1, StorePuts
<1>2. CASE Dispatch
  <2>1. Count \in 0..Count /\ (Count > FifoRemain => FifoRemain \in 0..Count)
    BY TxAssumption DEF SafeInv, IInv, TypeOK, Count, FifoRemain
  <2>2. PICK n \in 0..Count : TxFifoEnq(n)
    BY <1>2, <2>1 DEF Dispatch, DispatchFill, DispatchLast, DispatchNotify
  <2> QED BY <2>2, EnqTakes
<1>3. ASSUME space' = space, wire' = wire, stored' = stored
      PROVE  UNCHANGED Queue!vars
  <2>1. Count' = Count
    BY <1>3 DEF Count
  <2> QED BY <1>3, <2>1, SameQueue
<1> QED
  BY <1>1, <1>2, <1>3
     DEF Next, TaskStep, SendAsync, RxEnableLoad, Copy, EnableTxIrq, RxEnableStore,
         Shift, ring, vars

(* When the interrupt is not taken between the load and the store of       *)
(* Space, the transmitter's ring buffer is a bounded first-in first-out    *)
(* queue: a message that is accepted enters it, in one piece or around the *)
(* fold of the array in two, and leaves it for the FIFO in order.          *)
THEOREM IsAQueue ==
  ASSUME "store" \notin Windows
  PROVE  Spec => ImplementsQueue
<1>1. Init => Queue!Init
  <2> SUFFICES ASSUME Init PROVE Queue!Init
    OBVIOUS
  <2>1. Pending \in Seq(Nat) /\ Len(Pending) = Count
    BY InitSafe, PendingIs DEF Waiting
  <2>2. Count = 0 /\ wire = <<>> /\ stored = 0
    BY TxAssumption DEF Init, Count
  <2>3. Pending = <<>>
    BY <2>1, <2>2, EmptySeq
  <2> QED BY <2>2, <2>3 DEF Queue!Init
<1>2. SafeInv /\ [Next]_vars => SafeInv'
  BY InductiveSafe
<1> QED BY <1>1, <1>2, InitSafe, StepRefines, PTL
        DEF Spec, ImplementsQueue, Queue!Spec

-----------------------------------------------------------------------------
(* Flow control.                                                           *)

(* Flow control only decides who sends when: the transmitter below it is   *)
(* the one of UartTx.                                                      *)
LEMMA FlowStepIsTxStep == [FlowNext]_allVars => [Next]_vars
<1> SUFFICES ASSUME [FlowNext]_allVars PROVE [Next]_vars
  OBVIOUS
<1>1. ASSUME NEW n \in SockLens, SockString(n) PROVE Next
  BY <1>1, FlowAssumption DEF SockString, Next
<1>2. ASSUME NEW n \in OtherLens, OtherSend(n) PROVE Next
  BY <1>2, FlowAssumption DEF OtherSend, Next
<1>3. CASE CheckSpace \/ SetWantsXon \/ XonTimer \/ Reload
  BY <1>3 DEF CheckSpace, SetWantsXon, XonTimer, Reload
<1>4. CASE RxTask \/ FlowTaskStep \/ FlowShift
  BY <1>4 DEF RxTask, FlowTaskStep, FlowShift, Next
<1>5. CASE FlowDispatch
  BY <1>5 DEF FlowDispatch, Next, Dispatch
<1>6. CASE UNCHANGED allVars
  BY <1>6 DEF allVars
<1> QED BY <1>1, <1>2, <1>3, <1>4, <1>5, <1>6 DEF FlowNext

LEMMA FlowIsTx == FlowSpec => Spec
<1>1. FlowInit => Init
  BY DEF FlowInit
<1> QED BY <1>1, FlowStepIsTxStep, PTL DEF FlowSpec, Spec

LEMMA FlowKeepsIInv == FlowSpec => []IInv
<1>1. Spec => []IInv
  BY InitIInv, InductiveIInv, PTL DEF Spec
<1> QED BY <1>1, FlowIsTx, PTL

(* Whatever flow control, timer and pages do, bytes waiting never strand.  *)
THEOREM FlowStrandsNothing == FlowSpec => []TxArmed
BY FlowIsTx, NothingStranded, PTL

(* And the room that flow control looks at is never overstated.            *)
THEOREM FlowSeesNoFalseRoom == FlowSpec => []NeverOvercommitted
BY FlowIsTx, NoOvercommitment, PTL

-----------------------------------------------------------------------------
(* What the steps of the transmitter do to what flow control looks at.     *)

LEMMA SendLeaves ==
  ASSUME NEW n, SendAsync(n)
  PROVE  UNCHANGED <<space, notifyOnly>> /\ pc = "idle" /\ pc' # "store"
BY DEF SendAsync, ring

LEMMA TaskTakesSpace ==
  ASSUME IInv, TaskStep
  PROVE  /\ notifyOnly' = notifyOnly /\ space' <= space
         /\ pc \notin {"store"} => space' = space
         /\ pc \in {"copy", "store", "ena", "rxena"}
         /\ pc = "rxena" => pc' = "idle"
<1> USE DEF IInv, TypeOK
<1>1. CASE Copy
  BY <1>1 DEF Copy
<1>2. CASE StoreSpace
  BY <1>2 DEF StoreSpace, NewSpace, Progressing
<1>3. CASE EnableTxIrq
  BY <1>3 DEF EnableTxIrq, ring
<1>4. CASE RxEnableStore
  BY <1>4 DEF RxEnableStore, ring
<1> QED BY <1>1, <1>2, <1>3, <1>4 DEF TaskStep

LEMMA FillLeavesSome ==
  ASSUME IInv, DispatchFill
  PROVE  pc' = pc /\ space' >= space /\ Count' > 0 /\ space # Size
<1>1. /\ FifoRemain \in Nat /\ space \in 0..Size /\ Size \in Nat
      /\ Count = Size - space /\ Count' = Size - space'
  BY TxAssumption DEF IInv, TypeOK, FifoRemain, Count
<1>2. Count > FifoRemain /\ space' = space + FifoRemain /\ pc' = pc
  BY DEF DispatchFill, TxFifoEnq, task
<1> QED BY <1>1, <1>2

LEMMA LastEmpties ==
  ASSUME IInv, DispatchLast \/ DispatchNotify
  PROVE  pc' = pc /\ space' >= space /\ space' = Size
<1>1. space \in 0..Size /\ Size \in Nat
  BY TxAssumption DEF IInv, TypeOK
<1>2. space' = space + (Size - space) /\ pc' = pc
  BY DEF DispatchLast, DispatchNotify, TxFifoEnq, Count, task
<1> QED BY <1>1, <1>2

(* Bytes are waiting just when the ring has less than all of its room.     *)
BytesWait == (Count > 0 <=> space < Size) /\ space \in Int

LEMMA SpaceTells == IInv => BytesWait
BY TxAssumption DEF IInv, TypeOK, Count, BytesWait

LEMMA SpaceWillTell == IInv' => BytesWait'
BY SpaceTells, PTL

-----------------------------------------------------------------------------
LEMMA XonStep ==
  SetWindow = FALSE /\ IInv /\ XonOwed /\ [FlowNext]_allVars => XonOwed'
<1> SUFFICES ASSUME SetWindow = FALSE, IInv, XonOwed, [FlowNext]_allVars
             PROVE  XonOwed'
  OBVIOUS
<1>0. /\ space \in 0..Size /\ space' \in 0..Size /\ Size \in Nat
      /\ Count = Size - space /\ Count' = Size - space'
  BY TxAssumption, FlowStepIsTxStep, InductiveIInv DEF IInv, TypeOK, Count
<1>more. /\ space \in Int /\ space' \in Int
         /\ Count > 0 <=> space < Size
         /\ Count' > 0 <=> space' < Size
  BY SpaceTells, SpaceWillTell, FlowStepIsTxStep, InductiveIInv DEF BytesWait
<1> USE DEF XonOwed
<1>1. ASSUME NEW n \in SockLens, SockString(n) PROVE XonOwed'
  BY <1>1 DEF SockString
<1>2. CASE CheckSpace
  <2>1. space' = space /\ notifyOnly' = notifyOnly
    BY <1>2 DEF CheckSpace, vars, ring
  <2>2. LowOnSpace => Count > 0
    BY <1>0, FlowAssumption DEF LowOnSpace
  <2> QED BY <1>0, <1>2, <2>1, <2>2 DEF CheckSpace
<1>3. CASE SetWantsXon
  BY <1>0, <1>3 DEF SetWantsXon, vars, ring
<1>4. ASSUME NEW n \in OtherLens, OtherSend(n) PROVE XonOwed'
  BY <1>0, <1>4, SendLeaves DEF OtherSend
<1>5. CASE RxTask
  BY <1>0, <1>5 DEF RxTask, RxEnableLoad, flow, ring
<1>6. CASE FlowTaskStep
  <2>1. notifyOnly' = notifyOnly /\ space' <= space
    BY <1>6, TaskTakesSpace DEF FlowTaskStep
  <2>2. Count > 0 => Count' > 0
    <3>1. space' <= space /\ space < Size => space' < Size
      BY <1>0
    <3> QED BY <1>more, <2>1, <3>1
  <2> QED BY <1>6, <2>1, <2>2 DEF FlowTaskStep, flow
<1>7. CASE FlowDispatch
  <2>1. sock # "set" /\ UNCHANGED <<sock, wantsXon, browser>>
    BY <1>7 DEF FlowDispatch
  <2>2. CASE DispatchFill /\ UNCHANGED xonTim
    BY <2>1, <2>2, FillLeavesSome
  <2>3. CASE DispatchLast /\ UNCHANGED xonTim
    BY <2>1, <2>3 DEF DispatchLast
  <2>4. CASE DispatchNotify /\ NotifyEmptyTxBuf
    BY <2>1, <2>4 DEF NotifyEmptyTxBuf
  <2> QED BY <1>7, <2>2, <2>3, <2>4 DEF FlowDispatch
<1>8. CASE FlowShift
  BY <1>0, <1>8 DEF FlowShift, Shift, flow, ring
<1>9. CASE XonTimer \/ Reload
  BY <1>9 DEF XonTimer, Reload
<1>10. CASE UNCHANGED allVars
  BY <1>0, <1>10 DEF allVars, vars, flow, ring
<1> QED
  BY <1>1, <1>2, <1>3, <1>4, <1>5, <1>6, <1>7, <1>8, <1>9, <1>10 DEF FlowNext

(* A browser that was told to stop is owed the word to go on, if no        *)
(* interrupt comes between telling it and setting browser_wants_xon.       *)
THEOREM StoppedIsOwed ==
  ASSUME SetWindow = FALSE
  PROVE  FlowSpec => []XonOwed
<1>1. FlowInit => XonOwed
  BY DEF FlowInit, XonOwed
<1>2. IInv /\ XonOwed /\ [FlowNext]_allVars => XonOwed'
  BY XonStep
<1> QED BY <1>1, <1>2, FlowKeepsIInv, PTL DEF FlowSpec

-----------------------------------------------------------------------------
FlowTypeOK ==
  /\ sock \in {"none", "sending", "set"}
  /\ wantsXon \in BOOLEAN /\ xonTim \in BOOLEAN
  /\ browser \in {"go", "stop"} /\ alone \in BOOLEAN

(* While only 's' messages are sent: a browser that may send finds room    *)
(* above the low water mark, the word to go on is owed to a stopped one    *)
(* only, and when the timer runs the buffer has been empty and still is.   *)
Room ==
  /\ sock # "sending" => pc \in {"idle", "rxena"}
  /\ sock = "set" => browser = "stop"
  /\ wantsXon => browser = "stop" /\ sock = "none"
  /\ xonTim => wantsXon /\ space = Size
  /\ browser = "go" /\ sock = "none" => space >= LowWater

LossInv == FlowTypeOK /\ (alone => Room) /\ NothingLost

LEMMA LossStep ==
  ASSUME \A n \in SockLens : n <= LowWater
  PROVE  IInv /\ LossInv /\ [FlowNext]_allVars => LossInv'
<1> SUFFICES ASSUME IInv, LossInv, [FlowNext]_allVars
             PROVE  LossInv'
  OBVIOUS
<1> USE DEF LossInv, FlowTypeOK, Room, NothingLost
<1>0. /\ space \in 0..Size /\ Size \in Nat /\ LowWater \in 0..Size
      /\ space' \in 0..Size
  BY TxAssumption, FlowAssumption, FlowStepIsTxStep, InductiveIInv DEF IInv, TypeOK
<1>1. ASSUME NEW n \in SockLens, SockString(n) PROVE LossInv'
  <2>1. n \in Nat /\ n <= LowWater
    BY TxAssumption, FlowAssumption
  <2>2. alone => ~(n > space)
    BY <1>0, <1>1, <2>1 DEF SockString
  <2> QED BY <1>1, <2>2, SendLeaves DEF SockString
<1>2. CASE CheckSpace
  <2>1. space' = space /\ pc' = pc /\ pc = "idle"
    BY <1>2 DEF CheckSpace, vars, ring, task
  <2> QED BY <1>0, <1>2, <2>1 DEF CheckSpace, LowOnSpace
<1>3. CASE SetWantsXon
  BY <1>3 DEF SetWantsXon, vars, ring, task
<1>4. ASSUME NEW n \in OtherLens, OtherSend(n) PROVE LossInv'
  BY <1>4 DEF OtherSend
<1>5. CASE RxTask
  BY <1>5 DEF RxTask, RxEnableLoad, flow, ring
<1>6. CASE FlowTaskStep
  BY <1>6, TaskTakesSpace DEF FlowTaskStep, flow
<1>7. CASE FlowDispatch
  <2>1. Dispatch /\ UNCHANGED <<sock, wantsXon, browser, alone, lost>>
    BY <1>7 DEF FlowDispatch, Dispatch
  <2>2. pc' = pc /\ space' >= space /\ (DispatchNotify => space' = Size)
        /\ (space = Size => space' = Size)
    BY <2>1, FillLeavesSome, LastEmpties DEF Dispatch
  <2>4. CASE DispatchNotify /\ NotifyEmptyTxBuf
    BY <1>0, <2>1, <2>2, <2>4 DEF NotifyEmptyTxBuf
  <2>5. CASE UNCHANGED xonTim
    BY <1>0, <2>1, <2>2, <2>5
  <2> QED BY <1>7, <2>4, <2>5 DEF FlowDispatch
<1>8. CASE FlowShift
  BY <1>8 DEF FlowShift, Shift, flow, ring, task
<1>9. CASE XonTimer
  <2>1. /\ space' = space /\ pc' = pc /\ UNCHANGED <<sock, alone, lost>>
        /\ xonTim /\ sock = "none" /\ pc = "idle"
        /\ browser' = "go" /\ wantsXon' = FALSE /\ xonTim' = FALSE
    BY <1>9 DEF XonTimer, vars, ring, task
  <2>2. alone => space >= LowWater
    BY <1>0, <2>1
  <2> QED BY <2>1, <2>2
<1>10. CASE Reload
  BY <1>10 DEF Reload
<1>11. CASE UNCHANGED allVars
  BY <1>11 DEF allVars, vars, flow, ring, task
<1> QED
  BY <1>1, <1>2, <1>3, <1>4, <1>5, <1>6, <1>7, <1>8, <1>9, <1>10, <1>11 DEF FlowNext

(* While 's' messages are the only traffic and none is longer than the low *)
(* water mark, flow control lets none be dropped, wherever interrupts and  *)
(* timers come.                                                            *)
THEOREM AloneLosesNothing ==
  ASSUME \A n \in SockLens : n <= LowWater
  PROVE  FlowSpec => []NothingLost
<1>1. FlowInit => LossInv
  <2> SUFFICES ASSUME FlowInit PROVE LossInv
    OBVIOUS
  <2>1. /\ sock = "none" /\ wantsXon = FALSE /\ xonTim = FALSE
        /\ browser = "go" /\ alone = TRUE /\ lost = FALSE
        /\ pc = "idle" /\ space = Size
    BY DEF FlowInit, Init
  <2>2. Room
    BY <2>1, TxAssumption, FlowAssumption DEF Room
  <2> QED BY <2>1, <2>2 DEF LossInv, FlowTypeOK, NothingLost
<1>2. IInv /\ LossInv /\ [FlowNext]_allVars => LossInv'
  BY LossStep
<1>3. LossInv => NothingLost
  BY DEF LossInv
<1> QED BY <1>1, <1>2, <1>3, FlowKeepsIInv, PTL DEF FlowSpec
=============================================================================
