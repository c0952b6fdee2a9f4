------------------------------- MODULE UartTx -------------------------------
(***************************************************************************)
(* The asynchronous transmitter of UART0: the TX half of                   *)
(* user/uart_buffer.c and the TX-empty branch of the interrupt handler in  *)
(* user/uart_handler.c.                                                    *)
(*                                                                         *)
(* Code runs in two contexts.  Tasks and timer callbacks are cooperative:  *)
(* one UART_SendAsync, or one read-modify-write of INT_ENA by the receive  *)
(* tasks, runs at a time.  The UART interrupt preempts it between any two  *)
(* of the labels of pc and runs to completion.  The field Space is written *)
(* by both: `Space -= len` in a task is the load of Copy and the store of  *)
(* StoreSpace, with the label "store" between them.                        *)
(***************************************************************************)
EXTENDS Naturals, Sequences

CONSTANTS
  Size,       \* UART_TX_BUFFER_SIZE
  FifoLen,    \* UART_FIFO_LEN, the depth of the hardware FIFO
  Thresh,     \* the TX-empty interrupt is raised below this fill level
  Lens,       \* lengths of the messages given to UART_SendAsync
  Windows,    \* the labels of pc at which the interrupt can be taken
  MaxBytes    \* bound on the bytes accepted

Labels == {"idle", "copy", "store", "ena", "rxena"}

ASSUME TxAssumption ==
  /\ Size \in Nat \ {0}
  /\ FifoLen \in Nat \ {0}
  /\ Thresh \in 1..FifoLen
  /\ Lens \subseteq Nat
  /\ Windows \subseteq Labels
  /\ MaxBytes \in Nat

VARIABLES
  buf,          \* pUartBuff
  pIn,          \* pInPos, as an index
  pOut,         \* pOutPos, as an index
  space,        \* Space
  notifyOnly,   \* next_empty_it_only_for_notify
  txEna,        \* the TXFIFO_EMPTY bit of INT_ENA
  fifo,         \* the number of bytes in the hardware FIFO
  pc,           \* what the running task is about to do
  len,          \* bytes of the accepted message not yet accounted for
  chunk,        \* the piece of it being copied
  tmp,          \* the value of Space the task has loaded
  tmpEna,       \* the TXFIFO_EMPTY bit a receive task has loaded
  stored,       \* number of the newest byte the interrupt may send
  wire          \* the bytes given to the FIFO, in order

ring == <<buf, pIn, pOut, space>>
task == <<pc, len, chunk, tmp, tmpEna>>
vars == <<ring, notifyOnly, txEna, fifo, task, stored, wire>>

(* Mutant of Wrap: an index just past the array is kept.                   *)
WrapLate(p) == IF p > Size THEN p - Size ELSE p

(* Positions stay inside the array: an index just past it is the first.    *)
Wrap(p) == IF p >= Size THEN p - Size ELSE p

(* What the interrupt takes for the number of bytes waiting:               *)
(* UartBuffSize - Space.                                                   *)
Count == Size - space

Init ==
  /\ buf = [i \in 0..(Size - 1) |-> 0]
  /\ pIn = 0 /\ pOut = 0 /\ space = Size
  /\ notifyOnly = FALSE /\ txEna = FALSE /\ fifo = 0
  /\ pc = "idle" /\ len = 0 /\ chunk = 0 /\ tmp = 0 /\ tmpEna = FALSE
  /\ stored = 0 /\ wire = <<>>

-----------------------------------------------------------------------------
(* Task context.                                                           *)

(* Mutant of Accepts: the room left is not looked at.                      *)
AcceptsAlways(n) == n <= Size /\ n > 0

Accepts(n) == n <= space /\ n > 0

(* A message that fits is taken whole, one that does not is dropped whole; *)
(* either way the TX-empty interrupt is enabled next.                      *)
SendAsync(n) ==
  /\ pc = "idle"
  /\ stored + n <= MaxBytes
  /\ IF Accepts(n)
     THEN pc' = "copy" /\ len' = n
     ELSE pc' = "ena" /\ UNCHANGED len
  /\ UNCHANGED <<ring, notifyOnly, txEna, fifo, chunk, tmp, tmpEna, stored, wire>>

(* memcpy up to the end of the array, advance pInPos, load Space.          *)
Copy ==
  /\ pc = "copy"
  /\ LET tail == Size - pIn
         n == IF tail >= len THEN len ELSE tail
     IN  /\ buf' = [i \in 0..(Size - 1) |->
                      IF pIn <= i /\ i < pIn + n THEN stored + (i - pIn) + 1
                                                 ELSE buf[i]]
         /\ pIn' = Wrap(pIn + n)
         /\ chunk' = n
  /\ tmp' = space
  /\ pc' = "store"
  /\ UNCHANGED <<pOut, space, notifyOnly, txEna, fifo, len, tmpEna, stored, wire>>

(* Mutant of NewSpace: the piece before the fold is not subtracted.        *)
NewSpaceLastOnly == IF len = chunk THEN tmp - chunk ELSE tmp

NewSpace == tmp - chunk

(* Store Space; the rest of a message that did not fit before the end of   *)
(* the array is copied to its beginning.                                   *)
StoreSpace ==
  /\ pc = "store"
  /\ space' = NewSpace
  /\ stored' = stored + chunk
  /\ len' = len - chunk
  /\ chunk' = 0 /\ tmp' = 0
  /\ pc' = IF len = chunk THEN "ena" ELSE "copy"
  /\ UNCHANGED <<buf, pIn, pOut, notifyOnly, txEna, fifo, tmpEna, wire>>

(* Mutant of Rearm: the interrupt is not enabled again.                    *)
StayOff == txEna' = FALSE

(* SET_PERI_REG_MASK of the TX-empty bit: whatever was loaded, it is set.  *)
Rearm == txEna' = TRUE

EnableTxIrq ==
  /\ pc = "ena"
  /\ Rearm
  /\ pc' = "idle"
  /\ UNCHANGED <<ring, notifyOnly, fifo, len, chunk, tmp, tmpEna, stored, wire>>

(* uart_rx_intr_enable, called by the receive tasks, reads and writes back *)
(* the same register: it puts the TX-empty bit back as it was loaded.      *)
RxEnableLoad ==
  /\ pc = "idle"
  /\ tmpEna' = txEna
  /\ pc' = "rxena"
  /\ UNCHANGED <<ring, notifyOnly, txEna, fifo, len, chunk, tmp, stored, wire>>

RxEnableStore ==
  /\ pc = "rxena"
  /\ txEna' = tmpEna
  /\ tmpEna' = FALSE
  /\ pc' = "idle"
  /\ UNCHANGED <<ring, notifyOnly, fifo, len, chunk, tmp, stored, wire>>

-----------------------------------------------------------------------------
(* Interrupt context and hardware.                                         *)

TxIrq == txEna /\ fifo < Thresh /\ pc \in Windows

FifoRemain == FifoLen - fifo

(* UART_TxFifoEnq: n bytes from pOutPos on go to the FIFO.                 *)
TxFifoEnq(n) ==
  /\ wire' = wire \o [k \in 1..n |-> buf[Wrap(pOut + k - 1)]]
  /\ pOut' = Wrap(pOut + n)
  /\ space' = space + n
  /\ fifo' = fifo + n
  /\ UNCHANGED <<buf, pIn, task, stored>>

(* More than fits: fill the FIFO and ask for another interrupt.            *)
DispatchFill ==
  /\ TxIrq
  /\ Count > FifoRemain
  /\ TxFifoEnq(FifoRemain)
  /\ Rearm
  /\ UNCHANGED notifyOnly

(* Everything fits: ask for one more interrupt, for the notification.      *)
DispatchLast ==
  /\ TxIrq
  /\ Count <= FifoRemain
  /\ ~notifyOnly
  /\ TxFifoEnq(Count)
  /\ notifyOnly' = TRUE
  /\ Rearm

(* That interrupt: notify_empty_txbuf is called, the interrupt stays off.  *)
DispatchNotify ==
  /\ TxIrq
  /\ Count <= FifoRemain
  /\ notifyOnly
  /\ TxFifoEnq(Count)
  /\ notifyOnly' = FALSE
  /\ txEna' = FALSE

(* The shift register takes a byte out of the FIFO.                        *)
Shift ==
  /\ fifo > 0
  /\ fifo' = fifo - 1
  /\ UNCHANGED <<ring, notifyOnly, txEna, task, stored, wire>>

-----------------------------------------------------------------------------
TaskStep == Copy \/ StoreSpace \/ EnableTxIrq \/ RxEnableStore
Dispatch == DispatchFill \/ DispatchLast \/ DispatchNotify

Next ==
  \/ \E n \in Lens : SendAsync(n)
  \/ RxEnableLoad
  \/ TaskStep
  \/ Dispatch
  \/ Shift

Spec == Init /\ [][Next]_vars

(* A task that has begun runs on, an enabled interrupt is taken and the    *)
(* transmitter keeps shifting; nobody has to send.                         *)
Fairness == WF_vars(TaskStep) /\ WF_vars(Dispatch) /\ WF_vars(Shift)
FairSpec == Spec /\ Fairness

-----------------------------------------------------------------------------
(* Properties.                                                             *)

TypeOK ==
  /\ buf \in [0..(Size - 1) -> Nat]
  /\ pIn \in 0..(Size - 1)
  /\ pOut \in 0..(Size - 1)
  /\ space \in 0..Size
  /\ notifyOnly \in BOOLEAN
  /\ txEna \in BOOLEAN
  /\ fifo \in 0..FifoLen
  /\ pc \in Labels
  /\ len \in 0..Size
  /\ chunk \in 0..Size
  /\ tmp \in 0..Size
  /\ tmpEna \in BOOLEAN
  /\ stored \in Nat
  /\ wire \in Seq(Nat)

(* Bytes waiting in the buffer, or an empty notification still owed, never *)
(* strand: the TX-empty interrupt is on, or the running task is about to   *)
(* turn it on.  This survives every read-modify-write race on INT_ENA.     *)
TxArmed ==
  Count > 0 \/ notifyOnly =>
    \/ txEna /\ (pc = "rxena" => tmpEna)
    \/ pc \in {"copy", "store", "ena"}

(* However the updates of Space race, the buffer never claims more free    *)
(* room than there is: bytes waiting never exceed UartBuffSize - Space.    *)
NeverOvercommitted == stored <= Len(wire) + Count

(* Bytes reach the wire in the order they were accepted: none is lost,     *)
(* repeated or stale.                                                      *)
WireInOrder == \A i \in 1..Len(wire) : wire[i] = i

(* The ring buffer is a bounded FIFO queue: Count bytes wait from pOutPos  *)
(* on, a message is taken whole or not at all, and none is lost, repeated  *)
(* or overtaken on its way through the fold of the array.                  *)
Pending == [k \in 1..Count |-> buf[Wrap(pOut + k - 1)]]
Queue == INSTANCE ByteQueue WITH
           Capacity <- Size, queue <- Pending, out <- wire, last <- stored
ImplementsQueue == Queue!Spec
=============================================================================
