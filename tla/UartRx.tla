------------------------------- MODULE UartRx -------------------------------
(***************************************************************************)
(* The asynchronous receiver of UART0: the RX branches of the interrupt    *)
(* handler and the two receive tasks of user/uart_handler.c, and the RX    *)
(* half of user/uart_buffer.c.                                             *)
(*                                                                         *)
(* The interrupt masks itself and posts to uart_recvTask; that task moves  *)
(* the FIFO into the ring buffer, unmasks the interrupt and posts to       *)
(* uart_processTask, which feeds the parser a chunk at a time and posts to *)
(* itself while bytes are left.  A pending interrupt is served before any  *)
(* task goes on, and uart_recvTask, which has the higher priority, is      *)
(* dispatched before uart_processTask.  Bytes are numbered as they enter   *)
(* the ring buffer.                                                        *)
(***************************************************************************)
EXTENDS Naturals, Sequences

CONSTANTS
  Size,       \* UART_RX_BUFFER_SIZE
  FifoLen,    \* UART_FIFO_LEN
  FullThres,  \* RX_FIFO_FULL_THRES
  Chunk,      \* PROCESS_CHUNK_LEN
  QueueLen,   \* uart_recvTaskQueueLen, uart_processTaskQueueLen
  MaxBytes,   \* bound on the bytes that arrive
  Paces       \* how many bytes a sender may have on this side of the parser

ASSUME RxAssumption ==
  /\ Size \in Nat \ {0}
  /\ FifoLen \in Nat \ {0}
  /\ FullThres \in 1..FifoLen
  /\ Chunk \in Nat \ {0}
  /\ QueueLen \in Nat \ {0}
  /\ MaxBytes \in Nat
  /\ Paces \subseteq Nat

VARIABLES
  fifo,     \* the number of bytes in the hardware FIFO
  tout,     \* the raw RXFIFO_TOUT interrupt bit
  rxEna,    \* the RXFIFO_FULL and RXFIFO_TOUT bits of INT_ENA
  recvQ,    \* events queued for uart_recvTask
  procQ,    \* events queued for uart_processTask
  pc,       \* what the running task is about to do
  tmpEna,   \* the RX bits loaded by a read-modify-write of INT_ENA
  buf, pIn, pOut, space,   \* struct UartBuffer
  stored,   \* number of the newest byte in the ring buffer
  parsed,   \* the bytes given to the parser, in order
  pace,     \* the sender's limit
  arrived,  \* how many bytes the line has delivered
  overrun,  \* how many of them found the FIFO full
  dropped   \* how many of them UART_RxFifoCollect threw away

ring == <<buf, pIn, pOut, space>>
irqs == <<fifo, tout, rxEna>>
queues == <<recvQ, procQ>>
ghosts == <<stored, parsed, arrived, overrun, dropped>>
vars == <<irqs, queues, pc, tmpEna, ring, ghosts, pace>>

(* Mutant of Wrap: an index just past the array is kept.                   *)
WrapLate(p) == IF p > Size THEN p - Size ELSE p

Wrap(p) == IF p >= Size THEN p - Size ELSE p
Count == Size - space                  \* UART_AsyncRxCount
Post(q) == IF q < QueueLen THEN q + 1 ELSE q   \* system_os_post

Init ==
  /\ fifo = 0 /\ tout = FALSE /\ rxEna = TRUE
  /\ recvQ = 0 /\ procQ = 0 /\ pc = "idle" /\ tmpEna = FALSE
  /\ buf = [i \in 0..(Size - 1) |-> 0]
  /\ pIn = 0 /\ pOut = 0 /\ space = Size
  /\ pace \in Paces
  /\ stored = 0 /\ parsed = <<>> /\ arrived = 0 /\ overrun = 0 /\ dropped = 0

-----------------------------------------------------------------------------
(* Hardware.                                                               *)

(* A byte arrives; with the FIFO full it is lost.                          *)
Arrive ==
  /\ arrived < MaxBytes
  /\ fifo + Count < pace
  /\ arrived' = arrived + 1
  /\ IF fifo < FifoLen
     THEN fifo' = fifo + 1 /\ UNCHANGED overrun
     ELSE overrun' = overrun + 1 /\ UNCHANGED fifo
  /\ UNCHANGED <<tout, rxEna, queues, pc, tmpEna, ring, stored, parsed, dropped, pace>>

(* The line has been quiet while bytes sit in the FIFO.                    *)
LineQuiet ==
  /\ fifo > 0 /\ ~tout
  /\ tout' = TRUE
  /\ UNCHANGED <<fifo, rxEna, queues, pc, tmpEna, ring, ghosts, pace>>

RxIrq == rxEna /\ (fifo >= FullThres \/ tout)

(* uart0_rx_intr_handler: each of the two causes masks the interrupt and   *)
(* posts to uart_recvTask.                                                 *)
RxInterrupt ==
  /\ RxIrq
  /\ rxEna' = FALSE
  /\ tout' = FALSE
  /\ recvQ' = IF fifo >= FullThres /\ tout THEN Post(Post(recvQ)) ELSE Post(recvQ)
  /\ UNCHANGED <<fifo, procQ, pc, tmpEna, ring, ghosts, pace>>

-----------------------------------------------------------------------------
(* uart_recvTask.                                                          *)

(* Mutants of Fits: the ring buffer may fill up; two bytes stay free.      *)
FitsFull == fifo <= space
FitsEarly == fifo + 1 < space

Fits == fifo < space

(* UART_RxFifoCollect when the FIFO's bytes fit, one byte of Space always  *)
(* staying free.                                                           *)
Collect ==
  /\ Fits
  /\ buf' = [i \in 0..(Size - 1) |->
               LET k == IF i >= pIn THEN i - pIn ELSE i + Size - pIn
               IN  IF k < fifo THEN stored + k + 1 ELSE buf[i]]
  /\ pIn' = Wrap(pIn + fifo)
  /\ space' = space - fifo
  /\ stored' = stored + fifo
  /\ fifo' = 0
  /\ UNCHANGED <<pOut, dropped>>

(* When they do not, Space - 1 of them are read and thrown away.           *)
Discard ==
  /\ ~Fits
  /\ fifo' = fifo - (space - 1)
  /\ dropped' = dropped + (space - 1)
  /\ UNCHANGED <<ring, stored>>

RecvTask ==
  /\ ~RxIrq
  /\ pc = "idle" /\ recvQ > 0
  /\ recvQ' = recvQ - 1
  /\ Collect \/ Discard
  /\ pc' = "reenable"
  /\ UNCHANGED <<tout, rxEna, procQ, tmpEna, parsed, arrived, overrun, pace>>

(* Mutant of Unmask: only when a full FIFO would fit.                      *)
UnmaskIfRoom == rxEna' = (space >= FifoLen)

Unmask == rxEna' = TRUE

(* Clear the interrupt flags, unmask.                                      *)
RecvReenable ==
  /\ ~RxIrq
  /\ pc = "reenable"
  /\ tout' = FALSE
  /\ Unmask
  /\ pc' = "post"
  /\ UNCHANGED <<fifo, queues, tmpEna, ring, ghosts, pace>>

RecvPost ==
  /\ ~RxIrq
  /\ pc = "post"
  /\ procQ' = Post(procQ)
  /\ pc' = "idle"
  /\ UNCHANGED <<irqs, recvQ, tmpEna, ring, ghosts, pace>>

-----------------------------------------------------------------------------
(* uart_processTask.                                                       *)

(* The k-th byte from pOutPos on, as UART_ReadAsync finds it: it looks     *)
(* past the end of the array only when pOutPos is beyond pInPos.           *)
ByteAt(k) ==
  IF pOut > pIn THEN buf[Wrap(pOut + k - 1)]
  ELSE IF pOut + k <= Size THEN buf[pOut + k - 1] ELSE 0

(* Mutant of ReadLen: what the buffer holds is not looked at.              *)
ReadLenChunk == Chunk

ReadLen == IF Chunk > Count THEN Count ELSE Chunk

(* UART_ReadAsync of a chunk, then UART_HandleRxByte of each byte; the     *)
(* receive interrupt is unmasked when a full FIFO would fit.               *)
ProcessTask ==
  /\ ~RxIrq
  /\ pc = "idle" /\ recvQ = 0 /\ procQ > 0
  /\ procQ' = procQ - 1
  /\ LET n == ReadLen
     IN  /\ parsed' = parsed \o [k \in 1..n |-> ByteAt(k)]
         /\ pOut' = IF pOut > pIn THEN Wrap(pOut + n) ELSE pOut + n
         /\ space' = space + n
  /\ rxEna' = (rxEna \/ space' >= FifoLen)
  /\ pc' = "again"
  /\ UNCHANGED <<fifo, tout, recvQ, tmpEna, buf, pIn, stored, arrived, overrun, dropped, pace>>

(* Mutant of MoreToDo: a short rest is left for later.                     *)
MoreThanAChunk == Count > Chunk

MoreToDo == Count > 0

(* Bytes are left: ask for another run.                                    *)
ProcessAgain ==
  /\ ~RxIrq
  /\ pc = "again"
  /\ procQ' = IF MoreToDo THEN Post(procQ) ELSE procQ
  /\ pc' = "idle"
  /\ UNCHANGED <<irqs, recvQ, tmpEna, ring, ghosts, pace>>

-----------------------------------------------------------------------------
(* UART_SendAsync, run by any other task, reads INT_ENA and writes it back *)
(* to enable the TX interrupt: an RX bit masked in between is unmasked.    *)
TxEnableLoad ==
  /\ ~RxIrq
  /\ pc = "idle"
  /\ tmpEna' = rxEna
  /\ pc' = "txena"
  /\ UNCHANGED <<irqs, queues, ring, ghosts, pace>>

TxEnableStore ==
  /\ ~RxIrq
  /\ pc = "txena"
  /\ rxEna' = tmpEna
  /\ tmpEna' = FALSE
  /\ pc' = "idle"
  /\ UNCHANGED <<fifo, tout, queues, ring, ghosts, pace>>

-----------------------------------------------------------------------------
RunningTask == RecvReenable \/ RecvPost \/ ProcessAgain \/ TxEnableStore

Next ==
  \/ Arrive
  \/ LineQuiet
  \/ RxInterrupt
  \/ RecvTask
  \/ ProcessTask
  \/ TxEnableLoad
  \/ RunningTask

Spec == Init /\ [][Next]_vars

(* Interrupts are served, a running task runs on, and the scheduler        *)
(* dispatches a queued task whose turn comes again and again.              *)
Fairness ==
  /\ WF_vars(LineQuiet)
  /\ WF_vars(RxInterrupt)
  /\ WF_vars(RunningTask)
  /\ SF_vars(RecvTask)
  /\ SF_vars(ProcessTask)
FairSpec == Spec /\ Fairness

-----------------------------------------------------------------------------
(* Properties.                                                             *)

(* Type correctness.  One byte of Space is always kept: equal positions    *)
(* mean an empty buffer, which is what UART_ReadAsync takes them for.      *)
TypeOK ==
  /\ fifo \in 0..FifoLen
  /\ tout \in BOOLEAN /\ rxEna \in BOOLEAN /\ tmpEna \in BOOLEAN
  /\ recvQ \in 0..QueueLen /\ procQ \in 0..QueueLen
  /\ pc \in {"idle", "reenable", "post", "again", "txena"}
  /\ buf \in [0..(Size - 1) -> Nat]
  /\ pIn \in 0..(Size - 1) /\ pOut \in 0..(Size - 1)
  /\ space \in 1..Size /\ (pIn = pOut <=> Count = 0)
  /\ stored \in Nat /\ parsed \in Seq(Nat)
  /\ pace \in Paces
  /\ arrived \in Nat /\ overrun \in Nat /\ dropped \in Nat

(* Bytes in the buffer are never forgotten: an event that will process     *)
(* them is queued, or the running task is about to queue one, even when    *)
(* posts are refused by a full queue.                                      *)
RingAttended == Count > 0 => procQ > 0 \/ pc \in {"reenable", "post", "again"}

(* Bytes in the FIFO are never forgotten: the interrupt is unmasked, or an *)
(* event that will unmask it is queued.                                    *)
FifoAttended == fifo > 0 => rxEna \/ recvQ > 0 \/ pc = "reenable"

(* Neither is, whatever the other has come to.                             *)
NothingForgotten == RingAttended /\ FifoAttended

(* A sender that keeps less in flight than the ring buffer holds never has *)
(* a byte thrown away by UART_RxFifoCollect.                               *)
NeverDiscards == pace < Size => dropped = 0

(* And when its line falls silent, everything received gets parsed.        *)
AllParsed == pace < Size ~> [](fifo = 0 /\ Count = 0)

(* The ring buffer implements the bounded queue.                           *)
Pending == [k \in 1..Count |-> buf[Wrap(pOut + k - 1)]]
Queue == INSTANCE ByteQueue WITH
           Capacity <- Size, queue <- Pending, out <- parsed, last <- stored
ImplementsQueue == Queue!Spec
=============================================================================
