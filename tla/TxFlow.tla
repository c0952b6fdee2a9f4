------------------------------- MODULE TxFlow -------------------------------
(***************************************************************************)
(* Flow control between the browser and UART0: user/cgi_sockets.c on top   *)
(* of the transmitter UartTx.  An 's' message of the websocket is given to *)
(* UART_SendAsync; when that leaves little room the browser is told to     *)
(* stop, and the interrupt that finds the buffer empty starts a timer that *)
(* tells it to go on.                                                      *)
(*                                                                         *)
(* The browser's own code is not in the repository's sources: it sends no  *)
(* 's' message between "-" and "+".                                        *)
(***************************************************************************)
EXTENDS UartTx

CONSTANTS
  SockLens,    \* lengths of the strings of 's' messages
  OtherLens,   \* lengths of everything else that is sent
  LowWater,    \* 256: less space than this stops the browser
  SetWindow,   \* can the interrupt be taken between "-" and the flag's set?
  Reloads      \* can the page be loaded again while it is stopped?

ASSUME FlowAssumption ==
  /\ SockLens \subseteq Lens /\ OtherLens \subseteq Lens
  /\ LowWater \in 0..Size
  /\ SetWindow \in BOOLEAN
  /\ Reloads \in BOOLEAN

VARIABLES
  sock,       \* where updateSockRx is: outside, in SendAsync, or after "-"
  wantsXon,   \* browser_wants_xon
  xonTim,     \* is xonTim armed?
  browser,    \* what the browser was last told
  alone,      \* only 's' messages and no reload so far
  lost        \* was a string of an 's' message dropped while alone?

flow == <<sock, wantsXon, xonTim, browser, alone, lost>>
allVars == <<vars, flow>>

FlowInit ==
  /\ Init
  /\ sock = "none" /\ wantsXon = FALSE /\ xonTim = FALSE
  /\ browser = "go" /\ alone = TRUE /\ lost = FALSE

(* updateSockRx, case 's': the string goes to UART_SendAsync.              *)
SockString(n) ==
  /\ sock = "none" /\ browser = "go"
  /\ SendAsync(n)
  /\ sock' = "sending"
  /\ lost' = (lost \/ (alone /\ n > space))
  /\ UNCHANGED <<wantsXon, xonTim, browser, alone>>

(* Mutant of LowOnSpace: the mark is one byte too low.                     *)
LowOnSpaceLate == space + 1 < LowWater /\ ~wantsXon

LowOnSpace == space < LowWater /\ ~wantsXon

(* Then, little room left and no answer owed yet: broadcast "-".           *)
CheckSpace ==
  /\ sock = "sending" /\ pc = "idle"
  /\ IF LowOnSpace
     THEN browser' = "stop" /\ sock' = "set"
     ELSE sock' = "none" /\ UNCHANGED browser
  /\ UNCHANGED <<vars, wantsXon, xonTim, alone, lost>>

SetWantsXon ==
  /\ sock = "set"
  /\ wantsXon' = TRUE
  /\ sock' = "none"
  /\ UNCHANGED <<vars, xonTim, browser, alone, lost>>

(* Every other caller of UART_SendAsync (mouse reports, buttons, answers   *)
(* of the terminal) ignores the browser's flow control.                    *)
OtherSend(n) ==
  /\ sock = "none"
  /\ SendAsync(n)
  /\ alone' = FALSE
  /\ UNCHANGED <<sock, wantsXon, xonTim, browser, lost>>
RxTask == sock = "none" /\ RxEnableLoad /\ UNCHANGED flow
FlowTaskStep == TaskStep /\ UNCHANGED flow

(* Mutant of NotifyEmptyTxBuf: no timer is started for a stopped browser.  *)
NotifyForgotten == UNCHANGED xonTim

(* notify_empty_txbuf, called by the interrupt.                            *)
NotifyEmptyTxBuf == xonTim' = (xonTim \/ wantsXon)

FlowDispatch ==
  /\ sock = "set" => SetWindow
  /\ \/ (DispatchFill \/ DispatchLast) /\ UNCHANGED xonTim
     \/ DispatchNotify /\ NotifyEmptyTxBuf
  /\ UNCHANGED <<sock, wantsXon, browser, alone, lost>>

FlowShift == Shift /\ UNCHANGED flow

(* notify_empty_txbuf_cb: broadcast "+".                                   *)
XonTimer ==
  /\ xonTim /\ sock = "none" /\ pc = "idle"
  /\ browser' = "go"
  /\ wantsXon' = FALSE
  /\ xonTim' = FALSE
  /\ UNCHANGED <<vars, sock, alone, lost>>

(* The page is closed and opened again: closeSockCb and updateSockConnect  *)
(* leave browser_wants_xon alone, and the new page does not know of it.    *)
Reload ==
  /\ Reloads
  /\ sock = "none" /\ pc = "idle" /\ browser = "stop"
  /\ browser' = "go"
  /\ alone' = FALSE
  /\ UNCHANGED <<vars, sock, wantsXon, xonTim, lost>>

FlowNext ==
  \/ \E n \in SockLens : SockString(n)
  \/ CheckSpace
  \/ SetWantsXon
  \/ \E n \in OtherLens : OtherSend(n)
  \/ RxTask
  \/ FlowTaskStep
  \/ FlowDispatch
  \/ FlowShift
  \/ XonTimer
  \/ Reload

FlowSpec == FlowInit /\ [][FlowNext]_allVars

(* The SDK runs timers before tasks: an armed timer is not starved by      *)
(* tasks that keep being started.                                          *)
FlowFairSpec ==
  /\ FlowSpec
  /\ WF_allVars(FlowTaskStep \/ CheckSpace \/ SetWantsXon)
  /\ WF_allVars(FlowDispatch)
  /\ WF_allVars(FlowShift)
  /\ SF_allVars(XonTimer)

-----------------------------------------------------------------------------
(* Properties.                                                             *)

(* While the browser is stopped, something is left that will make it go:   *)
(* the flag is set, and bytes are still waiting, or the interrupt that     *)
(* notices the empty buffer is still owed, or the timer is running.        *)
XonOwed ==
  browser = "stop" =>
    \/ sock = "set" /\ Count > 0
    \/ wantsXon /\ (xonTim \/ Count > 0 \/ notifyOnly)

(* A browser that was stopped is eventually told to go on.                 *)
Resumes == browser = "stop" ~> browser = "go"

(* As long as 's' messages are the only traffic, the page is not reloaded  *)
(* and no string is longer than the low water mark, the flow control never *)
(* lets one be dropped.                                                    *)
NothingLost == ~lost
=============================================================================
