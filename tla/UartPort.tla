------------------------------ MODULE UartPort ------------------------------
(***************************************************************************)
(* One UART port shared by the FreeRTOS tasks and its interrupt:           *)
(* Uart6_SendMsg (uart6.c) and fputc (trace.c) on top of                   *)
(* HAL_UART_Transmit_IT, the transmit interrupts, and the re-arming of     *)
(* reception, which needs the HAL lock that a transmitter may hold.        *)
(*                                                                         *)
(* The senders are not serialised: the mutex around them is commented out  *)
(* in tcp_task.c.  A task that is not "idle" is ready and runs only while  *)
(* no task of higher priority is; "hung" is the endless loop of            *)
(* ERR_HANDLER_ASSERT, which keeps its task ready for ever.                *)
(***************************************************************************)
EXTENDS Integers, Sequences

CONSTANTS
  Tasks,
  Prio,          \* priority of each task, a function
  MsgLen,        \* bytes of a message (fputc: 1)
  MaxSends,      \* bound: messages each task sends
  AssertOnBusy   \* TRUE: UartN_SendMsg, FALSE: fputc ignores the HAL status

ASSUME PrioAssumption == Prio \in [Tasks -> Nat]
ASSUME MsgAssumption  == MsgLen \in Nat \ {0} /\ MaxSends \in Nat
ASSUME BusyAssumption == AssertOnBusy \in BOOLEAN

VARIABLES
  pc,        \* place of each task in SendMsg
  sent,      \* messages each task began to send
  txReady,   \* UartNTxReady == SET
  halLock,   \* Lock == HAL_LOCKED
  gState,    \* HAL's transmit state
  owner,     \* the task whose buffer pTxBuffPtr points to
  left,      \* TxXferCount
  irq,       \* enabled transmit interrupt: "txe", "tc" or none ("off")
  rxArmed,   \* RxState == HAL_UART_STATE_BUSY_RX
  wire,      \* history: <<task, index>> of the bytes sent
  overlapped \* history: a task called while another was in its call

hal  == <<halLock, gState, owner, left, irq>>
vars == <<pc, sent, txReady, hal, rxArmed, wire, overlapped>>

Places == {"idle", "spin", "check", "lock", "start", "enable", "wait", "hung"}

TypeOK ==
  /\ pc \in [Tasks -> Places]
  /\ sent \in [Tasks -> 0 .. MaxSends]
  /\ txReady \in BOOLEAN /\ halLock \in BOOLEAN /\ rxArmed \in BOOLEAN
  /\ gState \in {"READY", "BUSY_TX"} /\ irq \in {"off", "txe", "tc"}
  /\ owner \in Tasks /\ left \in Int
  /\ wire \in Seq(Tasks \X Int)
  /\ overlapped \in BOOLEAN

Init ==
  /\ pc = [t \in Tasks |-> "idle"] /\ sent = [t \in Tasks |-> 0]
  /\ txReady = FALSE /\ halLock = FALSE /\ gState = "READY"
  /\ owner \in Tasks /\ left = 0 /\ irq = "off" /\ rxArmed = TRUE
  /\ wire = <<>> /\ overlapped = FALSE

Runs(t) == \A s \in Tasks : Prio[s] > Prio[t] => pc[s] = "idle"

At(t, place) == pc[t] = place /\ Runs(t)
Goto(t, place) == pc' = [pc EXCEPT ![t] = place]

\* The task leaves vTaskDelay and calls SendMsg or printf.
Call(t) ==
  /\ At(t, "idle") /\ sent[t] < MaxSends
  /\ sent' = [sent EXCEPT ![t] = @ + 1]
  /\ overlapped' = (overlapped \/ \E s \in Tasks : pc[s] # "idle")
  /\ Goto(t, "spin")
  /\ UNCHANGED <<txReady, hal, rxArmed, wire>>

\* while (UartNTxReady == SET)
Spin(t) ==
  /\ At(t, "spin") /\ ~txReady
  /\ Goto(t, "check")
  /\ UNCHANGED <<sent, txReady, hal, rxArmed, wire, overlapped>>

\* HAL_BUSY: SendMsg asserts, fputc waits all the same
Busy(t) ==
  /\ Goto(t, IF AssertOnBusy THEN "hung" ELSE "wait")
  /\ UNCHANGED <<sent, txReady, hal, rxArmed, wire, overlapped>>

CheckState_Blind(t) ==
  /\ At(t, "check")
  /\ Goto(t, "lock")
  /\ UNCHANGED <<sent, txReady, hal, rxArmed, wire, overlapped>>

\* if(huart->gState == HAL_UART_STATE_READY)
CheckState(t) ==
  /\ At(t, "check")
  /\ \/ /\ gState = "READY"
        /\ Goto(t, "lock")
        /\ UNCHANGED <<sent, txReady, hal, rxArmed, wire, overlapped>>
     \/ gState # "READY" /\ Busy(t)

\* __HAL_LOCK: a test and a store
TakeLock(t) ==
  /\ At(t, "lock")
  /\ \/ /\ ~halLock
        /\ halLock' = TRUE
        /\ Goto(t, "start")
        /\ UNCHANGED <<sent, txReady, gState, owner, left, irq, rxArmed,
                       wire, overlapped>>
     \/ halLock /\ Busy(t)

SetUp_NoUnlock == gState' = "BUSY_TX" /\ UNCHANGED halLock
SetUp_Busy == gState' = "BUSY" /\ halLock' = FALSE
SetUp == gState' = "BUSY_TX" /\ halLock' = FALSE

\* The transfer is set up and __HAL_UNLOCK
StartTransfer(t) ==
  /\ At(t, "start")
  /\ owner' = t /\ left' = MsgLen /\ SetUp
  /\ Goto(t, "enable")
  /\ UNCHANGED <<sent, txReady, irq, rxArmed, wire, overlapped>>

\* SET_BIT(CR1, USART_CR1_TXEIE)
EnableTXE(t) ==
  /\ At(t, "enable")
  /\ irq' = "txe"
  /\ Goto(t, "wait")
  /\ UNCHANGED <<sent, txReady, halLock, gState, owner, left, rxArmed, wire,
                 overlapped>>

ClearReady_Missing == UNCHANGED txReady
ClearReady == txReady' = FALSE

\* while (UartNTxReady != SET); UartNTxReady = RESET
AwaitEnd(t) ==
  /\ At(t, "wait") /\ txReady
  /\ ClearReady
  /\ Goto(t, "idle")
  /\ UNCHANGED <<sent, hal, rxArmed, wire, overlapped>>

SendMsg(t) ==
  Spin(t) \/ CheckState(t) \/ TakeLock(t) \/ StartTransfer(t)
          \/ EnableTXE(t) \/ AwaitEnd(t)

\* UART_Transmit_IT: the next byte goes to the data register
TransmitByte ==
  /\ irq = "txe" /\ gState = "BUSY_TX"
  /\ wire' = Append(wire, <<owner, MsgLen - left + 1>>)
  /\ left' = left - 1
  /\ irq' = IF left = 1 THEN "tc" ELSE "txe"
  /\ UNCHANGED <<pc, sent, txReady, halLock, gState, owner, rxArmed, overlapped>>

\* The TxCpltCallback of the port
TxCpltCallback_OtherPort == UNCHANGED txReady
TxCpltCallback == txReady' = TRUE

\* UART_EndTransmit_IT
EndTransmit ==
  /\ irq = "tc"
  /\ irq' = "off" /\ gState' = "READY" /\ TxCpltCallback
  /\ UNCHANGED <<pc, sent, halLock, owner, left, rxArmed, wire, overlapped>>

\* The RxCpltCallback calls HAL_UART_Receive_IT and ignores HAL_BUSY.
ReceiveByte ==
  /\ rxArmed
  /\ rxArmed' = ~halLock
  /\ UNCHANGED <<pc, sent, txReady, hal, wire, overlapped>>

Next ==
  \/ \E t \in Tasks : Call(t) \/ SendMsg(t)
  \/ TransmitByte \/ EndTransmit \/ ReceiveByte

\* A ready task of the highest priority runs, and the hardware raises the
\* transmit interrupts that are enabled.
Fairness ==
  /\ \A t \in Tasks : WF_vars(SendMsg(t))
  /\ WF_vars(TransmitByte) /\ WF_vars(EndTransmit)

Spec == Init /\ [][Next]_vars
LiveSpec == Spec /\ Fairness

-----------------------------------------------------------------------------
\* A message reaches the line in one piece, whoever preempts its sender: the
\* gState test is the only thing between two senders (tcp_task.c:153-161).
NotInterleaved ==
  \A i \in 1 .. Len(wire) - 1 :
    \/ wire[i + 1] = <<wire[i][1], wire[i][2] + 1>>
    \/ wire[i][2] = MsgLen /\ wire[i + 1][2] = 1

\* A sender hangs in ERR_HANDLER_ASSERT only because it preempted a task of
\* lower priority between the state test and the end of its transfer.
HangIsPreemption ==
  \A t \in Tasks : pc[t] = "hung" =>
    \E s \in Tasks : Prio[s] < Prio[t] /\ pc[s] \in {"start", "enable", "wait"}

\* The end of transfer a waiting task sees is the end of its own transfer.
OwnEnd ==
  \A t \in Tasks :
    pc[t] = "wait" /\ txReady => owner = t /\ left = 0 /\ gState = "READY"

\* A task waits for an end of transfer that can no longer come.
Stranded(t) ==
  pc[t] = "wait" /\ ~txReady /\ gState = "READY" /\ irq = "off"

\* Serialised calls are enough: as long as no two calls overlap, which is
\* what the commented-out uart_locker would ensure, nobody hangs, waits in
\* vain or returns before its message is on the line.
SerialisedIsSafe ==
  ~overlapped =>
    /\ OwnEnd
    /\ \A t \in Tasks : pc[t] # "hung" /\ ~Stranded(t)

\* As long as calls do not overlap, every call returns.
SendReturns == \A t \in Tasks : pc[t] = "spin" ~> (pc[t] = "idle" \/ overlapped)

\* uart4.c:23: once started, uart4 receives in an endless loop.
ContinuousReceive == rxArmed
=============================================================================
