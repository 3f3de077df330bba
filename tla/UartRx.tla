------------------------------- MODULE UartRx -------------------------------
(***************************************************************************)
(* The interrupt driven receive ring of Drivers/BSP/uart6.c (uart4.c and   *)
(* uart5.c repeat it): the RX interrupt stores one byte and re-arms HAL,   *)
(* Uart6_RcvMsg hands the caller a slice of the ring without copying it,   *)
(* and LM61_transparent_Read copies that slice afterwards.                 *)
(*                                                                         *)
(* Nothing masks the interrupt while Uart6_RcvMsg runs.  The build in the  *)
(* repository is -O0 and loads unReadBytes and bufferPoint again at every  *)
(* use, so the interrupt may fall between the comparison and the slice,    *)
(* and between the load and the store of "unReadBytes -= len".  Bytes are  *)
(* numbered by arrival; 0 is a slot that was never written.                *)
(***************************************************************************)
EXTENDS Integers

CONSTANTS
  N,          \* UART6_RXBUFFERSIZE
  WORD,       \* number of values of a uint32_t
  MaxBytes    \* bound: bytes that arrive

ASSUME NAssumption    == N \in Nat \ {0}
ASSUME WordAssumption == WORD \in Nat /\ WORD > 2 * N
ASSUME MaxAssumption  == MaxBytes \in Nat

VARIABLES
  aRxBuffer, bufferPoint, unReadBytes,
  rxTarget,   \* offset of HAL's pRxBuffPtr in aRxBuffer
  rxArmed,    \* HAL's RxState is HAL_UART_STATE_BUSY_RX
  halLock,    \* HAL's Lock, taken by HAL_UART_Transmit_IT of the same handle
  pc, wrap, reg, len, ptr,   \* the reading task: place, branch, registers
  rcvd,       \* history: bytes the interrupt stored
  last,       \* history: arrival number of the last byte the caller copied
  torn,       \* history: interrupts between comparison and slice happened
  lost,       \* history: interrupts between load and store of unReadBytes
  lapped      \* history: reception ran N bytes ahead of the caller's copy

ring == <<aRxBuffer, bufferPoint, rxTarget, rxArmed>>
regs == <<wrap, reg, len, ptr>>
hist == <<rcvd, torn, lost, lapped>>
vars == <<ring, unReadBytes, halLock, pc, regs, hist, last>>

Slots == 0 .. N - 1

\* uint32_t subtraction
Minus(a, b) == IF a >= b THEN a - b ELSE a - b + WORD

TypeOK ==
  /\ aRxBuffer \in [Slots -> 0 .. MaxBytes]
  /\ bufferPoint \in Slots /\ rxTarget \in Slots
  /\ unReadBytes \in 0 .. WORD - 1
  /\ rxArmed \in BOOLEAN /\ halLock \in BOOLEAN
  /\ pc \in {"idle", "slice", "reload", "store", "copy", "fault"}
  /\ wrap \in BOOLEAN
  /\ reg \in 0 .. WORD - 1 /\ len \in 0 .. WORD - 1 /\ ptr \in Int
  /\ rcvd \in 0 .. MaxBytes /\ last \in 0 .. MaxBytes
  /\ torn \in BOOLEAN /\ lapped \in BOOLEAN /\ lost \in 0 .. rcvd

\* Uart6_config, then UART6_StartRecv
Init ==
  /\ aRxBuffer = [i \in Slots |-> 0]
  /\ bufferPoint = 0 /\ unReadBytes = 0
  /\ rxTarget = 0 /\ rxArmed = TRUE /\ halLock = FALSE
  /\ pc = "idle" /\ wrap = FALSE /\ reg = 0 /\ len = 0 /\ ptr = 0
  /\ rcvd = 0 /\ last = 0 /\ torn = FALSE /\ lost = 0 /\ lapped = FALSE

NextPoint_OffByOne == IF bufferPoint >= N THEN 0 ELSE bufferPoint + 1
NextPoint == IF bufferPoint >= N - 1 THEN 0 ELSE bufferPoint + 1

\* Where HAL puts the next byte: HAL_UART_Receive_IT is ignored when busy.
RearmedAt == IF halLock THEN rxTarget ELSE NextPoint

\* unReadBytes ++, wrapping, and the clamp that follows
Counted_NoClamp == IF unReadBytes = WORD - 1 THEN 0 ELSE unReadBytes + 1
Counted ==
  LET n == IF unReadBytes = WORD - 1 THEN 0 ELSE unReadBytes + 1
  IN  IF n > N THEN N ELSE n

\* The USART6 interrupt: HAL stores the byte, HAL_UART6_RxCpltCallback runs
\* and calls HAL_UART_Receive_IT, whose HAL_BUSY result it ignores.
RxCpltCallback ==
  /\ rxArmed /\ rcvd < MaxBytes
  /\ aRxBuffer' = [aRxBuffer EXCEPT ![rxTarget] = rcvd + 1]
  /\ bufferPoint' = NextPoint
  /\ unReadBytes' = Counted
  /\ rxArmed' = ~halLock
  /\ rxTarget' = RearmedAt
  /\ rcvd' = rcvd + 1
  /\ torn' = (torn \/ pc = "slice")
  /\ lost' = IF pc = "store" THEN lost + 1 ELSE lost
  /\ lapped' = (lapped \/ rcvd - last >= N)
  /\ UNCHANGED <<halLock, pc, regs, last>>

\* HAL_UART_Transmit_IT of the same port holds the handle's lock for a while
TransmitLock ==
  /\ halLock' = ~halLock
  /\ UNCHANGED <<ring, unReadBytes, pc, regs, hist, last>>

\* if(unReadBytes > bufferPoint): the spin on Uart6RxReady before it never
\* lasts, the interrupt sets and resets the flag before the task sees it.
Compare ==
  /\ pc = "idle" /\ ~halLock
  /\ wrap' = (unReadBytes > bufferPoint)
  /\ pc' = "slice"
  /\ UNCHANGED <<ring, unReadBytes, halLock, reg, len, ptr, hist, last>>

\* len and *pReadBuff, from values loaded again
Slice ==
  /\ pc = "slice" /\ ~halLock
  /\ len' = IF wrap THEN Minus(unReadBytes, bufferPoint) ELSE unReadBytes
  /\ ptr' = (IF wrap THEN bufferPoint + N ELSE bufferPoint) - unReadBytes
  /\ pc' = "reload"
  /\ UNCHANGED <<ring, unReadBytes, halLock, wrap, reg, hist, last>>

\* unReadBytes -= len is a load and a store
Reload ==
  /\ pc = "reload" /\ ~halLock
  /\ reg' = unReadBytes
  /\ pc' = "store"
  /\ UNCHANGED <<ring, unReadBytes, halLock, wrap, len, ptr, hist, last>>

Left_All  == reg
Left_Zero == 0
Left == Minus(reg, len)

Store ==
  /\ pc = "store" /\ ~halLock
  /\ unReadBytes' = Left
  /\ pc' = "copy"
  /\ UNCHANGED <<ring, halLock, regs, hist, last>>

InBounds == 0 <= ptr /\ ptr + len <= N

\* The caller's memcpy; past the ring it reads foreign memory or traps.
Copy ==
  /\ pc = "copy" /\ ~halLock
  /\ pc' = IF InBounds THEN "idle" ELSE "fault"
  /\ last' = IF InBounds /\ len > 0 THEN aRxBuffer[ptr + len - 1] ELSE last
  /\ UNCHANGED <<ring, unReadBytes, halLock, regs, hist>>

RcvMsg == Compare \/ Slice \/ Reload \/ Store \/ Copy

Next == RxCpltCallback \/ TransmitLock \/ RcvMsg

\* The receive task polls for ever and a transmitter leaves HAL's lock.
Fairness == SF_vars(RcvMsg) /\ WF_vars(halLock /\ TransmitLock)

Spec == Init /\ [][Next]_vars
LiveSpec == Spec /\ Fairness

-----------------------------------------------------------------------------
\* No interrupt between comparison and slice, no reception a lap ahead.
Clean == ~torn /\ ~lapped

\* The slice handed to the caller lies in aRxBuffer whatever interrupts hit
\* the update of unReadBytes or the copy (uart6.c:81-90): only an interrupt
\* between the comparison and the slice can push it out.
SliceInBounds == ~torn /\ pc \in {"reload", "store", "copy"} => InBounds

\* What the caller is about to copy is a run of consecutive bytes newer than
\* everything it has copied: no byte twice, none out of order, no stale slot.
SliceInOrder ==
  Clean /\ pc = "copy" =>
    /\ len > 0 => aRxBuffer[ptr] > last
    /\ \A i \in Slots : i < len => aRxBuffer[ptr + i] = aRxBuffer[ptr] + i

\* Every byte stored by the interrupt is copied, counted as unread, or was
\* dropped by an interrupt between the load and the store of unReadBytes.
Accounting ==
  Clean /\ pc = "idle" =>
    /\ last + unReadBytes <= rcvd
    /\ rcvd <= last + unReadBytes + lost

\* HAL writes the next byte where the ring expects it.
TargetIsPoint == rxArmed => rxTarget = bufferPoint

\* The stream is exact: what is copied is in order, what is not copied is counted
\* or its loss explained, and what comes next goes where the ring expects it.
StreamExact == SliceInOrder /\ Accounting /\ TargetIsPoint

\* Unread bytes never strand: polling drains the ring, or the caller faults.
Drains == unReadBytes > 0 ~> (unReadBytes = 0 \/ pc = "fault")
=============================================================================
