-------------------------- MODULE UartPort_proofs ---------------------------
(***************************************************************************)
(* A UART port for every set of tasks, all priorities and every message    *)
(* length: serialised callers are safe and their calls end; callers of     *)
(* distinct priorities may hang one another but never mix two messages on  *)
(* the line.                                                               *)
(***************************************************************************)
EXTENDS UartPort, TLAPS

USE PrioAssumption, MsgAssumption, BusyAssumption

\* Flags, counters and places keep their types.
THEOREM TypeCorrect == Spec => []TypeOK
<1>1. Init => TypeOK
  <2> SUFFICES ASSUME Init PROVE TypeOK
    OBVIOUS
  <2>1. /\ pc \in [Tasks -> Places] /\ sent \in [Tasks -> 0 .. MaxSends]
        /\ left \in Int
    BY DEF Init, Places
  <2>2. wire \in Seq(Tasks \X Int)
    BY DEF Init
  <2>3. QED
    BY <2>1, <2>2 DEF Init, TypeOK
<1>2. TypeOK /\ [Next]_vars => TypeOK'
  <2> SUFFICES ASSUME TypeOK, [Next]_vars PROVE TypeOK'
    OBVIOUS
  <2> USE DEF TypeOK, Places, Goto, At, hal
  <2>1. ASSUME NEW t \in Tasks, Call(t) PROVE TypeOK'
    BY <2>1 DEF Call
  <2>2. ASSUME NEW t \in Tasks, Spin(t) PROVE TypeOK'
    BY <2>2 DEF Spin
  <2>3. ASSUME NEW t \in Tasks, CheckState(t) PROVE TypeOK'
    <3>1. UNCHANGED <<sent, txReady, hal, rxArmed, wire, overlapped>>
      BY <2>3 DEF CheckState, Busy
    <3>2. pc' \in [Tasks -> Places]
      BY <2>3 DEF CheckState, Busy
    <3>3. QED
      BY <3>1, <3>2
  <2>4. ASSUME NEW t \in Tasks, TakeLock(t) PROVE TypeOK'
    <3>1. /\ sent' = sent /\ txReady' = txReady /\ gState' = gState
          /\ owner' = owner /\ left' = left /\ irq' = irq
          /\ rxArmed' = rxArmed /\ wire' = wire /\ overlapped' = overlapped
      BY <2>4 DEF TakeLock, Busy
    <3>2. pc' \in [Tasks -> Places] /\ halLock' \in BOOLEAN
      BY <2>4 DEF TakeLock, Busy
    <3>3. QED
      BY <3>1, <3>2
  <2>5. ASSUME NEW t \in Tasks, StartTransfer(t) PROVE TypeOK'
    <3>1. /\ sent' = sent /\ txReady' = txReady /\ irq' = irq
          /\ rxArmed' = rxArmed /\ wire' = wire /\ overlapped' = overlapped
          /\ owner' \in Tasks /\ left' \in Int /\ gState' = "BUSY_TX"
          /\ halLock' = FALSE
      BY <2>5 DEF StartTransfer, SetUp
    <3>2. pc' \in [Tasks -> Places]
      BY <2>5 DEF StartTransfer, SetUp
    <3>3. QED
      BY <3>1, <3>2
  <2>6. ASSUME NEW t \in Tasks, EnableTXE(t) PROVE TypeOK'
    BY <2>6 DEF EnableTXE
  <2>7. ASSUME NEW t \in Tasks, AwaitEnd(t) PROVE TypeOK'
    BY <2>7 DEF AwaitEnd, ClearReady
  <2>8. CASE TransmitByte
    <3>1. left' \in Int /\ MsgLen - left + 1 \in Int
      BY <2>8 DEF TransmitByte
    <3>2. wire' \in Seq(Tasks \X Int)
      BY <2>8, <3>1 DEF TransmitByte
    <3>3. QED
      BY <2>8, <3>1, <3>2 DEF TransmitByte
  <2>9. CASE EndTransmit \/ ReceiveByte \/ UNCHANGED vars
    BY <2>9 DEF EndTransmit, TxCpltCallback, ReceiveByte, vars
  <2>10. QED
    BY <2>1, <2>2, <2>3, <2>4, <2>5, <2>6, <2>7, <2>8, <2>9 DEF Next, SendMsg
<1>3. QED
  BY <1>1, <1>2, PTL DEF Spec

-----------------------------------------------------------------------------
\* No transfer runs and no end of transfer is pending.
Quiet == ~txReady /\ gState = "READY" /\ irq = "off"

\* The transfer of task t runs, or its end is pending.
Underway(t) ==
  /\ owner = t /\ ~halLock
  /\ \/ irq = "txe" /\ gState = "BUSY_TX" /\ left > 0 /\ ~txReady
     \/ irq = "tc" /\ gState = "BUSY_TX" /\ left = 0 /\ ~txReady
     \/ irq = "off" /\ gState = "READY" /\ left = 0 /\ txReady

\* What the port looks like at each place of the one task that uses it.
PortAt(t) ==
  /\ pc[t] # "hung"
  /\ pc[t] \in {"spin", "check", "lock"} => Quiet /\ ~halLock
  /\ pc[t] = "start" => Quiet /\ halLock
  /\ pc[t] = "enable" => /\ owner = t /\ ~halLock /\ left = MsgLen
                         /\ gState = "BUSY_TX" /\ irq = "off" /\ ~txReady
  /\ pc[t] = "wait" => Underway(t)

\* Strengthening of SerialisedIsSafe.
SerialInv ==
  ~overlapped =>
    /\ \A s, t \in Tasks : pc[s] # "idle" /\ pc[t] # "idle" => s = t
    /\ (\A t \in Tasks : pc[t] = "idle") => Quiet /\ ~halLock
    /\ \A t \in Tasks : PortAt(t)

LEMMA SerialStep == TypeOK /\ SerialInv /\ [Next]_vars => SerialInv'
<1> SUFFICES ASSUME TypeOK, SerialInv, [Next]_vars, ~overlapped' PROVE SerialInv'
  BY DEF SerialInv
<1> USE DEF TypeOK, SerialInv, PortAt, Quiet, Underway, At, Goto, hal
<1>1. ASSUME NEW t \in Tasks, Call(t) PROVE SerialInv'
  BY <1>1 DEF Call
<1>2. ASSUME NEW t \in Tasks, Spin(t) PROVE SerialInv'
  BY <1>2 DEF Spin
<1>3. ASSUME NEW t \in Tasks, CheckState(t) PROVE SerialInv'
  <2>1. Quiet /\ ~halLock /\ ~overlapped /\ pc[t] = "check"
    BY <1>3 DEF CheckState, Busy
  <2>2. pc' = [pc EXCEPT ![t] = "lock"]
    BY <1>3, <2>1 DEF CheckState
  <2>3. UNCHANGED <<txReady, hal, overlapped>>
    BY <1>3 DEF CheckState, Busy
  <2>4. QED
    BY <2>1, <2>2, <2>3
<1>4. ASSUME NEW t \in Tasks, TakeLock(t) PROVE SerialInv'
  <2>1. Quiet /\ ~halLock /\ ~overlapped /\ pc[t] = "lock"
    BY <1>4 DEF TakeLock, Busy
  <2>2. pc' = [pc EXCEPT ![t] = "start"] /\ halLock'
    BY <1>4, <2>1 DEF TakeLock
  <2>3. UNCHANGED <<txReady, gState, irq, overlapped>>
    BY <1>4, <2>1 DEF TakeLock
  <2>4. QED
    BY <2>1, <2>2, <2>3
<1>5. ASSUME NEW t \in Tasks, StartTransfer(t) PROVE SerialInv'
  BY <1>5 DEF StartTransfer, SetUp
<1>6. ASSUME NEW t \in Tasks, EnableTXE(t) PROVE SerialInv'
  BY <1>6 DEF EnableTXE
<1>7. ASSUME NEW t \in Tasks, AwaitEnd(t) PROVE SerialInv'
  BY <1>7 DEF AwaitEnd, ClearReady
<1>8. CASE TransmitByte
  BY <1>8 DEF TransmitByte
<1>9. CASE EndTransmit
  BY <1>9 DEF EndTransmit, TxCpltCallback
<1>10. CASE ReceiveByte \/ UNCHANGED vars
  BY <1>10 DEF ReceiveByte, vars
<1>11. QED
  BY <1>1, <1>2, <1>3, <1>4, <1>5, <1>6, <1>7, <1>8, <1>9, <1>10
     DEF Next, SendMsg

\* As long as calls do not overlap no sender hangs, waits in vain or takes a
\* foreign end of transfer for its own: the lock that tcp_task.c has
\* commented out is all the port lacks.
THEOREM SerialisedSafe == Spec => []SerialisedIsSafe
<1>1. Init => SerialInv
  BY DEF Init, SerialInv, PortAt, Quiet, Underway
<1>2. TypeOK /\ SerialInv => SerialisedIsSafe
  BY DEF TypeOK, SerialInv, PortAt, Quiet, Underway, SerialisedIsSafe, OwnEnd,
         Stranded
<1>3. QED
  BY <1>1, <1>2, SerialStep, TypeCorrect, PTL DEF Spec
-----------------------------------------------------------------------------
\* The priorities of main.c (10 and 9) are distinct.  Without this hypothesis
\* the next two theorems are false: two senders of one priority that the
\* scheduler alternates both pass the gState test, and the second sets up its
\* transfer in the middle of the first.
DistinctPriorities == \A s, t \in Tasks : s # t => Prio[s] # Prio[t]

\* Task w keeps every task that has passed the state test from running.
HoldsBack(w) == \A s \in Tasks : pc[s] = "lock" => Prio[s] < Prio[w]

\* Who has the HAL lock, and whose transfer is set up.
LockInv ==
  /\ halLock <=> \E t \in Tasks : pc[t] = "start"
  /\ \A s, t \in Tasks : pc[s] = "start" /\ pc[t] = "start" => s = t
  /\ halLock => gState = "READY"
  /\ irq # "off" => gState = "BUSY_TX"
  /\ \A t \in Tasks : pc[t] = "enable" =>
       gState = "BUSY_TX" /\ irq = "off" /\ owner = t /\ left = MsgLen

\* A transfer under way holds back whoever has passed the state test.
TransferInv ==
  gState = "BUSY_TX" =>
    \E w \in Tasks : pc[w] \in {"enable", "wait"} /\ HoldsBack(w)

\* No task above s is past the wait for UartNTxReady.
NoneBeyondSpin(s) ==
  \A u \in Tasks : Prio[u] > Prio[s] => pc[u] \in {"idle", "spin"}

\* An end of transfer nobody has seen yet has a task waiting for it, even
\* when the next transfer has already begun.
PendingInv ==
  txReady =>
    \E w \in Tasks :
      /\ pc[w] = "wait"
      /\ \A s \in Tasks : pc[s] = "lock" =>
           \/ Prio[s] < Prio[w]
           \/ NoneBeyondSpin(s)
      /\ gState = "BUSY_TX" =>
           /\ pc[owner] \in {"enable", "wait"} /\ Prio[w] < Prio[owner]
           /\ HoldsBack(w)

\* The last byte on the line, and how far its message is.
WireInv ==
  LET whole == wire = <<>> \/ wire[Len(wire)][2] = MsgLen
  IN  /\ irq \in {"off", "tc"} => whole
      /\ irq = "txe" => /\ left \in 1 .. MsgLen
                        /\ IF left = MsgLen
                           THEN whole
                           ELSE /\ wire # <<>>
                                /\ wire[Len(wire)] = <<owner, MsgLen - left>>

PreemptInv == LockInv /\ TransferInv /\ PendingInv /\ WireInv

LEMMA LockStep == TypeOK /\ PreemptInv /\ [Next]_vars => LockInv'
<1> SUFFICES ASSUME TypeOK, PreemptInv, [Next]_vars PROVE LockInv'
  OBVIOUS
<1> USE DEF TypeOK, PreemptInv, LockInv, At, Goto, hal
<1>1. ASSUME NEW t \in Tasks, Call(t) \/ Spin(t) \/ AwaitEnd(t) PROVE LockInv'
  <2>1. \A s \in Tasks : pc'[s] \in {"start", "enable"} => pc'[s] = pc[s]
    BY <1>1 DEF Call, Spin, AwaitEnd
  <2>2. \A s \in Tasks : pc[s] \in {"start", "enable"} => pc'[s] = pc[s]
    BY <1>1 DEF Call, Spin, AwaitEnd
  <2>3. UNCHANGED hal
    BY <1>1 DEF Call, Spin, AwaitEnd
  <2>4. QED
    BY <2>1, <2>2, <2>3
<1>2. ASSUME NEW t \in Tasks, CheckState(t) PROVE LockInv'
  <2>1. \A s \in Tasks : pc'[s] \in {"start", "enable"} => pc'[s] = pc[s]
    BY <1>2 DEF CheckState, Busy
  <2>2. \A s \in Tasks : pc[s] \in {"start", "enable"} => pc'[s] = pc[s]
    BY <1>2 DEF CheckState, Busy
  <2>3. UNCHANGED hal
    BY <1>2 DEF CheckState, Busy
  <2>4. QED
    BY <2>1, <2>2, <2>3
<1>3. ASSUME NEW t \in Tasks, TakeLock(t) PROVE LockInv'
  <2>1. CASE halLock
    BY <1>3, <2>1 DEF TakeLock, Busy
  <2>2. CASE ~halLock
    <3>1. gState = "READY"
      BY <1>3, <2>2 DEF TakeLock, TransferInv, HoldsBack, Runs
    <3>2. QED
      BY <1>3, <2>2, <3>1 DEF TakeLock
  <2>3. QED
    BY <2>1, <2>2
<1>4. ASSUME NEW t \in Tasks, StartTransfer(t) PROVE LockInv'
  BY <1>4 DEF StartTransfer, SetUp
<1>5. ASSUME NEW t \in Tasks, EnableTXE(t) PROVE LockInv'
  BY <1>5 DEF EnableTXE
<1>6. CASE TransmitByte
  BY <1>6 DEF TransmitByte
<1>7. CASE EndTransmit \/ ReceiveByte \/ UNCHANGED vars
  BY <1>7 DEF EndTransmit, TxCpltCallback, ReceiveByte, vars
<1>8. QED
  BY <1>1, <1>2, <1>3, <1>4, <1>5, <1>6, <1>7 DEF Next, SendMsg

LEMMA TransferStep ==
  ASSUME DistinctPriorities
  PROVE  TypeOK /\ PreemptInv /\ [Next]_vars => TransferInv'
<1> SUFFICES ASSUME TypeOK, PreemptInv, [Next]_vars, gState' = "BUSY_TX"
             PROVE  \E w \in Tasks : pc'[w] \in {"enable", "wait"} /\ HoldsBack(w)'
  BY DEF TransferInv
<1> USE DEF TypeOK, PreemptInv, At, Goto, hal, HoldsBack, Places
<1> DEFINE KeepsWaiters(t) ==
      /\ gState = "BUSY_TX" /\ pc[t] \notin {"enable", "wait"}
      /\ pc'[t] # "lock" /\ \A s \in Tasks \ {t} : pc'[s] = pc[s]
\* The same task still holds the others back.
<1>1. ASSUME NEW t \in Tasks, KeepsWaiters(t)
      PROVE  \E w \in Tasks : pc'[w] \in {"enable", "wait"} /\ HoldsBack(w)'
  <2>1. PICK w \in Tasks : pc[w] \in {"enable", "wait"} /\ HoldsBack(w)
    BY <1>1 DEF TransferInv
  <2>2. pc'[w] \in {"enable", "wait"} /\ HoldsBack(w)'
    BY <1>1, <2>1
  <2>3. QED
    BY <2>2
<1>2. ASSUME NEW t \in Tasks, Call(t) \/ Spin(t) PROVE KeepsWaiters(t)
  BY <1>2 DEF Call, Spin
<1>3. ASSUME NEW t \in Tasks, CheckState(t) PROVE KeepsWaiters(t)
  BY <1>3 DEF CheckState, Busy
<1>4. ASSUME NEW t \in Tasks, TakeLock(t) PROVE KeepsWaiters(t)
  BY <1>4 DEF TakeLock, Busy
\* The new transfer's own task runs: all above it are idle.
<1>5. ASSUME NEW t \in Tasks, StartTransfer(t)
      PROVE  \E w \in Tasks : pc'[w] \in {"enable", "wait"} /\ HoldsBack(w)'
  <2>1. pc'[t] = "enable" /\ \A s \in Tasks \ {t} : pc'[s] = pc[s]
    BY <1>5 DEF StartTransfer
  <2>2. \A s \in Tasks \ {t} : pc[s] # "idle" => Prio[s] < Prio[t]
    BY <1>5 DEF StartTransfer, Runs, DistinctPriorities
  <2>3. QED
    BY <2>1, <2>2
<1>6. ASSUME NEW t \in Tasks, EnableTXE(t)
      PROVE  \E w \in Tasks : pc'[w] \in {"enable", "wait"} /\ HoldsBack(w)'
  <2>1. gState = "BUSY_TX"
    BY <1>6 DEF EnableTXE
  <2>2. PICK w \in Tasks : pc[w] \in {"enable", "wait"} /\ HoldsBack(w)
    BY <2>1 DEF TransferInv
  <2>3. pc'[t] = "wait" /\ \A s \in Tasks \ {t} : pc'[s] = pc[s]
    BY <1>6 DEF EnableTXE
  <2>4. pc'[w] \in {"enable", "wait"} /\ HoldsBack(w)'
    BY <2>2, <2>3
  <2>5. QED
    BY <2>4
\* The end seen is an earlier one: its own waiter is still there.
<1>7. ASSUME NEW t \in Tasks, AwaitEnd(t)
      PROVE  \E w \in Tasks : pc'[w] \in {"enable", "wait"} /\ HoldsBack(w)'
  <2>1. txReady /\ gState = "BUSY_TX"
    BY <1>7 DEF AwaitEnd
  <2>2. PICK w \in Tasks : /\ pc[w] = "wait" /\ HoldsBack(w)
                           /\ pc[owner] \in {"enable", "wait"}
                           /\ Prio[w] < Prio[owner]
    BY <2>1 DEF PendingInv
  <2>3. w # t
    BY <1>7, <2>2 DEF AwaitEnd, Runs
  <2>4. pc'[t] = "idle" /\ \A s \in Tasks \ {t} : pc'[s] = pc[s]
    BY <1>7 DEF AwaitEnd
  <2>5. pc'[w] \in {"enable", "wait"} /\ HoldsBack(w)'
    BY <2>2, <2>3, <2>4
  <2>6. QED
    BY <2>5
<1>8. ASSUME TransmitByte \/ EndTransmit \/ ReceiveByte \/ UNCHANGED vars
      PROVE  \E w \in Tasks : pc'[w] \in {"enable", "wait"} /\ HoldsBack(w)'
  <2>1. gState = "BUSY_TX" /\ pc' = pc
    BY <1>8 DEF TransmitByte, EndTransmit, ReceiveByte, vars
  <2>2. PICK w \in Tasks : pc[w] \in {"enable", "wait"} /\ HoldsBack(w)
    BY <2>1 DEF TransferInv
  <2>3. pc'[w] \in {"enable", "wait"} /\ HoldsBack(w)'
    BY <2>1, <2>2
  <2>4. QED
    BY <2>3
<1>9. ASSUME NEW t \in Tasks, Call(t) \/ Spin(t) \/ CheckState(t) \/ TakeLock(t)
      PROVE  \E w \in Tasks : pc'[w] \in {"enable", "wait"} /\ HoldsBack(w)'
  BY <1>9, <1>1, <1>2, <1>3, <1>4
<1>10. QED
  BY <1>5, <1>6, <1>7, <1>8, <1>9 DEF Next, SendMsg

LEMMA PendingStep ==
  ASSUME DistinctPriorities
  PROVE  TypeOK /\ PreemptInv /\ [Next]_vars => PendingInv'
<1> DEFINE Awaits(w) ==
      /\ pc[w] = "wait"
      /\ \A s \in Tasks : pc[s] = "lock" => Prio[s] < Prio[w] \/ NoneBeyondSpin(s)
      /\ gState = "BUSY_TX" =>
           /\ pc[owner] \in {"enable", "wait"} /\ Prio[w] < Prio[owner]
           /\ HoldsBack(w)
<1> SUFFICES ASSUME TypeOK, PreemptInv, [Next]_vars, txReady'
             PROVE  \E w \in Tasks : Awaits(w)'
  BY DEF PendingInv
<1> USE DEF TypeOK, PreemptInv, At, Goto, hal, HoldsBack, NoneBeyondSpin, Places
<1>1. txReady => \E w \in Tasks : Awaits(w)
  BY DEF PendingInv
<1> HIDE DEF PreemptInv
<1>2. ASSUME NEW t \in Tasks, Call(t) PROVE \E w \in Tasks : Awaits(w)'
  <2>1. PICK w \in Tasks : Awaits(w)
    BY <1>1, <1>2 DEF Call
  <2>2. Awaits(w)'
    BY <1>2, <2>1 DEF Call
  <2>3. QED
    BY <2>2
<1>3. ASSUME NEW t \in Tasks, Spin(t) PROVE FALSE
  BY <1>3 DEF Spin
<1>4. ASSUME NEW t \in Tasks, CheckState(t) PROVE \E w \in Tasks : Awaits(w)'
  <2>1. PICK w \in Tasks : Awaits(w)
    BY <1>1, <1>4 DEF CheckState, Busy
  <2>2. CASE gState = "READY"
    <3>1. /\ pc'[t] = "lock" /\ gState' = "READY"
          /\ \A s \in Tasks \ {t} : pc'[s] = pc[s]
      BY <1>4, <2>2 DEF CheckState, Busy
    <3>2. pc[t] = "check" /\ \A u \in Tasks : Prio[u] > Prio[t] => pc[u] = "idle"
      BY <1>4 DEF CheckState, Runs
    <3>3. NoneBeyondSpin(t)'
      BY <3>1, <3>2
    <3>4. \A s \in Tasks \ {t} : NoneBeyondSpin(s) => NoneBeyondSpin(s)'
      BY <3>1, <3>2
    <3>5. Awaits(w)'
      BY <2>1, <3>1, <3>2, <3>3, <3>4
    <3>6. QED
      BY <3>5
  <2>3. CASE gState # "READY"
    <3>1. /\ pc'[t] \in {"hung", "wait"} /\ UNCHANGED <<gState, owner>>
          /\ pc[t] = "check" /\ \A s \in Tasks \ {t} : pc'[s] = pc[s]
      BY <1>4, <2>3 DEF CheckState, Busy
    <3>2. Awaits(w)'
      BY <2>1, <3>1
    <3>3. QED
      BY <3>2
  <2>4. QED
    BY <2>2, <2>3
<1>5. ASSUME NEW t \in Tasks, TakeLock(t) PROVE \E w \in Tasks : Awaits(w)'
  <2>1. PICK w \in Tasks : Awaits(w)
    BY <1>1, <1>5 DEF TakeLock, Busy
  <2>2. /\ pc'[t] \in {"hung", "wait", "start"} /\ UNCHANGED <<gState, owner>>
        /\ pc[t] = "lock" /\ \A s \in Tasks \ {t} : pc'[s] = pc[s]
    BY <1>5 DEF TakeLock, Busy
  <2>3. Awaits(w)'
    BY <2>1, <2>2
  <2>4. QED
    BY <2>3
\* The waiter is another task, and below the one that starts.
<1>6. ASSUME NEW t \in Tasks, StartTransfer(t) PROVE \E w \in Tasks : Awaits(w)'
  <2>1. PICK w \in Tasks : Awaits(w)
    BY <1>1, <1>6 DEF StartTransfer
  <2>2. /\ pc[t] = "start" /\ pc'[t] = "enable" /\ owner' = t
        /\ \A s \in Tasks \ {t} : pc'[s] = pc[s]
    BY <1>6 DEF StartTransfer
  <2>3. \A s \in Tasks \ {t} : pc[s] # "idle" => Prio[s] < Prio[t]
    BY <1>6 DEF StartTransfer, Runs, DistinctPriorities
  <2>4. Prio[w] < Prio[t] /\ w # t
    BY <2>1, <2>2, <2>3
  <2>5. \A s \in Tasks : pc[s] = "lock" => ~NoneBeyondSpin(s)
    BY <2>2, <2>3
  <2>6. HoldsBack(w)'
    BY <2>1, <2>2, <2>5
  <2>7. Awaits(w)'
    BY <2>1, <2>2, <2>4, <2>6
  <2>8. QED
    BY <2>7
<1>7. ASSUME NEW t \in Tasks, EnableTXE(t) PROVE \E w \in Tasks : Awaits(w)'
  <2>1. PICK w \in Tasks : Awaits(w)
    BY <1>1, <1>7 DEF EnableTXE
  <2>2. /\ pc[t] = "enable" /\ pc'[t] = "wait" /\ UNCHANGED <<gState, owner>>
        /\ \A s \in Tasks \ {t} : pc'[s] = pc[s]
    BY <1>7 DEF EnableTXE
  <2>3. Awaits(w)'
    BY <2>1, <2>2
  <2>4. QED
    BY <2>3
<1>8. ASSUME NEW t \in Tasks, AwaitEnd(t) PROVE FALSE
  BY <1>8 DEF AwaitEnd, ClearReady
\* Who waits for the transfer that ends, or for the end before it.
<1>9. CASE EndTransmit
  <2>1. /\ gState = "BUSY_TX" /\ irq = "tc" /\ gState' = "READY" /\ pc' = pc
    BY <1>9 DEF EndTransmit, PreemptInv, LockInv
  <2>2. PICK w \in Tasks : pc[w] \in {"enable", "wait"} /\ HoldsBack(w)
    BY <2>1 DEF TransferInv, PreemptInv
  <2>3. pc[w] = "wait"
    BY <2>1, <2>2 DEF PreemptInv, LockInv
  <2>4. Awaits(w)'
    BY <2>1, <2>2, <2>3
  <2>5. QED
    BY <2>4
<1>10. CASE TransmitByte \/ ReceiveByte \/ UNCHANGED vars
  <2>1. UNCHANGED <<pc, txReady, gState, owner>>
    BY <1>10 DEF TransmitByte, ReceiveByte, vars
  <2>2. PICK w \in Tasks : Awaits(w)
    BY <1>1, <2>1
  <2>3. Awaits(w)'
    BY <2>1, <2>2
  <2>4. QED
    BY <2>3
<1>11. QED
  BY <1>2, <1>3, <1>4, <1>5, <1>6, <1>7, <1>8, <1>9, <1>10 DEF Next, SendMsg

LEMMA WireStep ==
  TypeOK /\ PreemptInv /\ [Next]_vars
    => WireInv' /\ (NotInterleaved => NotInterleaved')
<1> SUFFICES ASSUME TypeOK, PreemptInv, [Next]_vars
             PROVE  WireInv' /\ (NotInterleaved => NotInterleaved')
  OBVIOUS
<1> USE DEF TypeOK, WireInv, At, Goto, hal
<1>1. WireInv /\ LockInv
  BY DEF PreemptInv
<1>2. ASSUME NEW t \in Tasks,
             Call(t) \/ Spin(t) \/ CheckState(t) \/ TakeLock(t) \/ AwaitEnd(t)
      PROVE  UNCHANGED <<gState, owner, left, irq, wire>>
  BY <1>2 DEF Call, Spin, CheckState, TakeLock, AwaitEnd, Busy
<1>3. ASSUME NEW t \in Tasks, StartTransfer(t) PROVE WireInv' /\ wire' = wire
  <2>1. irq = "off" /\ irq' = "off" /\ wire' = wire
    BY <1>1, <1>3 DEF StartTransfer, LockInv
  <2>2. QED
    BY <1>1, <2>1
<1>4. ASSUME NEW t \in Tasks, EnableTXE(t) PROVE WireInv' /\ wire' = wire
  <2>1. /\ irq = "off" /\ left = MsgLen /\ irq' = "txe"
        /\ UNCHANGED <<owner, left, wire>>
    BY <1>1, <1>4 DEF EnableTXE, LockInv
  <2>2. QED
    BY <1>1, <2>1
<1>5. CASE TransmitByte
  <2> DEFINE byte == <<owner, MsgLen - left + 1>>
  <2>1. /\ irq = "txe" /\ left \in 1 .. MsgLen /\ left' = left - 1
        /\ wire' = Append(wire, byte) /\ UNCHANGED owner
        /\ irq' = IF left = 1 THEN "tc" ELSE "txe"
    BY <1>1, <1>5 DEF TransmitByte
  <2>2. byte \in Tasks \X Int
    BY <2>1
  <2>3. /\ wire' \in Seq(Tasks \X Int) /\ Len(wire') = Len(wire) + 1
        /\ wire'[Len(wire')] = byte
        /\ \A i \in 1 .. Len(wire) : wire'[i] = wire[i]
    BY <2>1, <2>2
  <2>4. WireInv'
    <3>1. wire' # <<>> /\ wire'[Len(wire')][2] = MsgLen - left + 1
      BY <2>3
    <3>2. CASE left = 1
      BY <3>1, <3>2, <2>1
    <3>3. CASE left # 1
      <4>1. irq' = "txe" /\ left' \in 1 .. MsgLen /\ left' # MsgLen
        BY <3>3, <2>1
      <4>2. wire'[Len(wire')] = <<owner', MsgLen - left'>>
        BY <3>3, <2>1, <2>3
      <4>3. QED
        BY <3>1, <4>1, <4>2
    <3>4. QED
      BY <3>2, <3>3
  <2>5. ASSUME NotInterleaved, NEW i \in 1 .. Len(wire') - 1
        PROVE  \/ wire'[i + 1] = <<wire'[i][1], wire'[i][2] + 1>>
               \/ wire'[i][2] = MsgLen /\ wire'[i + 1][2] = 1
    <3>0. Len(wire) \in Nat /\ i \in 1 .. Len(wire)
      BY <2>3
    <3>1. CASE i < Len(wire)
      <4>1. i \in 1 .. Len(wire) - 1 /\ i + 1 \in 1 .. Len(wire)
        BY <3>0, <3>1
      <4>2. wire'[i] = wire[i] /\ wire'[i + 1] = wire[i + 1]
        BY <3>0, <4>1, <2>3
      <4>3. QED
        BY <4>1, <4>2, <2>5 DEF NotInterleaved
    <3>2. CASE i = Len(wire) /\ left = MsgLen
      BY <3>2, <1>1, <2>1, <2>3, <2>5
    <3>3. CASE i = Len(wire) /\ left # MsgLen
      BY <3>3, <1>1, <2>1, <2>3, <2>5
    <3>4. i < Len(wire) \/ i = Len(wire)
      BY <3>0
    <3>5. QED
      BY <3>1, <3>2, <3>3, <3>4
  <2>6. QED
    BY <2>4, <2>5 DEF NotInterleaved
<1>6. CASE EndTransmit
  BY <1>1, <1>6 DEF EndTransmit, NotInterleaved
<1>7. CASE ReceiveByte \/ UNCHANGED vars
  BY <1>1, <1>7 DEF ReceiveByte, vars, NotInterleaved
<1>8. ASSUME UNCHANGED <<owner, left, irq, wire>> PROVE WireInv'
  BY <1>1, <1>8
<1>9. ASSUME UNCHANGED wire PROVE NotInterleaved => NotInterleaved'
  BY <1>9 DEF NotInterleaved
<1>10. QED
  BY <1>2, <1>3, <1>4, <1>5, <1>6, <1>7, <1>8, <1>9 DEF Next, SendMsg

LEMMA HangStep ==
  ASSUME DistinctPriorities
  PROVE  TypeOK /\ PreemptInv /\ HangIsPreemption /\ [Next]_vars
           => HangIsPreemption'
<1> SUFFICES ASSUME TypeOK, PreemptInv, HangIsPreemption, [Next]_vars,
                    NEW h \in Tasks, pc'[h] = "hung"
             PROVE  \E s \in Tasks : /\ Prio[s] < Prio[h]
                                     /\ pc'[s] \in {"start", "enable", "wait"}
  BY DEF HangIsPreemption
<1> USE DEF TypeOK, At, Goto, hal, Places
\* Whoever is below a hung task no longer runs.
<1>1. CASE pc[h] = "hung"
  <2>1. PICK s \in Tasks : /\ Prio[s] < Prio[h]
                           /\ pc[s] \in {"start", "enable", "wait"}
    BY <1>1 DEF HangIsPreemption
  <2>2. ~Runs(s)
    BY <1>1, <2>1 DEF Runs
  <2>3. pc'[s] = pc[s]
    <3>1. ASSUME NEW t \in Tasks, Call(t) \/ Spin(t) \/ CheckState(t)
                 \/ TakeLock(t) \/ StartTransfer(t) \/ EnableTXE(t) \/ AwaitEnd(t)
          PROVE  Runs(t) /\ \A u \in Tasks \ {t} : pc'[u] = pc[u]
      BY <3>1 DEF Call, Spin, CheckState, TakeLock, StartTransfer, EnableTXE,
                  AwaitEnd, Busy
    <3>2. CASE TransmitByte \/ EndTransmit \/ ReceiveByte \/ UNCHANGED vars
      BY <3>2 DEF TransmitByte, EndTransmit, ReceiveByte, vars
    <3>3. QED
      BY <3>1, <3>2, <2>2 DEF Next, SendMsg
  <2>4. QED
    BY <2>1, <2>3
<1>2. CASE pc[h] # "hung"
  <2>1. \/ CheckState(h) /\ gState # "READY"
        \/ TakeLock(h) /\ halLock
    <3>1. ASSUME NEW t \in Tasks, Call(t) \/ Spin(t) \/ StartTransfer(t)
                                  \/ EnableTXE(t) \/ AwaitEnd(t)
          PROVE  FALSE
      BY <1>2, <3>1 DEF Call, Spin, StartTransfer, EnableTXE, AwaitEnd
    <3>2. ASSUME TransmitByte \/ EndTransmit \/ ReceiveByte \/ UNCHANGED vars
          PROVE  FALSE
      BY <1>2, <3>2 DEF TransmitByte, EndTransmit, ReceiveByte, vars
    <3>3. ASSUME NEW t \in Tasks, CheckState(t)
          PROVE  t = h /\ gState # "READY"
      BY <1>2, <3>3 DEF CheckState, Busy
    <3>4. ASSUME NEW t \in Tasks, TakeLock(t)
          PROVE  t = h /\ halLock
      BY <1>2, <3>4 DEF TakeLock, Busy
    <3>5. QED
      BY <3>1, <3>2, <3>3, <3>4 DEF Next, SendMsg
  <2>2. /\ pc[h] \in {"check", "lock"} /\ Runs(h)
        /\ \A u \in Tasks \ {h} : pc'[u] = pc[u]
    BY <2>1 DEF CheckState, TakeLock, Busy
  <2>3. PICK s \in Tasks : pc[s] \in {"start", "enable", "wait"}
    BY <2>1 DEF PreemptInv, LockInv, TransferInv
  <2>4. Prio[s] < Prio[h]
    <3>1. s # h /\ pc[s] # "idle"
      BY <2>2, <2>3
    <3>2. ~(Prio[s] > Prio[h]) /\ Prio[s] # Prio[h]
      BY <2>2, <3>1 DEF Runs, DistinctPriorities
    <3>3. Prio[s] \in Nat /\ Prio[h] \in Nat
      OBVIOUS
    <3>4. QED
      BY <3>2, <3>3
  <2>5. QED
    BY <2>2, <2>3, <2>4
<1>3. QED
  BY <1>1, <1>2

\* The invariant behind both theorems.
LEMMA Preemption == ASSUME DistinctPriorities PROVE Spec => []PreemptInv
<1>1. Init => PreemptInv
  BY DEF Init, PreemptInv, LockInv, TransferInv, PendingInv, WireInv
<1>2. TypeOK /\ PreemptInv /\ [Next]_vars => PreemptInv'
  BY LockStep, TransferStep, PendingStep, WireStep DEF PreemptInv
<1>3. QED
  BY <1>1, <1>2, TypeCorrect, PTL DEF Spec

\* A message reaches the line in one piece, however its sender is preempted,
\* among any number of senders of distinct priorities: the gState test of
\* HAL_UART_Transmit_IT and the fixed priorities of main.c are enough for that.
THEOREM Whole == ASSUME DistinctPriorities PROVE Spec => []NotInterleaved
<1>1. Init => NotInterleaved
  BY DEF Init, NotInterleaved
<1>2. TypeOK /\ PreemptInv /\ NotInterleaved /\ [Next]_vars => NotInterleaved'
  BY WireStep
<1>3. QED
  BY <1>1, <1>2, TypeCorrect, Preemption, PTL DEF Spec

\* A sender that hangs in ERR_HANDLER_ASSERT has below it the task it
\* preempted, which it keeps from ever finishing.
THEOREM HangExplained == ASSUME DistinctPriorities PROVE Spec => []HangIsPreemption
<1>1. Init => HangIsPreemption
  BY DEF Init, HangIsPreemption
<1>2. TypeOK /\ PreemptInv /\ HangIsPreemption /\ [Next]_vars => HangIsPreemption'
  BY HangStep
<1>3. QED
  BY <1>1, <1>2, TypeCorrect, Preemption, PTL DEF Spec

-----------------------------------------------------------------------------
(* The end of a call *)

\* How many steps of its task and of the transmit interrupts the call of t needs.
CallRank(t) ==
  CASE pc[t] \in {"idle", "hung"}         -> 0
    [] pc[t] = "spin"                     -> MsgLen + 8
    [] pc[t] = "check"                    -> MsgLen + 7
    [] pc[t] = "lock"                     -> MsgLen + 6
    [] pc[t] = "start"                    -> MsgLen + 5
    [] pc[t] = "enable"                   -> MsgLen + 4
    [] pc[t] = "wait" /\ irq = "txe"      -> left + 3
    [] pc[t] = "wait" /\ irq = "tc"       -> 2
    [] pc[t] = "wait" /\ irq = "off"      -> 1

\* As long as calls do not overlap, every step of the port brings the call under
\* way nearer to its end; reception does not put it off.
CallNears(t) ==
  ~overlapped' /\ pc[t] # "idle" =>
    IF ReceiveByte THEN CallRank(t)' = CallRank(t) ELSE CallRank(t)' < CallRank(t)

CallsNearEnd == [][\A t \in Tasks : CallNears(t)]_vars

\* TxXferCount is never more than the length of a message.
LeftFits == left <= MsgLen

\* One step keeps LeftFits.
LEMMA LeftStep == TypeOK /\ LeftFits /\ [Next]_vars => LeftFits'
<1> SUFFICES ASSUME TypeOK, LeftFits, [Next]_vars PROVE LeftFits'
  OBVIOUS
<1> USE DEF LeftFits, hal
<1>1. CASE TransmitByte
  BY <1>1 DEF TransmitByte, TypeOK
<1>2. ASSUME NEW t \in Tasks, StartTransfer(t) PROVE LeftFits'
  BY <1>2 DEF StartTransfer
<1>3. ASSUME NEW t \in Tasks,
             Call(t) \/ Spin(t) \/ CheckState(t) \/ TakeLock(t) \/ EnableTXE(t) \/ AwaitEnd(t)
      PROVE  LeftFits'
  BY <1>3 DEF Call, Spin, CheckState, TakeLock, EnableTXE, AwaitEnd, Busy
<1>4. CASE EndTransmit \/ ReceiveByte \/ UNCHANGED vars
  BY <1>4 DEF EndTransmit, ReceiveByte, vars
<1> QED BY <1>1, <1>2, <1>3, <1>4 DEF Next, SendMsg

\* Whatever the message length and however many bytes are received meanwhile, a
\* serialised call of UartN_SendMsg or fputc is over after MsgLen + 8 steps of its
\* task and the transmit interrupts (uart6.c:52-70).
THEOREM CallsEnd ==
  Spec => [](~overlapped => \A t \in Tasks : CallRank(t) \in 0 .. MsgLen + 8) /\ CallsNearEnd
<1> USE DEF hal
<1>1. TypeOK /\ SerialInv /\ LeftFits =>
        (~overlapped => \A t \in Tasks : CallRank(t) \in 0 .. MsgLen + 8)
  <2> SUFFICES ASSUME TypeOK, SerialInv, LeftFits, ~overlapped, NEW t \in Tasks
               PROVE  CallRank(t) \in 0 .. MsgLen + 8
    OBVIOUS
  <2>1. pc[t] \in Places /\ PortAt(t) /\ MsgLen \in Nat /\ MsgLen > 0
    BY DEF TypeOK, SerialInv
  <2>2. CASE pc[t] = "wait"
    <3>1. left \in 0 .. MsgLen /\ irq \in {"txe", "tc", "off"}
      BY <2>1, <2>2 DEF PortAt, Underway, LeftFits, TypeOK
    <3> QED BY <2>1, <2>2, <3>1 DEF CallRank
  <2>3. CASE pc[t] # "wait"
    BY <2>1, <2>3 DEF Places, CallRank
  <2> QED BY <2>2, <2>3
<1>2. TypeOK /\ SerialInv /\ [Next]_vars => [\A t \in Tasks : CallNears(t)]_vars
  <2> SUFFICES ASSUME TypeOK, SerialInv, Next, NEW t \in Tasks, ~overlapped', pc[t] # "idle"
               PROVE  IF ReceiveByte THEN CallRank(t)' = CallRank(t) ELSE CallRank(t)' < CallRank(t)
    BY DEF CallNears
  <2>1. CASE ReceiveByte
    BY <2>1 DEF ReceiveByte, CallRank
  <2>2. ASSUME ~ReceiveByte PROVE CallRank(t)' < CallRank(t)
    <3>1. /\ ~overlapped /\ PortAt(t) /\ MsgLen \in Nat /\ MsgLen > 0 /\ left \in Int
          /\ \A s \in Tasks : pc[s] # "idle" => s = t
          /\ pc \in [Tasks -> Places]
      <4>1. ~overlapped
        BY DEF Next, Call, SendMsg, Spin, CheckState, TakeLock, StartTransfer, EnableTXE, AwaitEnd, Busy,
               TransmitByte, EndTransmit, ReceiveByte
      <4> QED BY <4>1 DEF SerialInv, TypeOK
    <3>2. ASSUME NEW s \in Tasks PROVE ~ Call(s)
      BY DEF Call
    <3>3. ASSUME NEW s \in Tasks, SendMsg(s) PROVE s = t
      BY <3>1, <3>3 DEF SendMsg, Spin, CheckState, TakeLock, StartTransfer, EnableTXE, AwaitEnd, At
    <3>4. CASE Spin(t) \/ CheckState(t) \/ TakeLock(t)
      BY <3>1, <3>4 DEF Spin, CheckState, TakeLock, At, Goto, PortAt, Quiet, CallRank
    <3>5. CASE StartTransfer(t)
      BY <3>1, <3>5 DEF StartTransfer, At, Goto, CallRank
    <3>6. CASE EnableTXE(t)
      BY <3>1, <3>6 DEF EnableTXE, At, Goto, PortAt, CallRank
    <3>7. CASE AwaitEnd(t)
      BY <3>1, <3>7 DEF AwaitEnd, At, Goto, PortAt, Underway, CallRank
    <3>8. CASE TransmitByte
      <4>1. pc[t] = "wait" /\ irq = "txe" /\ left > 0
        BY <3>1, <3>8 DEF TransmitByte, PortAt, Quiet, Underway, Places
      <4>2. pc' = pc /\ left' = left - 1 /\ (left = 1 => irq' = "tc") /\ (left # 1 => irq' = "txe")
        BY <3>8 DEF TransmitByte
      <4> QED BY <3>1, <4>1, <4>2 DEF CallRank
    <3>9. CASE EndTransmit
      <4>1. pc[t] = "wait" /\ irq = "tc"
        BY <3>1, <3>9 DEF EndTransmit, PortAt, Quiet, Underway, Places
      <4>2. pc' = pc /\ irq' = "off"
        BY <3>9 DEF EndTransmit
      <4> QED BY <4>1, <4>2 DEF CallRank
    <3>10. \/ SendMsg(t) \/ TransmitByte \/ EndTransmit
      BY <2>2, <3>2, <3>3 DEF Next
    <3> QED BY <3>4, <3>5, <3>6, <3>7, <3>8, <3>9, <3>10 DEF SendMsg
  <2> QED BY <2>1, <2>2
<1>3. Init => SerialInv /\ LeftFits
  BY DEF Init, SerialInv, PortAt, Quiet, Underway, LeftFits
<1> QED BY <1>1, <1>2, <1>3, LeftStep, SerialStep, TypeCorrect, PTL DEF Spec, CallsNearEnd
=============================================================================
