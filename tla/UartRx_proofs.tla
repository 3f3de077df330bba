--------------------------- MODULE UartRx_proofs ----------------------------
(***************************************************************************)
(* Proofs about the receive ring for every ring size, word size and number *)
(* of arriving bytes: what a slice holds, what may be missing between two  *)
(* slices, and when the ring is the exact stream its readers rely on.      *)
(***************************************************************************)
EXTENDS UartRx, TLAPS

USE NAssumption, WordAssumption, MaxAssumption

-----------------------------------------------------------------------------
\* One step keeps the types.
LEMMA TypeNext == TypeOK /\ [Next]_vars => TypeOK'
<1> SUFFICES ASSUME TypeOK, [Next]_vars PROVE TypeOK'
  OBVIOUS
<1> USE DEF TypeOK, Slots
<1>1. CASE RxCpltCallback
  BY <1>1 DEF RxCpltCallback, RearmedAt, NextPoint, Counted, regs
<1>2. CASE TransmitLock
  BY <1>2 DEF TransmitLock, ring, regs, hist
<1>3. CASE Compare
  BY <1>3 DEF Compare, ring, hist
<1>4. CASE Slice
  BY <1>4 DEF Slice, Minus, ring, hist
<1>5. CASE Reload
  BY <1>5 DEF Reload, ring, hist
<1>6. CASE Store
  BY <1>6 DEF Store, Left, Minus, ring, regs, hist
<1>7. CASE Copy
  BY <1>7 DEF Copy, InBounds, ring, regs, hist
<1>8. CASE UNCHANGED vars
  BY <1>8 DEF vars, ring, regs, hist
<1>9. QED
  BY <1>1, <1>2, <1>3, <1>4, <1>5, <1>6, <1>7, <1>8 DEF Next, RcvMsg

\* Indices and counters stay in their ranges under every interleaving of the
\* interrupt with Uart6_RcvMsg, the torn ones included.
THEOREM TypeCorrect == Spec => []TypeOK
<1>1. Init => TypeOK
  <2> SUFFICES ASSUME Init PROVE TypeOK
    OBVIOUS
  <2>1. 0 \in Slots /\ 0 \in 0 .. MaxBytes /\ 0 \in 0 .. WORD - 1 /\ 0 \in 0 .. 0 /\ 0 \in Int
    BY DEF Slots
  <2>2. aRxBuffer \in [Slots -> 0 .. MaxBytes]
    BY <2>1 DEF Init
  <2>3. QED
    BY <2>1, <2>2 DEF Init, TypeOK
<1>2. QED
  BY <1>1, TypeNext, PTL DEF Spec

-----------------------------------------------------------------------------
\* Strengthening of SliceInBounds: what the registers of Uart6_RcvMsg know
\* about the ring at each place, as long as the slice was not torn.
BoundsInv ==
  ~torn =>
    /\ unReadBytes <= N
    /\ pc = "slice" => (wrap <=> unReadBytes > bufferPoint)
    /\ pc \in {"reload", "store", "copy"} => InBounds
    /\ pc = "reload" => len <= unReadBytes
    /\ pc = "store" => len <= reg /\ reg <= unReadBytes

\* One step keeps BoundsInv.
LEMMA BoundsStep == TypeOK /\ BoundsInv /\ [Next]_vars => BoundsInv'
<1> SUFFICES ASSUME TypeOK, BoundsInv, [Next]_vars, ~torn' PROVE BoundsInv'
  BY DEF BoundsInv
<1> USE DEF TypeOK, BoundsInv, InBounds, Slots
<1>1. CASE RxCpltCallback
  <2>1. ~torn /\ pc # "slice" /\ pc' = pc
    BY <1>1 DEF RxCpltCallback, RearmedAt
  <2>2. unReadBytes' \in Nat /\ unReadBytes <= unReadBytes' /\ unReadBytes' <= N
    BY <1>1, <2>1 DEF RxCpltCallback, RearmedAt, Counted
  <2>3. QED
    BY <1>1, <2>1, <2>2 DEF RxCpltCallback, RearmedAt, regs
<1>2. CASE TransmitLock
  BY <1>2 DEF TransmitLock, ring, regs, hist
<1>3. CASE Compare
  BY <1>3 DEF Compare, ring, hist
<1>4. CASE Slice
  BY <1>4 DEF Slice, Minus, ring, hist
<1>5. CASE Reload
  BY <1>5 DEF Reload, ring, hist
<1>6. CASE Store
  BY <1>6 DEF Store, Left, Minus, ring, regs, hist
<1>7. CASE Copy
  BY <1>7 DEF Copy, ring, regs, hist
<1>8. CASE UNCHANGED vars
  BY <1>8 DEF vars, ring, regs, hist
<1>9. QED
  BY <1>1, <1>2, <1>3, <1>4, <1>5, <1>6, <1>7, <1>8 DEF Next, RcvMsg

\* The slice Uart6_RcvMsg hands out lies in aRxBuffer for every ring size,
\* wherever interrupts fall other than between comparison and slice.
THEOREM SliceSafe == Spec => []SliceInBounds
<1>1. Init => BoundsInv
  BY DEF Init, BoundsInv, InBounds
<1>2. BoundsInv => SliceInBounds
  BY DEF BoundsInv, SliceInBounds
<1>3. QED
  BY <1>1, <1>2, BoundsStep, TypeCorrect, PTL DEF Spec

-----------------------------------------------------------------------------
\* Arrival number of the byte in slot i, if the slot was ever written.
Arrival(i) ==
  rcvd - bufferPoint + i + 1 - (IF i < bufferPoint THEN 0 ELSE N)

\* The ring holds the last N bytes that arrived.
ContentsInv ==
  /\ TargetIsPoint
  /\ bufferPoint <= rcvd
  /\ \A i \in Slots :
       aRxBuffer[i] = IF Arrival(i) > 0 THEN Arrival(i) ELSE 0

\* What the ring holds does not depend on the reading task.
LEMMA ContentsStep == TypeOK /\ ContentsInv /\ [Next]_vars => ContentsInv'
<1> SUFFICES ASSUME TypeOK, ContentsInv, [Next]_vars PROVE ContentsInv'
  OBVIOUS
<1>1. CASE RxCpltCallback
  <2>1. /\ rxTarget = bufferPoint /\ rcvd' = rcvd + 1
        /\ bufferPoint' = NextPoint
        /\ aRxBuffer' = [aRxBuffer EXCEPT ![bufferPoint] = rcvd + 1]
        /\ bufferPoint \in Slots /\ bufferPoint <= rcvd /\ rcvd \in Nat
    BY <1>1 DEF RxCpltCallback, RearmedAt, ContentsInv, TargetIsPoint, TypeOK
  <2>2. TargetIsPoint'
    BY <1>1 DEF RxCpltCallback, RearmedAt, TargetIsPoint, TypeOK
  <2>3. bufferPoint' <= rcvd'
    BY <2>1 DEF NextPoint, Slots
  <2>4. ASSUME NEW i \in Slots
        PROVE  aRxBuffer'[i] = IF Arrival(i)' > 0 THEN Arrival(i)' ELSE 0
    <3>1. i = bufferPoint => aRxBuffer'[i] = rcvd + 1 /\ Arrival(i)' = rcvd + 1
      BY <2>1, <2>4 DEF TypeOK, Arrival, NextPoint, Slots
    <3>2. i # bufferPoint =>
            aRxBuffer'[i] = aRxBuffer[i] /\ Arrival(i)' = Arrival(i)
      BY <2>1, <2>4 DEF TypeOK, Arrival, NextPoint, Slots
    <3>3. QED
      BY <2>1, <2>4, <3>1, <3>2 DEF ContentsInv
  <2>5. QED
    BY <2>2, <2>3, <2>4 DEF ContentsInv
<1>2. CASE RcvMsg \/ TransmitLock \/ UNCHANGED vars
  <2>1. UNCHANGED <<aRxBuffer, bufferPoint, rxTarget, rxArmed, rcvd>>
    BY <1>2 DEF RcvMsg, Compare, Slice, Reload, Store, Left, Copy, TransmitLock,
                vars, ring, hist
  <2>2. QED
    BY <2>1 DEF ContentsInv, TargetIsPoint, Arrival
<1>3. QED
  BY <1>1, <1>2 DEF Next

\* The slice being prepared starts with the oldest unread byte.
SliceIsOldest ==
  \A i \in Slots : i < len => aRxBuffer[ptr + i] = rcvd - unReadBytes + 1 + i

\* Strengthening of SliceInOrder and Accounting.  Between the load and the
\* store of unReadBytes the interrupts in "lost" are still counted in
\* unReadBytes; the store drops them.
OrderInv ==
  Clean =>
    /\ last + unReadBytes <= rcvd
    /\ pc \in {"idle", "slice", "reload"} => rcvd <= last + unReadBytes + lost
    /\ pc \in {"reload", "store"} => SliceIsOldest
    /\ pc = "store" => rcvd <= last + reg + lost
    /\ pc = "copy" =>
         IF len = 0
         THEN rcvd <= last + unReadBytes + lost
         ELSE /\ aRxBuffer[ptr] > last
              /\ aRxBuffer[ptr] + len - 1 + unReadBytes <= rcvd
              /\ rcvd <= aRxBuffer[ptr] + len - 1 + unReadBytes + lost
              /\ \A i \in Slots :
                   i < len => aRxBuffer[ptr + i] = aRxBuffer[ptr] + i

LEMMA OrderStep ==
  TypeOK /\ BoundsInv /\ ContentsInv /\ OrderInv /\ [Next]_vars => OrderInv'
<1> SUFFICES ASSUME TypeOK, BoundsInv, ContentsInv, OrderInv, [Next]_vars,
                    Clean'
             PROVE  OrderInv'
  BY DEF OrderInv
<1>1. CASE RxCpltCallback
  <2>1. /\ Clean /\ pc # "slice" /\ rcvd - last < N
        /\ rcvd' = rcvd + 1 /\ UNCHANGED <<pc, len, ptr, reg, last>>
        /\ lost' = (IF pc = "store" THEN lost + 1 ELSE lost)
    <3>1. ~torn /\ ~lapped /\ pc # "slice" /\ ~(rcvd - last >= N)
      BY <1>1 DEF RxCpltCallback, RearmedAt, Clean
    <3>2. rcvd - last < N
      BY <3>1 DEF TypeOK
    <3>3. QED
      BY <1>1, <3>1, <3>2 DEF RxCpltCallback, RearmedAt, Clean, regs
  <2>2. last + unReadBytes <= rcvd /\ unReadBytes < N
    <3>1. last + unReadBytes <= rcvd
      BY <2>1 DEF OrderInv
    <3>2. QED
      BY <2>1, <3>1 DEF TypeOK
  <2>3. unReadBytes' = unReadBytes + 1
    BY <1>1, <2>2 DEF RxCpltCallback, RearmedAt, Counted, TypeOK
  <2>4. ASSUME NEW i \in Slots, aRxBuffer[i] > last
        PROVE  aRxBuffer'[i] = aRxBuffer[i]
    <3>1. /\ aRxBuffer' = [aRxBuffer EXCEPT ![bufferPoint] = rcvd + 1]
          /\ bufferPoint \in Slots
      BY <1>1 DEF RxCpltCallback, RearmedAt, ContentsInv, TargetIsPoint, TypeOK
    <3>2. i # bufferPoint
      BY <2>1, <2>4 DEF ContentsInv, Arrival, TypeOK, Slots
    <3>3. QED
      BY <3>1, <3>2, <2>4 DEF TypeOK
  <2>5. pc \in {"reload", "store"} => SliceIsOldest'
    <3> SUFFICES ASSUME pc \in {"reload", "store"}, NEW i \in Slots, i < len
                 PROVE  aRxBuffer'[ptr + i] = rcvd - unReadBytes + 1 + i
      BY <2>1, <2>3 DEF SliceIsOldest, TypeOK
    <3>1. ptr + i \in Slots
      BY <2>1 DEF BoundsInv, InBounds, Clean, TypeOK, Slots
    <3>2. aRxBuffer[ptr + i] = rcvd - unReadBytes + 1 + i
      BY <2>1 DEF OrderInv, SliceIsOldest
    <3>3. QED
      BY <2>2, <2>4, <3>1, <3>2 DEF TypeOK, Slots
  <2>6. ASSUME pc = "copy", len # 0
        PROVE  \A i \in Slots : i < len => aRxBuffer'[ptr + i] = aRxBuffer[ptr + i]
    <3> SUFFICES ASSUME NEW i \in Slots, i < len
                 PROVE  aRxBuffer'[ptr + i] = aRxBuffer[ptr + i]
      OBVIOUS
    <3>1. ptr + i \in Slots /\ ptr \in Slots
      BY <2>1, <2>6 DEF BoundsInv, InBounds, Clean, TypeOK, Slots
    <3>2. aRxBuffer[ptr] > last /\ aRxBuffer[ptr + i] = aRxBuffer[ptr] + i
      BY <2>1, <2>6 DEF OrderInv
    <3>3. QED
      BY <2>4, <3>1, <3>2 DEF TypeOK, Slots
  <2>7. CASE pc = "copy" /\ len # 0
    <3>1. 0 \in Slots /\ 0 < len /\ ptr + 0 = ptr
      BY <2>7 DEF Slots, TypeOK
    <3>2. aRxBuffer'[ptr] = aRxBuffer[ptr]
      BY <2>6, <2>7, <3>1
    <3>3. ptr \in Slots
      BY <2>1, <2>7, <3>1 DEF BoundsInv, InBounds, Clean, TypeOK, Slots
    <3>4. aRxBuffer[ptr] \in Int
      BY <3>3 DEF TypeOK
    <3>5. QED
      BY <2>1, <2>2, <2>3, <2>6, <2>7, <3>2, <3>4 DEF OrderInv, TypeOK
  <2>8. CASE ~(pc = "copy" /\ len # 0)
    BY <2>1, <2>2, <2>3, <2>5, <2>8 DEF OrderInv, TypeOK
  <2>9. QED
    BY <2>7, <2>8
<1>2. CASE TransmitLock
  BY <1>2 DEF TransmitLock, ring, regs, hist, OrderInv, Clean, SliceIsOldest
<1>3. CASE Compare
  BY <1>3 DEF Compare, ring, hist, OrderInv, Clean
<1>4. CASE Slice
  <2>1. /\ Clean /\ pc = "slice" /\ (wrap <=> unReadBytes > bufferPoint)
        /\ unReadBytes <= N /\ last + unReadBytes <= rcvd
        /\ rcvd <= last + unReadBytes + lost
    BY <1>4 DEF Slice, hist, Clean, BoundsInv, OrderInv
  <2>2. ASSUME NEW i \in Slots, i < len'
        PROVE  aRxBuffer'[ptr' + i] = rcvd - unReadBytes + 1 + i
    <3>1. /\ ptr' + i \in Slots
          /\ Arrival(ptr' + i) = rcvd - unReadBytes + 1 + i
      BY <1>4, <2>1, <2>2 DEF Slice, Minus, Arrival, TypeOK, Slots
    <3>2. rcvd - unReadBytes + 1 + i > 0
      BY <2>1, <2>2 DEF TypeOK, Slots
    <3>3. aRxBuffer' = aRxBuffer
      BY <1>4 DEF Slice, ring
    <3>4. QED
      BY <3>1, <3>2, <3>3 DEF ContentsInv
  <2>3. pc' = "reload" /\ UNCHANGED <<rcvd, unReadBytes, last, lost>>
    BY <1>4 DEF Slice, hist
  <2>4. SliceIsOldest'
    BY <2>2, <2>3 DEF SliceIsOldest
  <2>5. QED
    BY <2>1, <2>3, <2>4 DEF OrderInv
<1>5. CASE Reload
  BY <1>5 DEF Reload, ring, hist, OrderInv, Clean, SliceIsOldest
<1>6. CASE Store
  <2>1. /\ Clean /\ pc = "store" /\ pc' = "copy"
        /\ UNCHANGED <<aRxBuffer, len, ptr, rcvd, last, lost>>
        /\ unReadBytes' = Minus(reg, len)
    BY <1>6 DEF Store, Left, ring, regs, hist, Clean
  <2>2. /\ len <= reg /\ reg <= unReadBytes /\ InBounds
        /\ last + unReadBytes <= rcvd /\ rcvd <= last + reg + lost
        /\ SliceIsOldest
    BY <2>1 DEF OrderInv, BoundsInv, Clean
  <2>3. unReadBytes' = reg - len
    BY <2>1, <2>2 DEF Minus, TypeOK
  <2>4. CASE len = 0
    BY <2>1, <2>2, <2>3, <2>4 DEF OrderInv, TypeOK
  <2>5. CASE len > 0
    <3>1. 0 \in Slots /\ ptr + 0 = ptr
      BY DEF Slots, TypeOK
    <3>2. aRxBuffer[ptr] = rcvd - unReadBytes + 1
      <4>1. aRxBuffer[ptr + 0] = rcvd - unReadBytes + 1 + 0
        BY <2>2, <2>5, <3>1 DEF SliceIsOldest
      <4>2. QED
        BY <3>1, <4>1 DEF TypeOK
    <3>3. \A i \in Slots : i < len => aRxBuffer[ptr + i] = aRxBuffer[ptr] + i
      BY <2>2, <3>2 DEF SliceIsOldest, TypeOK
    <3>4. QED
      BY <2>1, <2>2, <2>3, <2>5, <3>2, <3>3 DEF OrderInv, TypeOK
  <2>6. QED
    BY <2>4, <2>5 DEF TypeOK
<1>7. CASE Copy
  <2>1. /\ Clean /\ pc = "copy" /\ InBounds /\ pc' = "idle"
        /\ last' = (IF len > 0 THEN aRxBuffer[ptr + len - 1] ELSE last)
        /\ UNCHANGED <<unReadBytes, rcvd, lost>>
    BY <1>7 DEF Copy, ring, regs, hist, Clean, BoundsInv
  <2>2. CASE len = 0
    BY <2>1, <2>2 DEF OrderInv, TypeOK
  <2>3. CASE len > 0
    <3>1. len - 1 \in Slots /\ ptr + (len - 1) = ptr + len - 1
      BY <2>1, <2>3 DEF InBounds, Slots, TypeOK
    <3>2. last' = aRxBuffer[ptr] + (len - 1)
      <4>1. /\ len # 0 /\ len - 1 < len
            /\ last' = aRxBuffer[ptr + (len - 1)]
        BY <2>1, <2>3, <3>1 DEF TypeOK
      <4>2. \A i \in Slots : i < len => aRxBuffer[ptr + i] = aRxBuffer[ptr] + i
        BY <2>1, <4>1 DEF OrderInv
      <4>3. QED
        BY <3>1, <4>1, <4>2
    <3>3. ptr \in Slots
      BY <2>1, <2>3 DEF InBounds, Slots, TypeOK
    <3>4. aRxBuffer[ptr] \in Int
      BY <3>3 DEF TypeOK
    <3>5. QED
      BY <2>1, <2>3, <3>2, <3>4 DEF OrderInv, TypeOK
  <2>4. QED
    BY <2>2, <2>3 DEF TypeOK
<1>8. CASE UNCHANGED vars
  BY <1>8 DEF vars, ring, regs, hist, OrderInv, Clean, SliceIsOldest
<1>9. QED
  BY <1>1, <1>2, <1>3, <1>4, <1>5, <1>6, <1>7, <1>8 DEF Next, RcvMsg

LEMMA Invariants == Spec => [](BoundsInv /\ ContentsInv /\ OrderInv)
<1>1. Init => BoundsInv /\ ContentsInv /\ OrderInv
  <2> SUFFICES ASSUME Init PROVE BoundsInv /\ ContentsInv /\ OrderInv
    OBVIOUS
  <2>1. BoundsInv /\ OrderInv
    BY DEF Init, BoundsInv, OrderInv
  <2>2. ContentsInv
    BY DEF Init, ContentsInv, TargetIsPoint, Arrival, Slots
  <2>3. QED
    BY <2>1, <2>2
<1>2. QED
  BY <1>1, BoundsStep, ContentsStep, OrderStep, TypeCorrect, PTL DEF Spec

\* For every ring size: the caller copies a gap free run of new bytes, bytes are
\* only lost to an interrupt inside "unReadBytes -= len", and reception is armed
\* for the slot bufferPoint names (uart6.c:74-91, 187-196).
THEOREM StreamSafe == Spec => []StreamExact
<1>1. OrderInv => SliceInOrder
  BY DEF OrderInv, SliceInOrder, Slots
<1>2. OrderInv => Accounting
  BY DEF OrderInv, Accounting
<1>3. ContentsInv => TargetIsPoint
  BY DEF ContentsInv
<1>4. QED
  BY <1>1, <1>2, <1>3, Invariants, PTL DEF StreamExact

-----------------------------------------------------------------------------
(* What a slice leaves out, and the stream the next layer reads *)

\* Between the last byte the caller has and the first of the slice it is about
\* to copy at most the bytes are missing whose interrupt fell between the load
\* and the store of unReadBytes.
GapExplained == Clean /\ pc = "copy" /\ len > 0 => aRxBuffer[ptr] <= last + lost + 1

\* No interrupt fell into the two places where it does harm.
Exact == Clean /\ lost = 0

\* While no interrupt did harm, the caller gets the very next len bytes.
SlicesJoin ==
  [][Copy /\ Exact => /\ last' = last + len
                      /\ \A i \in Slots : i < len => aRxBuffer[ptr + i] = last + 1 + i]_vars

\* GapExplained is inductive beside the earlier invariants.
LEMMA GapStep ==
  TypeOK /\ BoundsInv /\ ContentsInv /\ OrderInv /\ GapExplained /\ [Next]_vars => GapExplained'
<1> SUFFICES ASSUME TypeOK, BoundsInv, ContentsInv, OrderInv, GapExplained, [Next]_vars,
                    Clean', pc' = "copy", len' > 0
             PROVE  aRxBuffer'[ptr'] <= last' + lost' + 1
  BY DEF GapExplained
<1>1. CASE RxCpltCallback
  <2>1. /\ Clean /\ pc = "copy" /\ len > 0 /\ UNCHANGED <<ptr, last, lost, len>>
    BY <1>1 DEF RxCpltCallback, RearmedAt, Clean, regs
  <2>2. /\ ptr \in Slots /\ aRxBuffer[ptr] > last /\ rcvd - last < N
    <3>1. ptr \in Slots
      BY <2>1 DEF BoundsInv, InBounds, Clean, TypeOK, Slots
    <3>2. aRxBuffer[ptr] > last
      BY <2>1 DEF OrderInv, TypeOK
    <3>3. ~(rcvd - last >= N)
      BY <1>1 DEF RxCpltCallback, RearmedAt, Clean
    <3> QED BY <3>1, <3>2, <3>3 DEF TypeOK
  <2>3. ptr # bufferPoint /\ aRxBuffer' = [aRxBuffer EXCEPT ![bufferPoint] = rcvd + 1]
    BY <1>1, <2>2 DEF RxCpltCallback, RearmedAt, ContentsInv, TargetIsPoint, Arrival, TypeOK, Slots
  <2>4. aRxBuffer'[ptr'] = aRxBuffer[ptr] /\ aRxBuffer[ptr] <= last + lost + 1
    BY <2>1, <2>2, <2>3 DEF GapExplained, TypeOK
  <2> QED BY <2>1, <2>4
<1>2. CASE TransmitLock
  BY <1>2 DEF TransmitLock, ring, regs, hist, GapExplained, Clean
<1>3. CASE Store
  <2>1. /\ Clean /\ pc = "store" /\ len > 0
        /\ UNCHANGED <<aRxBuffer, len, ptr, last, lost>>
    BY <1>3 DEF Store, ring, regs, hist, Clean
  <2>2. reg <= unReadBytes /\ rcvd <= last + reg + lost /\ SliceIsOldest
    BY <2>1 DEF OrderInv, BoundsInv, Clean
  <2>3. aRxBuffer[ptr] = rcvd - unReadBytes + 1
    <3>1. 0 \in Slots /\ ptr + 0 = ptr
      BY DEF Slots, TypeOK
    <3>2. aRxBuffer[ptr + 0] = rcvd - unReadBytes + 1 + 0
      BY <2>1, <2>2, <3>1 DEF SliceIsOldest
    <3> QED BY <3>1, <3>2 DEF TypeOK
  <2> QED BY <2>1, <2>2, <2>3 DEF TypeOK
<1>4. CASE UNCHANGED vars
  BY <1>4 DEF vars, ring, regs, hist, GapExplained, Clean
<1>5. CASE Compare \/ Slice \/ Reload \/ Copy
  BY <1>5 DEF Compare, Slice, Reload, Copy
<1> QED BY <1>1, <1>2, <1>3, <1>4, <1>5 DEF Next, RcvMsg

\* A gap between two slices is no longer than the number of interrupts that fell
\* into "unReadBytes -= len", for every ring size (uart6.c:81-90, 187-196).
THEOREM GapsExplained == Spec => []GapExplained
<1>1. Init => GapExplained
  BY DEF Init, GapExplained
<1> QED BY <1>1, GapStep, Invariants, TypeCorrect, PTL DEF Spec

\* What an exact copy hands over.
LEMMA CopyIsNext ==
  ASSUME TypeOK, BoundsInv, OrderInv, GapExplained, Copy, Exact
  PROVE  /\ last' = last + len
         /\ \A i \in Slots : i < len => aRxBuffer[ptr + i] = last + 1 + i
<1>1. /\ Clean /\ lost = 0 /\ pc = "copy" /\ InBounds
      /\ last' = (IF len > 0 THEN aRxBuffer[ptr + len - 1] ELSE last)
  BY DEF Copy, Exact, Clean, BoundsInv
<1>2. CASE len = 0
  BY <1>1, <1>2 DEF TypeOK, Slots
<1>3. CASE len > 0
  <2>1. ptr \in Slots /\ len - 1 \in Slots /\ ptr + (len - 1) = ptr + len - 1
    BY <1>1, <1>3 DEF InBounds, Slots, TypeOK
  <2>2. aRxBuffer[ptr] = last + 1
    BY <1>1, <1>3, <2>1 DEF OrderInv, GapExplained, TypeOK
  <2>3. \A i \in Slots : i < len => aRxBuffer[ptr + i] = last + 1 + i
    <3>1. \A i \in Slots : i < len => aRxBuffer[ptr + i] = aRxBuffer[ptr] + i
      BY <1>1, <1>3 DEF OrderInv, TypeOK
    <3> QED BY <2>2, <3>1
  <2>4. last' = last + 1 + (len - 1)
    <3>1. len - 1 < len /\ last' = aRxBuffer[ptr + (len - 1)]
      BY <1>1, <1>3, <2>1 DEF TypeOK
    <3> QED BY <2>1, <2>3, <3>1
  <2> QED BY <2>3, <2>4 DEF TypeOK
<1> QED BY <1>2, <1>3 DEF TypeOK

\* Slice after slice is copied without a gap or an overlap, for every ring size,
\* unless an interrupt did harm (uart6.c:74-91, lm61.c:256-270).
THEOREM SlicesAreJoined == Spec => SlicesJoin
<1>1. TypeOK /\ BoundsInv /\ OrderInv /\ GapExplained /\ [Next]_vars =>
        [Copy /\ Exact => /\ last' = last + len
                         /\ \A i \in Slots : i < len => aRxBuffer[ptr + i] = last + 1 + i]_vars
  BY CopyIsNext
<1> QED BY <1>1, GapsExplained, Invariants, TypeCorrect, PTL DEF Spec, SlicesJoin

Stream == INSTANCE ByteStream WITH arrived <- rcvd, taken <- last, exact <- Exact

\* The receive ring implements the byte stream for every ring size: the reader
\* takes bytes in order and only those that arrived until an interrupt does harm,
\* and every step of the ring is an arrival, a taking or neither.
THEOREM RingIsStream == Spec => Stream!Spec
<1>1. Init => Stream!Init
  BY DEF Init, Stream!Init, Exact, Clean
<1>2. TypeOK /\ BoundsInv /\ OrderInv /\ GapExplained /\ [Next]_vars =>
        [Stream!Next]_Stream!vars
  <2> SUFFICES ASSUME TypeOK, BoundsInv, OrderInv, GapExplained, [Next]_vars
               PROVE  Stream!Next \/ UNCHANGED <<rcvd, last, Exact>>
    BY DEF Stream!vars
  <2>1. CASE RxCpltCallback
    <3>1. rcvd' = rcvd + 1 /\ last' = last /\ rcvd' \in Nat /\ rcvd' > rcvd
      BY <2>1 DEF RxCpltCallback, RearmedAt, TypeOK
    <3>2. (torn => torn') /\ (lapped => lapped') /\ (lost # 0 => lost' # 0)
      BY <2>1 DEF RxCpltCallback, RearmedAt, TypeOK
    <3>3. Exact' => Exact
      BY <3>2 DEF Exact, Clean
    <3>4. Exact \in BOOLEAN /\ Exact' \in BOOLEAN
      BY DEF Exact, Clean
    <3>5. Exact' \in {Exact, FALSE}
      BY <3>3, <3>4
    <3> QED BY <3>1, <3>5 DEF Stream!Next, Stream!Arrive
  <2>2. CASE Copy
    <3>1. UNCHANGED <<rcvd, torn, lapped, lost>>
      BY <2>2 DEF Copy, hist
    <3>2. UNCHANGED <<rcvd, Exact>>
      BY <3>1 DEF Exact, Clean
    <3>3. last' \in Nat
      <4>1. TypeOK'
        BY TypeNext
      <4> QED BY <4>1 DEF TypeOK
    <3>4. Exact => last <= last' /\ last' <= rcvd
      <4> SUFFICES ASSUME Exact PROVE last <= last' /\ last' <= rcvd
        OBVIOUS
      <4>1. last' = last + len /\ \A i \in Slots : i < len => aRxBuffer[ptr + i] = last + 1 + i
        BY <2>2, CopyIsNext
      <4>2. last <= last'
        BY <4>1 DEF TypeOK
      <4>3. CASE len = 0
        BY <4>1, <4>3 DEF OrderInv, Exact, TypeOK
      <4>4. CASE len > 0
        <5>1. pc = "copy" /\ Clean
          BY <2>2 DEF Copy, Exact
        <5>2. ptr \in Slots /\ 0 \in Slots /\ ptr + 0 = ptr
          BY <4>4, <5>1 DEF BoundsInv, InBounds, Clean, TypeOK, Slots
        <5>3. aRxBuffer[ptr] = last + 1
          <6>1. aRxBuffer[ptr + 0] = last + 1 + 0
            BY <4>1, <4>4, <5>2
          <6> QED BY <5>2, <6>1 DEF TypeOK
        <5> QED BY <4>1, <4>4, <5>1, <5>3 DEF OrderInv, TypeOK
      <4> QED BY <4>2, <4>3, <4>4 DEF TypeOK
    <3> QED BY <3>2, <3>3, <3>4 DEF Stream!Next, Stream!Take
  <2>3. CASE TransmitLock \/ Compare \/ Slice \/ Reload \/ Store \/ UNCHANGED vars
    <3>1. UNCHANGED <<rcvd, last, torn, lapped, lost>>
      BY <2>3 DEF TransmitLock, Compare, Slice, Reload, Store, vars, hist
    <3> QED BY <3>1 DEF Exact, Clean
  <2> QED BY <2>1, <2>2, <2>3 DEF Next, RcvMsg
<1> QED BY <1>1, <1>2, GapsExplained, Invariants, TypeCorrect, PTL DEF Spec, Stream!Spec
=============================================================================
