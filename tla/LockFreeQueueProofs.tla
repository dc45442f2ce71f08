------------------------ MODULE LockFreeQueueProofs ------------------------
(***************************************************************************)
(* The safety of the lock-free ring for every capacity, word size and set  *)
(* of messages.                                                            *)
(***************************************************************************)
EXTENDS LockFreeQueue, Integers, SequenceTheorems, TLAPS

\* What the two sides know of each other, which makes OccupancyBound inductive:
\* the producer's view of m_tail lags behind it, so the occupancy it computes is
\* too large but still at most the capacity; the consumer's view of m_head lies
\* between m_tail and m_head; and each side's test still holds when it stores.
Views == /\ Minus(head, tail) <= Minus(head, seenTail)
         /\ Minus(head, seenTail) <= Capacity
         /\ Minus(seenHead, tail) <= Minus(head, tail)
         /\ prod = "publish" => Minus(head, seenTail) < Capacity
         /\ cons = "publish" => seenHead # tail

\* Only messages are popped: every slot between m_tail and m_head was written.
Filled == /\ prod = "test" => value \in Message
          /\ prod = "publish" => storage[Slot(head)] \in Message
          /\ \A i \in Index :
                Minus(i, tail) < Minus(head, tail) => storage[Slot(i)] \in Message
          /\ cons = "publish" => out \in Message

IndInv == TypeOK /\ Views /\ Filled

-----------------------------------------------------------------------------
(* The arithmetic of the constants and of the counters *)

LEMMA Sizes == Capacity \in Nat /\ Capacity >= 2
            /\ WordSize \in Nat /\ WordSize >= 2 * Capacity
<1>1. Capacity \in Nat /\ Capacity >= 2
  BY CapacityAssumption
<1>2. WordSize \in Nat
  BY WordAssumption
<1>3. PICK k \in 2 .. WordSize : WordSize = k * Capacity
  BY WordAssumption
<1>4. k * Capacity >= 2 * Capacity
  BY <1>1, <1>3
<1> QED
  BY <1>1, <1>2, <1>3, <1>4

\* An index keeps its type under the counters' arithmetic.
LEMMA Arithmetic ==
    ASSUME NEW a \in Index, NEW b \in Index
    PROVE  /\ Minus(a, b) \in Index
           /\ Succ(a) \in Index
           /\ Minus(a, a) = 0
           /\ (a # b) => Minus(a, b) > 0
  BY Sizes DEF Index, Minus, Succ

\* A visible value lies between the one last seen and the current one.
LEMMA VisibleIsIndex ==
    ASSUME NEW seen, NEW now, NEW i \in Visible(seen, now)
    PROVE  i \in Index /\ Minus(i, seen) <= Minus(now, seen)
  BY DEF Visible

\* A side whose view moves from `seen' towards the current value `now' of a
\* counter that has not passed h keeps a view between the two.
LEMMA ViewAdvances ==
    ASSUME NEW h \in Index, NEW seen \in Index, NEW now \in Index, NEW i \in Index,
           Minus(h, now) <= Minus(h, seen),
           Minus(i, seen) <= Minus(now, seen)
    PROVE  Minus(h, now) <= Minus(h, i) /\ Minus(h, i) <= Minus(h, seen)
  BY Sizes DEF Index, Minus

\* The same for the consumer, whose view of the head is ahead of its own tail.
LEMMA HeadViewAdvances ==
    ASSUME NEW t \in Index, NEW seen \in Index, NEW now \in Index, NEW i \in Index,
           Minus(seen, t) <= Minus(now, t),
           Minus(i, seen) <= Minus(now, seen)
    PROVE  Minus(i, t) <= Minus(now, t)
  BY Sizes DEF Index, Minus

\* A tail that has not reached h moves one step towards it; every counter ahead
\* of the old tail is as much closer to the new one.
LEMMA TailAdvances ==
    ASSUME NEW t \in Index, NEW h \in Index, h # t
    PROVE  Minus(h, Succ(t)) = Minus(h, t) - 1
  BY Sizes DEF Index, Minus, Succ

-----------------------------------------------------------------------------

LEMMA InitInv == Init => IndInv
<1> SUFFICES ASSUME Init PROVE IndInv
  OBVIOUS
<1>1. TypeOK
  BY Sizes DEF Init, TypeOK, Index
<1>2. Views
  BY Sizes DEF Init, Views, Minus
<1>3. \A i \in Index : ~ (Minus(i, tail) < Minus(head, tail))
  BY Sizes DEF Init, Index, Minus
<1>4. Filled
  BY <1>3 DEF Init, Filled
<1> QED
  BY <1>1, <1>2, <1>4 DEF IndInv

LEMMA NextViews == IndInv /\ [Next]_vars => TypeOK' /\ Views'
<1> SUFFICES ASSUME IndInv, [Next]_vars
             PROVE  TypeOK' /\ Views'
  OBVIOUS
<1> USE Sizes DEF IndInv, TypeOK, Views
<1>1. ASSUME NEW m \in Message, PushLoadTail(m)
      PROVE  TypeOK' /\ Views'
  <2>1. seenTail' \in Index /\ Minus(seenTail', seenTail) <= Minus(tail, seenTail)
    BY <1>1, VisibleIsIndex DEF PushLoadTail
  <2>2. TypeOK'
    BY <1>1, <2>1 DEF PushLoadTail, consumerVars
  <2>3. Minus(head, tail) <= Minus(head, seenTail')
        /\ Minus(head, seenTail') <= Minus(head, seenTail)
    BY <2>1, ViewAdvances
  <2>4. Minus(head, seenTail) \in Index /\ Minus(head, seenTail') \in Index
    BY <2>1, Arithmetic
  <2>5. Minus(head, seenTail') <= Capacity
    BY <2>3, <2>4 DEF Index
  <2>6. /\ head' = head /\ tail' = tail /\ seenHead' = seenHead /\ cons' = cons
        /\ prod' = "test"
    BY <1>1 DEF PushLoadTail, consumerVars
  <2>7. Views'
    BY <2>3, <2>5, <2>6 DEF Minus
  <2> QED
    BY <2>2, <2>7
<1>2. CASE PushFull
  BY <1>2 DEF PushFull, consumerVars
<1>3. CASE PushMove
  <2>1. TypeOK'
    BY <1>3 DEF PushMove, consumerVars
  <2>2. Views'
    BY <1>3 DEF PushMove, consumerVars
  <2> QED
    BY <2>1, <2>2
<1>4. CASE PushPublish
  <2>1. TypeOK'
    BY <1>4, Arithmetic DEF PushPublish, consumerVars
  <2>2. Views'
    BY <1>4 DEF PushPublish, consumerVars, Minus, Succ, Index
  <2> QED
    BY <2>1, <2>2
<1>5. CASE PopLoadHead
  <2>1. seenHead' \in Index /\ Minus(seenHead', seenHead) <= Minus(head, seenHead)
    BY <1>5, VisibleIsIndex DEF PopLoadHead
  <2>2. TypeOK'
    BY <1>5, <2>1 DEF PopLoadHead, producerVars
  <2>3. Minus(seenHead', tail) <= Minus(head, tail)
    BY <2>1, HeadViewAdvances
  <2>4. /\ head' = head /\ tail' = tail /\ seenTail' = seenTail /\ prod' = prod
        /\ cons' = "test"
    BY <1>5 DEF PopLoadHead, producerVars
  <2>5. Views'
    BY <2>3, <2>4 DEF Minus
  <2> QED
    BY <2>2, <2>5
<1>6. CASE PopEmpty
  BY <1>6 DEF PopEmpty, producerVars
<1>7. CASE PopMove
  <2>1. Slot(tail) \in 0 .. Capacity - 1
    BY DEF Slot, Index
  <2>2. out' \in Message \union {NoMessage}
    BY <1>7, <2>1 DEF PopMove
  <2> QED
    BY <1>7, <2>2 DEF PopMove, producerVars
<1>8. CASE PopPublish
  <2>1. TypeOK'
    BY <1>8, Arithmetic DEF PopPublish, producerVars, Filled
  <2>2. seenHead # tail /\ head # tail
    <3>1. seenHead # tail
      BY <1>8 DEF PopPublish
    <3>2. Minus(seenHead, tail) \in Index /\ Minus(seenHead, tail) > 0
      BY <3>1, Arithmetic
    <3>3. Minus(tail, tail) = 0
      BY Arithmetic
    <3> QED
      BY <3>1, <3>2, <3>3 DEF Index
  <2>3. /\ Minus(head, Succ(tail)) = Minus(head, tail) - 1
        /\ Minus(seenHead, Succ(tail)) = Minus(seenHead, tail) - 1
    BY <2>2, TailAdvances
  <2>4. /\ Minus(head, tail) \in Index /\ Minus(head, seenTail) \in Index
        /\ Minus(seenHead, tail) \in Index
    BY Arithmetic
  <2>5. /\ Minus(head, Succ(tail)) <= Minus(head, seenTail)
        /\ Minus(seenHead, Succ(tail)) <= Minus(head, Succ(tail))
    BY <2>3, <2>4 DEF Index
  <2>6. /\ head' = head /\ seenTail' = seenTail /\ seenHead' = seenHead
        /\ prod' = prod /\ cons' = "idle" /\ tail' = Succ(tail)
    BY <1>8 DEF PopPublish, producerVars
  <2>7. Views'
    BY <2>5, <2>6 DEF Minus
  <2> QED
    BY <2>1, <2>7
<1>9. CASE UNCHANGED vars
  BY <1>9 DEF vars, producerVars, consumerVars
<1> QED
  BY <1>1, <1>2, <1>3, <1>4, <1>5, <1>6, <1>7, <1>8, <1>9 DEF Next

\* A slot index is a slot.
LEMMA SlotType == ASSUME NEW a \in Index PROVE Slot(a) \in 0 .. Capacity - 1
  BY Sizes DEF Slot, Index

\* The head moves on by one: the only new index in the ring is the old head.
LEMMA HeadAdvances ==
    ASSUME NEW h \in Index, NEW t \in Index, NEW i \in Index,
           Minus(h, t) < Capacity,
           Minus(i, t) < Minus(Succ(h), t)
    PROVE  i = h \/ Minus(i, t) < Minus(h, t)
  BY Sizes DEF Index, Minus, Succ

LEMMA NextFilled == IndInv /\ [Next]_vars => Filled'
<1> SUFFICES ASSUME IndInv, [Next]_vars
             PROVE  Filled'
  OBVIOUS
<1> USE DEF IndInv, Filled
<1>1. ASSUME NEW m \in Message, PushLoadTail(m)
      PROVE  Filled'
  BY <1>1 DEF PushLoadTail, consumerVars, Minus, Slot
<1>2. CASE PushFull
  BY <1>2 DEF PushFull, consumerVars, Minus, Slot
<1>3. CASE PushMove
  <2>1. /\ head' = head /\ tail' = tail /\ prod' = "publish"
        /\ cons' = cons /\ out' = out /\ value \in Message
        /\ storage' = [storage EXCEPT ![Slot(head)] = value]
    BY <1>3 DEF PushMove, consumerVars
  <2>2. \A i \in Index : storage'[Slot(i)] = IF Slot(i) = Slot(head) THEN value
                                            ELSE storage[Slot(i)]
    BY <2>1, SlotType DEF TypeOK
  <2>3. storage'[Slot(head)] \in Message
    BY <2>1, <2>2 DEF TypeOK
  <2>4. ASSUME NEW i \in Index, Minus(i, tail) < Minus(head, tail)
        PROVE  storage'[Slot(i)] \in Message
    BY <2>1, <2>2, <2>4
  <2> QED
    BY <2>1, <2>3, <2>4 DEF Minus, Slot
<1>4. CASE PushPublish
  <2>1. /\ head' = Succ(head) /\ tail' = tail /\ prod' = "idle"
        /\ cons' = cons /\ out' = out /\ storage' = storage
        /\ prod = "publish"
    BY <1>4 DEF PushPublish, consumerVars
  <2>2. Minus(head, tail) < Capacity
    <3>1. Minus(head, tail) \in Index /\ Minus(head, seenTail) \in Index
      BY Arithmetic DEF TypeOK
    <3> QED
      BY <2>1, <3>1, Sizes DEF Views, Index
  <2>3. ASSUME NEW i \in Index, Minus(i, tail) < Minus(Succ(head), tail)
        PROVE  storage[Slot(i)] \in Message
    BY <2>1, <2>2, <2>3, HeadAdvances DEF TypeOK
  <2> QED
    BY <2>1, <2>3 DEF Minus, Slot
<1>5. CASE PopLoadHead
  BY <1>5 DEF PopLoadHead, producerVars, Minus, Slot
<1>6. CASE PopEmpty
  BY <1>6 DEF PopEmpty, producerVars, Minus, Slot
<1>7. CASE PopMove
  <2>1. /\ head' = head /\ tail' = tail /\ prod' = prod /\ value' = value
        /\ storage' = storage /\ out' = storage[Slot(tail)] /\ seenHead # tail
    BY <1>7 DEF PopMove, producerVars
  <2>2. Minus(tail, tail) < Minus(head, tail)
    <3>1. Minus(seenHead, tail) > 0 /\ Minus(tail, tail) = 0
      BY <2>1, Arithmetic DEF TypeOK
    <3>2. Minus(seenHead, tail) \in Index /\ Minus(head, tail) \in Index
      BY Arithmetic DEF TypeOK
    <3> QED
      BY <3>1, <3>2 DEF Views, Index
  <2>3. out' \in Message
    BY <2>1, <2>2 DEF TypeOK
  <2> QED
    BY <2>1, <2>3 DEF Minus, Slot
<1>8. CASE PopPublish
  <2>1. /\ head' = head /\ tail' = Succ(tail) /\ prod' = prod /\ value' = value
        /\ storage' = storage /\ cons' = "idle" /\ seenHead # tail
    BY <1>8 DEF PopPublish, producerVars, Views
  <2>2. ASSUME NEW i \in Index, Minus(i, Succ(tail)) < Minus(head, Succ(tail))
        PROVE  Minus(i, tail) < Minus(head, tail)
    BY <2>1, <2>2, Sizes DEF TypeOK, Views, Index, Minus, Succ
  <2> QED
    BY <2>1, <2>2 DEF Minus, Slot
<1>9. CASE UNCHANGED vars
  BY <1>9 DEF vars, producerVars, consumerVars, Minus, Slot
<1> QED
  BY <1>1, <1>2, <1>3, <1>4, <1>5, <1>6, <1>7, <1>8, <1>9 DEF Next

LEMMA Inductive == Spec => []IndInv
<1>1. IndInv /\ [Next]_vars => IndInv'
  BY NextViews, NextFilled DEF IndInv
<1> QED
  BY InitInv, <1>1, PTL DEF Spec

-----------------------------------------------------------------------------

\* The counters stay machine words and the slots hold messages.
THEOREM TypeCorrect == Spec => []TypeOK
<1>1. IndInv => TypeOK
  BY DEF IndInv
<1> QED
  BY Inductive, <1>1, PTL

\* The ring never holds more messages than it has slots, however stale the
\* producer's view of the consumer is and however often the counters have
\* wrapped (tryPush's test at LockFreeQueue.h:32).
THEOREM NeverOverfull == Spec => []OccupancyBound
<1>1. ASSUME IndInv PROVE OccupancyBound
  <2>1. Minus(head, tail) \in Index /\ Minus(head, seenTail) \in Index
    BY <1>1, Arithmetic DEF IndInv, TypeOK
  <2> QED
    BY <1>1, <2>1, Sizes DEF IndInv, Views, OccupancyBound, Index
<1> QED
  BY Inductive, <1>1, PTL

-----------------------------------------------------------------------------
(* No data race *)

\* Dividing an index by the capacity leaves its slot.
LEMMA Quotient ==
    ASSUME NEW a \in Nat
    PROVE  \E q \in Nat : a = q * Capacity + Slot(a)
<1>1. a \div Capacity \in Nat
  BY Sizes
<1>2. a = (a \div Capacity) * Capacity + Slot(a)
  BY Sizes DEF Slot
<1> QED
  BY <1>1, <1>2

\* No multiple of the capacity lies strictly between zero and the capacity.
LEMMA NoMultipleBetween ==
    ASSUME NEW n \in Int, n * Capacity > 0
    PROVE  n * Capacity >= Capacity
<1>1. n >= 1
  BY Sizes
<1>2. (n - 1) * Capacity >= 0
  BY <1>1, Sizes
<1>3. n * Capacity = (n - 1) * Capacity + Capacity
  BY Sizes
<1> QED
  BY <1>2, <1>3, Sizes

\* Two counters less than a capacity apart, also across the wrap of the word,
\* which the capacity divides, are in different slots.
LEMMA SlotsDiffer ==
    ASSUME NEW h \in Index, NEW t \in Index,
           0 < Minus(h, t), Minus(h, t) < Capacity
    PROVE  Slot(h) # Slot(t)
<1> SUFFICES ASSUME Slot(h) = Slot(t) PROVE FALSE
  OBVIOUS
<1>1. PICK k \in 2 .. WordSize : WordSize = k * Capacity
  BY WordAssumption
<1>2. h \in Nat /\ t \in Nat /\ k \in Int
  BY Sizes DEF Index
<1>3. PICK p \in Nat : h = p * Capacity + Slot(h)
  BY <1>2, Quotient
<1>4. PICK q \in Nat : t = q * Capacity + Slot(t)
  BY <1>2, Quotient
<1>5. Slot(h) \in Int /\ Slot(t) \in Int
  BY SlotType
<1>6. h - t = (p - q) * Capacity
  BY <1>2, <1>3, <1>4, <1>5, Sizes
<1>7. CASE h >= t
  <2>1. Minus(h, t) = (p - q) * Capacity
    BY <1>6, <1>7 DEF Minus
  <2> QED
    BY <2>1, NoMultipleBetween, Sizes
<1>8. CASE h < t
  <2>1. Minus(h, t) = (p - q) * Capacity + k * Capacity
    BY <1>1, <1>2, <1>6, <1>8, Sizes DEF Minus
  <2>2. Minus(h, t) = (p - q + k) * Capacity
    BY <1>2, <2>1, Sizes
  <2> QED
    BY <1>2, <2>2, NoMultipleBetween, Sizes
<1> QED
  BY <1>2, <1>7, <1>8

\* The producer never writes the slot the consumer is reading, however the two
\* interleave and however stale each one's view of the other is
\* (LockFreeQueue.h:35 and :46): the moves of a non-atomic element are safe.
THEOREM RaceFree == Spec => []NoDataRace
<1>1. ASSUME IndInv PROVE NoDataRace
  <2>1. SUFFICES ASSUME prod = "publish", cons = "publish"
                 PROVE  Slot(head) # Slot(tail)
    BY DEF NoDataRace, Writing, Reading
  <2>2. head \in Index /\ tail \in Index /\ seenTail \in Index /\ seenHead \in Index
    BY <1>1 DEF IndInv, TypeOK
  <2>3. /\ Minus(head, tail) \in Index /\ Minus(head, seenTail) \in Index
        /\ Minus(seenHead, tail) \in Index
    BY <2>2, Arithmetic
  <2>4. Minus(head, tail) < Capacity
    BY <1>1, <2>1, <2>3, Sizes DEF IndInv, Views, Index
  <2>5. Minus(seenHead, tail) > 0
    BY <1>1, <2>1, <2>2, Arithmetic DEF IndInv, Views
  <2>6. 0 < Minus(head, tail)
    BY <1>1, <2>3, <2>5 DEF IndInv, Views, Index
  <2> QED
    BY <2>2, <2>4, <2>6, SlotsDiffer
<1> QED
  BY Inductive, <1>1, PTL

-----------------------------------------------------------------------------
(* The ring is a FIFO *)

\* The index j places beyond a, in unsigned arithmetic.
Plus(a, j) == IF a + j < WordSize THEN a + j ELSE a + j - WordSize

LEMMA RemainderIsUnique ==
    ASSUME NEW q \in Int, NEW n \in Nat \ {0}, NEW r \in 0 .. n - 1
    PROVE  (q * n + r) % n = r
  OBVIOUS

\* The capacity divides the word size, so a counter that wraps keeps its slot.
LEMMA PlusKeepsSlot ==
    ASSUME NEW a \in Index, NEW j \in 0 .. Capacity
    PROVE  /\ Plus(a, j) \in Index /\ Minus(Plus(a, j), a) = j
           /\ Slot(a + j) = Slot(Plus(a, j))
<1>1. a \in Nat /\ a < WordSize /\ j \in Nat /\ j <= Capacity
  BY Sizes DEF Index
<1>2. Plus(a, j) \in Index /\ Minus(Plus(a, j), a) = j
  <2>1. j < WordSize /\ WordSize \in Nat
    BY <1>1, Sizes
  <2>2. CASE a + j < WordSize
    BY <1>1, <2>1, <2>2 DEF Plus, Index, Minus
  <2>3. CASE ~ (a + j < WordSize)
    BY <1>1, <2>1, <2>3 DEF Plus, Index, Minus
  <2> QED
    BY <2>2, <2>3
<1>3. PICK k \in 2 .. WordSize : WordSize = k * Capacity
  BY WordAssumption
<1>4. PICK q \in Nat : a + j = q * Capacity + Slot(a + j)
  BY <1>1, Quotient
<1>5. Slot(a + j) \in 0 .. Capacity - 1
  BY <1>1, Sizes DEF Slot
<1>6. CASE a + j < WordSize
  BY <1>2, <1>6 DEF Plus
<1>7. CASE ~ (a + j < WordSize)
  <2>1. q - k \in Int /\ (q - k) * Capacity = q * Capacity - k * Capacity
    BY <1>3, Sizes
  <2> DEFINE r == Slot(a + j)
  <2>2. q * Capacity \in Int /\ k * Capacity \in Int /\ r \in Int
    BY <1>3, <1>5, Sizes
  <2>3. Plus(a, j) = (q * Capacity + r) - k * Capacity
    BY <1>1, <1>3, <1>4, <1>7, <2>2 DEF Plus
  <2>4. Capacity \in Nat \ {0} /\ r \in 0 .. Capacity - 1
    BY <1>5, Sizes
  <2> HIDE DEF r
  <2>5. Plus(a, j) = (q - k) * Capacity + r
    BY <2>1, <2>2, <2>3
  <2>6. ((q - k) * Capacity + r) % Capacity = r
    BY <2>1, <2>4, RemainderIsUnique
  <2> QED
    BY <1>2, <2>5, <2>6 DEF Slot, r
<1> QED
  BY <1>6, <1>7

\* The slots in use of a ring that is not full are not the one to be written next.
LEMMA NextSlotIsFree ==
    ASSUME NEW h \in Index, NEW t \in Index, Minus(h, t) < Capacity,
           NEW i \in 1 .. Minus(h, t)
    PROVE  Slot(t + i - 1) # Slot(h)
<1>1. i - 1 \in 0 .. Capacity /\ t + i - 1 = t + (i - 1) /\ Minus(h, t) \in Nat
  BY Sizes, Arithmetic DEF Index
<1> DEFINE x == Plus(t, i - 1)
<1>2. x \in Index /\ Minus(x, t) = i - 1 /\ Slot(t + i - 1) = Slot(x)
  BY <1>1, PlusKeepsSlot
<1> HIDE DEF x
<1>3. 0 < Minus(h, x) /\ Minus(h, x) < Capacity
  BY <1>1, <1>2, Sizes DEF Minus, Index
<1> QED
  BY <1>2, <1>3, SlotsDiffer

\* What the consumer has moved out of the slot is what the slot still holds, until the
\* tail lets go of it.
OutIsOldest == cons = "publish" => out = storage[Slot(tail)]

LEMMA MoveFindsRoom ==
    ASSUME IndInv, PushMove \/ PushPublish
    PROVE  Minus(head, tail) < Capacity /\ Minus(head, seenTail) < Capacity
<1>1. Minus(head, tail) \in Index /\ Minus(head, seenTail) \in Index
  BY Arithmetic DEF IndInv, TypeOK
<1>2. Minus(head, tail) <= Minus(head, seenTail) /\ Minus(head, seenTail) < Capacity
  BY DEF IndInv, Views, PushMove, PushPublish
<1> QED
  BY <1>1, <1>2, Sizes DEF Index

LEMMA ConsumerHasOne ==
    ASSUME IndInv, cons = "publish" \/ (cons = "test" /\ seenHead # tail)
    PROVE  0 < Minus(head, tail) /\ Minus(head, seenHead) < Minus(head, tail)
<1>1. seenHead # tail /\ head \in Index /\ tail \in Index /\ seenHead \in Index
      /\ Minus(seenHead, tail) <= Minus(head, tail)
  BY DEF IndInv, Views, TypeOK
<1>2. 0 < Minus(seenHead, tail)
  BY <1>1, Arithmetic
<1> QED
  BY <1>1, <1>2, Sizes DEF Minus, Index

LEMMA OutStays == IndInv /\ OutIsOldest /\ [Next]_vars => OutIsOldest'
<1> SUFFICES ASSUME IndInv, OutIsOldest, [Next]_vars PROVE OutIsOldest'
  OBVIOUS
<1>1. CASE UNCHANGED <<cons, out, storage, tail>>
  BY <1>1 DEF OutIsOldest, Slot
<1>2. CASE PushMove
  <2>1. UNCHANGED <<cons, out, tail>> /\ storage' = [storage EXCEPT ![Slot(head)] = value]
    BY <1>2 DEF PushMove, consumerVars
  <2>2. head \in Index /\ tail \in Index
        /\ storage \in [0 .. Capacity - 1 -> Message \union {NoMessage}]
    BY DEF IndInv, TypeOK
  <2>3. cons = "publish" => Slot(tail) # Slot(head)
    <3> SUFFICES ASSUME cons = "publish" PROVE Slot(tail) # Slot(head)
      OBVIOUS
    <3>1. 1 \in 1 .. Minus(head, tail) /\ Minus(head, tail) < Capacity
      BY <1>2, <2>2, MoveFindsRoom, ConsumerHasOne, Arithmetic DEF Index
    <3>2. tail + 1 - 1 = tail
      BY <2>2, Sizes DEF Index
    <3> QED
      BY <2>2, <3>1, <3>2, NextSlotIsFree
  <2> QED
    BY <2>1, <2>2, <2>3, SlotType DEF OutIsOldest, Slot
<1>3. CASE PopMove
  BY <1>3 DEF PopMove, OutIsOldest, Slot
<1>4. CASE (\E m \in Message : PushLoadTail(m)) \/ PushFull \/ PushPublish
  BY <1>1, <1>4 DEF PushLoadTail, PushFull, PushPublish, consumerVars
<1>5. CASE PopLoadHead \/ PopEmpty \/ PopPublish
  BY <1>5 DEF PopLoadHead, PopEmpty, PopPublish, OutIsOldest
<1>6. CASE UNCHANGED vars
  BY <1>1, <1>6 DEF vars, consumerVars
<1> QED
  BY <1>2, <1>3, <1>4, <1>5, <1>6 DEF Next


LEMMA Placed ==
    ASSUME NEW n \in Nat, NEW st, NEW t \in Nat,
           \A i \in 1 .. n : st[Slot(t + i - 1)] \in Message
    PROVE  LET f == [i \in 1 .. n |-> st[Slot(t + i - 1)]]
           IN  f \in Seq(Message) /\ Len(f) = n
<1> DEFINE f == [i \in 1 .. n |-> st[Slot(t + i - 1)]]
<1>1. f \in [1 .. n -> Message]
  OBVIOUS
<1>2. f \in Seq(Message)
  BY <1>1, SeqDef
<1>3. Len(f) = n
  <2>1. DOMAIN f = 1 .. n /\ DOMAIN f = 1 .. Len(f) /\ Len(f) \in Nat
    BY <1>2, LenProperties
  <2> QED
    BY <2>1
<1> QED
  BY <1>2, <1>3

\* The abstract queue that the ring stands for.
Ring == [i \in 1 .. Minus(head, tail) |-> storage[Slot(tail + i - 1)]]
Slack == Minus(tail, seenTail)
News == Minus(head, seenHead)

LEMMA RingHoldsMessages ==
    ASSUME IndInv
    PROVE  /\ Ring \in Seq(Message) /\ Len(Ring) = Minus(head, tail)
           /\ Slack \in Nat /\ News \in Nat
           /\ Minus(head, tail) + Slack = Minus(head, seenTail)
           /\ News <= Minus(head, tail)
<1>1. head \in Index /\ tail \in Index /\ seenTail \in Index /\ seenHead \in Index
  BY DEF IndInv, TypeOK
<1>2. /\ Minus(head, tail) \in Nat /\ Slack \in Nat /\ News \in Nat /\ tail \in Nat
      /\ Minus(head, tail) <= Capacity
  <2>1. Minus(head, tail) \in Index /\ Minus(head, seenTail) \in Index
        /\ Minus(tail, seenTail) \in Index /\ Minus(head, seenHead) \in Index
    BY <1>1, Arithmetic
  <2> QED
    BY <1>1, <2>1, Sizes DEF IndInv, Views, Index, Slack, News
<1>3. ASSUME NEW i \in 1 .. Minus(head, tail)
      PROVE  storage[Slot(tail + i - 1)] \in Message
  <2>1. i - 1 \in 0 .. Capacity /\ tail + i - 1 = tail + (i - 1)
    BY <1>2, Sizes
  <2> DEFINE x == Plus(tail, i - 1)
  <2>2. x \in Index /\ Minus(x, tail) = i - 1 /\ Slot(tail + i - 1) = Slot(x)
    BY <1>1, <2>1, PlusKeepsSlot
  <2> HIDE DEF x
  <2>3. Minus(x, tail) < Minus(head, tail)
    BY <1>2, <2>2
  <2> QED
    BY <2>2, <2>3 DEF IndInv, Filled
<1>4. Ring \in Seq(Message) /\ Len(Ring) = Minus(head, tail)
  BY <1>2, <1>3, Placed DEF Ring
<1>5. Minus(head, tail) + Slack = Minus(head, seenTail)
  BY <1>1, Sizes DEF IndInv, Views, Slack, Minus, Index
<1>6. News <= Minus(head, tail)
  BY <1>1, Sizes DEF IndInv, Views, News, Minus, Index
<1> QED
  BY <1>2, <1>4, <1>5, <1>6

RingOK == Ring \in Seq(Message) /\ Len(Ring) = Minus(head, tail)

LEMMA RingOKNext == IndInv' => RingOK'
<1>1. IndInv => RingOK
  BY RingHoldsMessages DEF RingOK
<1> QED
  BY <1>1, PTL

\* What tryPush stores is its argument.
ArgumentIsStored == prod = "publish" => storage[Slot(head)] = value

LEMMA ArgumentStays ==
    IndInv /\ ArgumentIsStored /\ [Next]_vars => ArgumentIsStored'
<1> SUFFICES ASSUME IndInv, ArgumentIsStored, [Next]_vars PROVE ArgumentIsStored'
  OBVIOUS
<1>1. CASE PushMove
  <2>1. head' = head /\ value' = value /\ storage' = [storage EXCEPT ![Slot(head)] = value]
    BY <1>1 DEF PushMove
  <2>2. Slot(head) \in DOMAIN storage
    BY SlotType DEF IndInv, TypeOK
  <2> QED
    BY <2>1, <2>2 DEF ArgumentIsStored, Slot
<1>2. CASE UNCHANGED <<head, storage, prod, value>>
  BY <1>2 DEF ArgumentIsStored, Slot
<1>3. CASE (\E m \in Message : PushLoadTail(m)) \/ PushFull \/ PushPublish
  BY <1>3 DEF PushLoadTail, PushFull, PushPublish, ArgumentIsStored
<1>4. CASE PopLoadHead \/ PopEmpty \/ PopMove \/ PopPublish \/ UNCHANGED vars
  BY <1>2, <1>4 DEF PopLoadHead, PopEmpty, PopMove, PopPublish, vars, producerVars
<1> QED
  BY <1>1, <1>3, <1>4 DEF Next

LEMMA PushIsPush ==
    ASSUME IndInv, IndInv', ArgumentIsStored, PushPublish
    PROVE  value \in Message /\ Fifo!Push(value)
<1> DEFINE m == value
<1>1. /\ head' = Succ(head) /\ UNCHANGED <<tail, storage, seenTail, seenHead, popped>>
      /\ pushed' = "ok" /\ prod = "publish"
  BY DEF PushPublish, consumerVars
<1>2. head \in Index /\ tail \in Index /\ seenTail \in Index /\ seenHead \in Index
  BY DEF IndInv, TypeOK
<1>3. m \in Message /\ m = storage[Slot(head)]
  BY <1>1 DEF IndInv, Filled, ArgumentIsStored
<1>4. Minus(head, tail) < Capacity /\ Minus(head, seenTail) < Capacity
      /\ Minus(head, tail) \in Nat
  BY <1>2, MoveFindsRoom, Arithmetic DEF Index
<1>5. /\ Ring \in Seq(Message) /\ Len(Ring) = Minus(head, tail)
      /\ Ring' \in Seq(Message) /\ Len(Ring') = Minus(head, tail)'
      /\ Len(Ring) + Slack < Capacity /\ News <= Minus(head, tail)
      /\ News \in Nat
  BY <1>4, RingHoldsMessages, RingOKNext DEF RingOK
<1>6. Minus(head, tail)' = Minus(head, tail) + 1 /\ News' = News + 1 /\ Slack' = Slack
  <2>1. Minus(Succ(head), tail) = Minus(head, tail) + 1
    BY <1>2, <1>4, Sizes DEF Minus, Succ, Index
  <2>2. Minus(Succ(head), seenHead) = Minus(head, seenHead) + 1
    BY <1>2, <1>4, <1>5, Sizes DEF Minus, Succ, Index, News
  <2>3. Minus(head, tail)' = Minus(Succ(head), tail)
        /\ News' = Minus(Succ(head), seenHead) /\ Slack' = Minus(tail, seenTail)
    BY <1>1 DEF Minus, News, Slack
  <2> QED
    BY <2>1, <2>2, <2>3 DEF News, Slack
<1>7. Slot(tail + Minus(head, tail)) = Slot(head)
  <2>1. Minus(head, tail) \in 0 .. Capacity
    BY <1>4, Sizes
  <2>2. Plus(tail, Minus(head, tail)) = head
    BY <1>2, Sizes DEF Plus, Minus, Index
  <2> QED
    BY <1>2, <2>1, <2>2, PlusKeepsSlot
<1>8. ASSUME NEW i \in 1 .. Minus(head, tail) + 1 PROVE Ring'[i] = Append(Ring, m)[i]
  <2>1. Ring'[i] = storage[Slot(tail + i - 1)]
    <3>1. i \in 1 .. Minus(head, tail)'
      BY <1>6
    <3> QED
      BY <1>1, <3>1 DEF Ring, Slot
  <2>2. CASE i <= Minus(head, tail)
    <3>1. i \in 1 .. Len(Ring)
      BY <1>4, <1>5, <2>2
    <3>2. Append(Ring, m)[i] = Ring[i]
      BY <1>3, <1>5, <3>1
    <3> QED
      BY <1>5, <2>1, <3>1, <3>2 DEF Ring
  <2>3. CASE ~ (i <= Minus(head, tail))
    <3>1. i = Len(Ring) + 1 /\ tail + i - 1 = tail + Minus(head, tail)
      BY <1>2, <1>4, <1>5, <2>3, Sizes DEF Index
    <3>2. Append(Ring, m)[i] = m
      BY <1>3, <1>5, <3>1
    <3> QED
      BY <1>3, <1>7, <2>1, <3>1, <3>2
  <2> QED
    BY <2>2, <2>3
<1>9. Ring' = Append(Ring, m)
  <2>1. Append(Ring, m) \in Seq(Message) /\ Len(Append(Ring, m)) = Len(Ring) + 1
    BY <1>3, <1>5
  <2>2. Len(Ring') = Minus(head, tail) + 1
    BY <1>5, <1>6
  <2> QED
    BY <1>5, <1>8, <2>1, <2>2, SeqEqual
<1> HIDE DEF m
<1>10. Fifo!Push(m)
  BY <1>1, <1>5, <1>6, <1>9 DEF Fifo!Push, Ring, Slack, News
<1> QED
  BY <1>3, <1>10 DEF m


LEMMA PopIsPop ==
    ASSUME IndInv, IndInv', OutIsOldest, PopPublish PROVE Fifo!Pop
<1>1. /\ tail' = Succ(tail) /\ UNCHANGED <<head, storage, seenTail, seenHead, pushed>>
      /\ popped' = <<out>> /\ cons = "publish"
  BY DEF PopPublish, producerVars
<1>2. head \in Index /\ tail \in Index /\ seenTail \in Index /\ seenHead \in Index
  BY DEF IndInv, TypeOK
<1>3. /\ Ring \in Seq(Message) /\ Len(Ring) = Minus(head, tail)
      /\ Ring' \in Seq(Message) /\ Len(Ring') = Minus(head, tail)'
      /\ Minus(head, tail) + Slack = Minus(head, seenTail)
      /\ Slack \in Nat /\ News \in Nat
  BY RingHoldsMessages, RingOKNext DEF RingOK
<1>4. /\ 0 < Minus(head, tail) /\ News < Minus(head, tail)
      /\ Minus(head, tail) \in Nat /\ Minus(head, tail) <= Capacity
      /\ Minus(head, seenTail) <= Capacity
  <2>1. Minus(head, tail) \in Index /\ Minus(head, seenTail) \in Index
    BY <1>2, Arithmetic
  <2> QED
    BY <1>1, <2>1, ConsumerHasOne, Sizes DEF News, Index, IndInv, Views
<1>5. Minus(head, tail)' = Minus(head, tail) - 1 /\ News' = News /\ Slack' = Slack + 1
  <2>1. head # tail
    BY <1>2, <1>4, Arithmetic
  <2>2. Minus(head, Succ(tail)) = Minus(head, tail) - 1
    BY <1>2, <2>1, TailAdvances
  <2>3. Minus(Succ(tail), seenTail) = Minus(tail, seenTail) + 1
    BY <1>2, <1>3, <1>4, Sizes DEF Minus, Succ, Index, Slack
  <2>4. Minus(head, tail)' = Minus(head, Succ(tail)) /\ News' = Minus(head, seenHead)
        /\ Slack' = Minus(Succ(tail), seenTail)
    BY <1>1 DEF Minus, News, Slack
  <2> QED
    BY <2>2, <2>3, <2>4 DEF News, Slack
<1>6. Ring # <<>> /\ Head(Ring) = out
  <2>1. Len(Ring) > 0 /\ Ring # <<>>
    BY <1>3, <1>4
  <2>2. 1 \in 1 .. Minus(head, tail) /\ tail + 1 - 1 = tail
    BY <1>2, <1>4, Sizes DEF Index
  <2>3. Ring[1] = storage[Slot(tail)]
    BY <2>2 DEF Ring
  <2> QED
    BY <1>1, <1>3, <2>1, <2>3 DEF OutIsOldest
<1>7. /\ Tail(Ring) \in Seq(Message) /\ Len(Tail(Ring)) = Minus(head, tail) - 1
      /\ \A i \in 1 .. Minus(head, tail) - 1 : Tail(Ring)[i] = Ring[i + 1]
  BY <1>3, <1>6, HeadTailProperties
<1>8. ASSUME NEW i \in 1 .. Minus(head, tail) - 1 PROVE Ring'[i] = Tail(Ring)[i]
  <2>1. i \in 1 .. Minus(head, tail)' /\ i \in 0 .. Capacity
        /\ i + 1 \in 1 .. Minus(head, tail) /\ i \in Nat
    BY <1>4, <1>5, Sizes
  <2>2. Ring'[i] = storage[Slot(Succ(tail) + i - 1)]
    BY <1>1, <2>1 DEF Ring, Slot
  <2>3. Ring[i + 1] = storage[Slot(tail + i)]
    <3>1. tail + (i + 1) - 1 = tail + i
      BY <1>2, <2>1, Sizes DEF Index
    <3> QED
      BY <2>1, <3>1 DEF Ring
  <2>4. Slot(Succ(tail) + i - 1) = Slot(tail + i)
    <3>1. CASE tail + 1 = WordSize
      <4>1. Succ(tail) + i - 1 = Plus(tail, i)
        BY <1>2, <2>1, <3>1, Sizes DEF Succ, Plus, Index
      <4> QED
        BY <1>2, <2>1, <4>1, PlusKeepsSlot
    <3>2. CASE tail + 1 # WordSize
      <4>1. Succ(tail) + i - 1 = tail + i
        BY <1>2, <2>1, <3>2, Sizes DEF Succ, Index
      <4> QED
        BY <4>1
    <3> QED
      BY <3>1, <3>2
  <2> QED
    BY <1>7, <2>2, <2>3, <2>4
<1>9. Ring' = Tail(Ring)
  BY <1>3, <1>5, <1>7, <1>8, SeqEqual
<1>10. Len(Ring) > News
  BY <1>3, <1>4
<1> QED
  BY <1>1, <1>5, <1>6, <1>9, <1>10 DEF Fifo!Pop, Ring, Slack, News

LEMMA StoreIsInvisible ==
    ASSUME IndInv, PushMove PROVE UNCHANGED Fifo!vars
<1>1. UNCHANGED <<head, tail, seenTail, seenHead, pushed, popped>>
      /\ storage' = [storage EXCEPT ![Slot(head)] = value]
  BY DEF PushMove, consumerVars
<1>2. head \in Index /\ tail \in Index /\ Minus(head, tail) < Capacity
      /\ storage \in [0 .. Capacity - 1 -> Message \union {NoMessage}]
  BY MoveFindsRoom DEF IndInv, TypeOK
<1>3. Minus(head, tail)' = Minus(head, tail) /\ Slack' = Slack /\ News' = News
  BY <1>1 DEF Minus, Slack, News
<1>4. ASSUME NEW i \in 1 .. Minus(head, tail)
      PROVE  storage'[Slot(tail + i - 1)] = storage[Slot(tail + i - 1)]
  BY <1>1, <1>2, NextSlotIsFree
<1>5. Ring' = Ring
  BY <1>1, <1>3, <1>4 DEF Ring, Slot
<1> QED
  BY <1>1, <1>3, <1>5 DEF Fifo!vars, Ring, Slack, News

\* A view that moves towards the present is closer to it.
LEMMA ViewComesCloser ==
    ASSUME NEW seen \in Index, NEW now \in Index, NEW i \in Index,
           Minus(i, seen) <= Minus(now, seen)
    PROVE  Minus(now, i) \in 0 .. Minus(now, seen)
<1>1. Minus(now, now) = 0 /\ Minus(now, seen) \in Nat /\ Minus(now, i) \in Nat
  BY Arithmetic DEF Index
<1>2. Minus(now, now) <= Minus(now, seen)
  BY <1>1
<1>3. Minus(now, i) <= Minus(now, seen)
  BY <1>2, ViewAdvances
<1> QED
  BY <1>1, <1>3

\* The two loads move what a side knows of the other towards the present.
LEMMA LoadsAreHearing ==
    ASSUME IndInv,
           (\E m \in Message : PushLoadTail(m)) \/ PopLoadHead
    PROVE  Fifo!HearOfPops \/ Fifo!HearOfPushes
<1>1. head \in Index /\ tail \in Index /\ seenTail \in Index /\ seenHead \in Index
      /\ Slack \in Nat /\ News \in Nat
  BY RingHoldsMessages DEF IndInv, TypeOK
<1>2. CASE \E m \in Message : PushLoadTail(m)
  <2>1. UNCHANGED <<head, tail, storage, seenHead, pushed, popped>>
        /\ seenTail' \in Visible(seenTail, tail)
    BY <1>2 DEF PushLoadTail, consumerVars
  <2>2. seenTail' \in Index /\ Minus(seenTail', seenTail) <= Minus(tail, seenTail)
    BY <2>1, VisibleIsIndex
  <2>3. Minus(tail, seenTail') \in 0 .. Slack
    BY <1>1, <2>2, ViewComesCloser DEF Slack
  <2>4. Ring' = Ring /\ News' = News /\ Slack' = Minus(tail, seenTail')
    BY <2>1 DEF Ring, News, Slack, Minus, Slot
  <2>5. Fifo!HearOfPops
    BY <2>1, <2>3, <2>4 DEF Fifo!HearOfPops, Ring, Slack, News
  <2> QED
    BY <2>5
<1>3. CASE PopLoadHead
  <2>1. UNCHANGED <<head, tail, storage, seenTail, pushed, popped>>
        /\ seenHead' \in Visible(seenHead, head)
    BY <1>3 DEF PopLoadHead, producerVars
  <2>2. seenHead' \in Index /\ Minus(seenHead', seenHead) <= Minus(head, seenHead)
    BY <2>1, VisibleIsIndex
  <2>3. Minus(head, seenHead') \in 0 .. News
    BY <1>1, <2>2, ViewComesCloser DEF News
  <2>4. Ring' = Ring /\ Slack' = Slack /\ News' = Minus(head, seenHead')
    BY <2>1 DEF Ring, News, Slack, Minus, Slot
  <2>5. Fifo!HearOfPushes
    BY <2>1, <2>3, <2>4 DEF Fifo!HearOfPushes, Ring, Slack, News
  <2> QED
    BY <2>5
<1> QED
  BY <1>2, <1>3

\* A refusal is just: what the producer knows is that the ring is full; and a pop that
\* comes back empty has not heard of anything.
LEMMA TestsAreJust ==
    ASSUME IndInv, PushFull \/ PopEmpty PROVE Fifo!Refuse \/ Fifo!PopNothing
<1>1. /\ Len(Ring) = Minus(head, tail) /\ Slack \in Nat /\ News \in Nat
      /\ Minus(head, tail) + Slack = Minus(head, seenTail)
      /\ Minus(head, seenTail) <= Capacity
  BY RingHoldsMessages DEF IndInv, Views
<1>2. CASE PushFull
  <2>1. UNCHANGED <<head, tail, storage, seenTail, seenHead, popped>> /\ pushed' = "full"
        /\ Minus(head, seenTail) >= Capacity
    BY <1>2 DEF PushFull, consumerVars
  <2>2. Minus(head, seenTail) \in Nat
    BY Arithmetic DEF IndInv, TypeOK, Index
  <2>3. Len(Ring) + Slack = Capacity
    BY <1>1, <2>1, <2>2, Sizes
  <2>4. Ring' = Ring /\ Slack' = Slack /\ News' = News
    BY <2>1 DEF Ring, News, Slack, Minus, Slot
  <2>5. Fifo!Refuse
    BY <2>1, <2>3, <2>4 DEF Fifo!Refuse, Ring, Slack, News
  <2> QED
    BY <2>5
<1>3. CASE PopEmpty
  <2>1. UNCHANGED <<head, tail, storage, seenTail, seenHead, pushed>> /\ popped' = <<>>
        /\ seenHead = tail
    BY <1>3 DEF PopEmpty, producerVars
  <2>2. Len(Ring) = News
    BY <1>1, <2>1 DEF News
  <2>3. Ring' = Ring /\ Slack' = Slack /\ News' = News
    BY <2>1 DEF Ring, News, Slack, Minus, Slot
  <2>4. Fifo!PopNothing
    BY <2>1, <2>2, <2>3 DEF Fifo!PopNothing, Ring, Slack, News
  <2> QED
    BY <2>4
<1> QED
  BY <1>2, <1>3

\* The facts about the two moves that are made before they are published.
Moves == OutIsOldest /\ ArgumentIsStored

LEMMA StepsOfFifo ==
    IndInv /\ IndInv' /\ Moves /\ [Next]_vars => [Fifo!Next]_(Fifo!vars)
<1> SUFFICES ASSUME IndInv, IndInv', OutIsOldest, ArgumentIsStored, [Next]_vars
             PROVE  Fifo!Next \/ UNCHANGED Fifo!vars
  BY DEF Moves
<1>1. CASE (\E m \in Message : PushLoadTail(m)) \/ PopLoadHead
  BY <1>1, LoadsAreHearing DEF Fifo!Next
<1>2. CASE PushFull \/ PopEmpty
  BY <1>2, TestsAreJust DEF Fifo!Next
<1>3. CASE PushMove
  BY <1>3, StoreIsInvisible
<1>4. CASE PushPublish
  BY <1>4, PushIsPush DEF Fifo!Next
<1>5. CASE PopMove
  <2>1. UNCHANGED <<head, tail, storage, seenTail, seenHead, pushed, popped>>
    BY <1>5 DEF PopMove, producerVars
  <2> QED
    BY <2>1 DEF Fifo!vars, Minus, Slot
<1>6. CASE PopPublish
  BY <1>6, PopIsPop DEF Fifo!Next
<1>7. CASE UNCHANGED vars
  <2>1. UNCHANGED <<head, tail, storage, seenTail, seenHead, pushed, popped>>
    BY <1>7 DEF vars, producerVars, consumerVars
  <2> QED
    BY <2>1 DEF Fifo!vars, Minus, Slot
<1> QED
  BY <1>1, <1>2, <1>3, <1>4, <1>5, <1>6, <1>7 DEF Next

LEMMA StartsAsFifo == Init => Fifo!Init /\ Moves
<1> SUFFICES ASSUME Init PROVE Fifo!Init /\ Moves
  OBVIOUS
<1>1. /\ head = 0 /\ tail = 0 /\ seenTail = 0 /\ seenHead = 0 /\ cons = "idle"
      /\ prod = "idle" /\ pushed = "none" /\ popped = <<>>
  BY DEF Init
<1>2. Minus(head, tail) = 0 /\ Slack = 0 /\ News = 0
  BY <1>1 DEF Minus, Slack, News
<1>3. Ring \in Seq(Message) /\ Len(Ring) = 0
  BY <1>2, InitInv, RingHoldsMessages
<1>4. Ring = <<>>
  BY <1>3, EmptySeq
<1> QED
  BY <1>1, <1>2, <1>4 DEF Fifo!Init, Moves, OutIsOldest, ArgumentIsStored, Ring, Slack, News

LEMMA MovesHold == Spec => []Moves
<1>1. IndInv /\ Moves /\ [Next]_vars => Moves'
  BY OutStays, ArgumentStays DEF Moves
<1> QED
  BY <1>1, StartsAsFifo, Inductive, PTL DEF Spec

\* The lock-free ring is the bounded FIFO, for every capacity and word size: each of
\* the eight accesses of tryPush and tryPop (LockFreeQueue.h:29-50) is a step of the
\* abstract queue or none, so no message is lost, doubled, reordered or invented, and
\* a push is refused only when the slots the producer knows of are in use.
THEOREM RingIsFifo == Spec => Fifo!Init /\ [][Fifo!Next]_(Fifo!vars)
<1>1. IndInv /\ IndInv' /\ Moves /\ [Next]_vars => [Fifo!Next]_(Fifo!vars)
  BY StepsOfFifo
<1> QED
  BY <1>1, StartsAsFifo, Inductive, MovesHold, PTL DEF Spec

\* In particular what a push adds to the queue is its argument, and nothing else.
THEOREM PushAddsItsArgument == Spec => [][PushPublish => Fifo!Push(value)]_vars
<1>1. IndInv /\ IndInv' /\ Moves /\ [Next]_vars => [PushPublish => Fifo!Push(value)]_vars
  BY PushIsPush DEF Moves
<1> QED
  BY <1>1, Inductive, MovesHold, PTL DEF Spec
=============================================================================
