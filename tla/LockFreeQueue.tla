--------------------------- MODULE LockFreeQueue ---------------------------
(***************************************************************************)
(* The lock-free ring that carries commands from the UI thread to the      *)
(* audio thread and events back (LockFreeQueue.h), one action per access   *)
(* to a shared location.                                                   *)
(*                                                                         *)
(* m_head and m_tail are size_t counters that only grow and wrap at the    *)
(* word size.  Each side writes its own counter, so its relaxed load of it *)
(* is exact; its acquire load of the other side's counter may return any   *)
(* value between the one it last saw and the current one, which is all     *)
(* that acquire/release on one location promises.                          *)
(***************************************************************************)
EXTENDS Naturals, Sequences

CONSTANTS Message,    \* what is pushed
          NoMessage,  \* a slot of m_storage that was never written
          Capacity,   \* the template parameter
          WordSize    \* the number of values of std::size_t

\* The two static_asserts on Capacity: at least two, and a power of two, which
\* is used only through its consequence that the capacity divides 2^w.
ASSUME CapacityAssumption == Capacity \in Nat /\ Capacity >= 2
ASSUME WordAssumption ==
    WordSize \in Nat /\ \E k \in 2 .. WordSize : WordSize = k * Capacity
ASSUME MessageAssumption == NoMessage \notin Message

VARIABLES head,      \* m_head: the next slot to write
          tail,      \* m_tail: the next slot to read
          storage,   \* m_storage
          prod,      \* where the producer is in tryPush
          value,     \* tryPush's argument
          seenTail,  \* the value of m_tail the producer last loaded
          pushed,    \* what the last tryPush returned
          cons,      \* where the consumer is in tryPop
          seenHead,  \* the value of m_head the consumer last loaded
          out,       \* tryPop's local, moved out of the slot
          popped     \* what the last tryPop returned: <<m>>, or <<>> (nullopt)

producerVars == <<prod, value, seenTail, pushed>>
consumerVars == <<cons, seenHead, out, popped>>
vars == <<head, tail, storage, producerVars, consumerVars>>

Index == 0 .. WordSize - 1

\* a - b and a + 1 in unsigned arithmetic of WordSize values.
Minus(a, b) == IF a >= b THEN a - b ELSE a + WordSize - b
Succ(a) == IF a + 1 = WordSize THEN 0 ELSE a + 1

\* index & (Capacity - 1), for a power of two.
Slot(a) == a % Capacity

\* What an acquire load of a counter may return to a thread that last saw
\* `seen' when its current value is `now'.
Visible(seen, now) == {i \in Index : Minus(i, seen) <= Minus(now, seen)}

Init == /\ head = 0
        /\ tail = 0
        /\ storage = [s \in 0 .. Capacity - 1 |-> NoMessage]
        /\ prod = "idle" /\ value = NoMessage /\ seenTail = 0 /\ pushed = "none"
        /\ cons = "idle" /\ seenHead = 0 /\ out = NoMessage /\ popped = <<>>

-----------------------------------------------------------------------------
(* tryPush *)

PushLoadTail(m) == /\ prod = "idle"
                   /\ prod' = "test"
                   /\ value' = m
                   /\ seenTail' \in Visible(seenTail, tail)
                   /\ UNCHANGED <<head, tail, storage, pushed, consumerVars>>

PushFull == /\ prod = "test"
            /\ Minus(head, seenTail) >= Capacity
            /\ prod' = "idle"
            /\ pushed' = "full"
            /\ UNCHANGED <<head, tail, storage, value, seenTail, consumerVars>>

\* Mutant: an off-by-one in the test for a full ring.
PushMoveOffByOne ==
    /\ prod = "test"
    /\ Minus(head, seenTail) <= Capacity
    /\ prod' = "publish"
    /\ storage' = [storage EXCEPT ![Slot(head)] = value]
    /\ UNCHANGED <<head, tail, value, seenTail, pushed, consumerVars>>

\* Mutant: m_head is stored before the slot is written: lines 35 and 36 swapped.
PushPublishFirst ==
    /\ prod = "test"
    /\ Minus(head, seenTail) < Capacity
    /\ prod' = "idle"
    /\ head' = Succ(head)
    /\ pushed' = "ok"
    /\ UNCHANGED <<tail, storage, value, seenTail, consumerVars>>

PushMove == /\ prod = "test"
            /\ Minus(head, seenTail) < Capacity
            /\ prod' = "publish"
            /\ storage' = [storage EXCEPT ![Slot(head)] = value]
            /\ UNCHANGED <<head, tail, value, seenTail, pushed, consumerVars>>

PushPublish == /\ prod = "publish"
               /\ prod' = "idle"
               /\ head' = Succ(head)
               /\ pushed' = "ok"
               /\ UNCHANGED <<tail, storage, value, seenTail, consumerVars>>

-----------------------------------------------------------------------------
(* tryPop *)

\* Mutant: the consumer keeps using the head it saw first.
PopLoadHeadCached ==
    /\ cons = "idle"
    /\ cons' = "test"
    /\ UNCHANGED <<seenHead, head, tail, storage, out, popped, producerVars>>

PopLoadHead == /\ cons = "idle"
               /\ cons' = "test"
               /\ seenHead' \in Visible(seenHead, head)
               /\ UNCHANGED <<head, tail, storage, out, popped, producerVars>>

PopEmpty == /\ cons = "test"
            /\ seenHead = tail
            /\ cons' = "idle"
            /\ popped' = <<>>
            /\ UNCHANGED <<head, tail, storage, seenHead, out, producerVars>>

\* Mutant: the test for an empty ring is forgotten.
PopMoveUntested ==
    /\ cons = "test"
    /\ cons' = "publish"
    /\ out' = storage[Slot(tail)]
    /\ UNCHANGED <<head, tail, storage, seenHead, popped, producerVars>>

PopMove == /\ cons = "test"
           /\ seenHead # tail
           /\ cons' = "publish"
           /\ out' = storage[Slot(tail)]
           /\ UNCHANGED <<head, tail, storage, seenHead, popped, producerVars>>

PopPublish == /\ cons = "publish"
              /\ cons' = "idle"
              /\ tail' = Succ(tail)
              /\ popped' = <<out>>
              /\ UNCHANGED <<head, storage, seenHead, out, producerVars>>

-----------------------------------------------------------------------------

Next == \/ \E m \in Message : PushLoadTail(m)
        \/ PushFull \/ PushMove \/ PushPublish
        \/ PopLoadHead \/ PopEmpty \/ PopMove \/ PopPublish

\* The consumer is polled for ever: processBlock drains the commands in every
\* callback, timerCallback the events in every tick.  A store becomes visible
\* in finite time, so its loads are not stale for ever.  A producer that has
\* begun a push finishes it; nobody is obliged to push.
Fairness == /\ WF_vars(PushFull \/ PushMove \/ PushPublish)
            /\ WF_vars(PopEmpty \/ PopMove \/ PopPublish)
            /\ WF_vars(PopLoadHead)
            /\ SF_vars(PopLoadHead /\ seenHead' = head)

Spec == Init /\ [][Next]_vars /\ Fairness

-----------------------------------------------------------------------------
(* Properties *)

\* Every counter is a machine word and every slot holds a message or nothing.
TypeOK == /\ head \in Index /\ tail \in Index
          /\ storage \in [0 .. Capacity - 1 -> Message \union {NoMessage}]
          /\ prod \in {"idle", "test", "publish"}
          /\ value \in Message \union {NoMessage}
          /\ seenTail \in Index
          /\ pushed \in {"none", "ok", "full"}
          /\ cons \in {"idle", "test", "publish"}
          /\ seenHead \in Index
          /\ out \in Message \union {NoMessage}
          /\ popped \in {<<>>} \union {<<m>> : m \in Message}

\* The unsigned difference head - tail that both sides test (LockFreeQueue.h:32
\* and :43) is the number of messages in the ring, and never exceeds its size,
\* also when the counters have wrapped and the producer's view is stale.
OccupancyBound == Minus(head, tail) <= Capacity

\* The producer's plain write of a slot (:35) and the consumer's plain read of
\* one (:46) never overlap on the same slot: the element type is not atomic, so
\* that would be a data race.  A move lasts until the store that follows it.
Writing == prod = "publish"
Reading == cons = "publish"
NoDataRace == ~ (Writing /\ Reading /\ Slot(head) = Slot(tail))

\* A message in the ring is taken out: the tail moves on.
Delivery == \A i \in Index : (tail = i /\ head # i) ~> (tail # i)

\* The ring implements the bounded FIFO: a push takes effect at the store of
\* m_head, a pop at the store of m_tail, and each side's stale view is what the
\* abstract queue calls not having heard of the other.
Fifo == INSTANCE BoundedFifo WITH
    fifo <- [i \in 1 .. Minus(head, tail) |-> storage[Slot(tail + i - 1)]],
    slack <- Minus(tail, seenTail),
    news <- Minus(head, seenHead)

FifoSpec == Fifo!Spec
=============================================================================
