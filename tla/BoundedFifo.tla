---------------------------- MODULE BoundedFifo ----------------------------
(***************************************************************************)
(* What the single-producer / single-consumer queue promises to the engine *)
(* and to the UI: a bounded FIFO whose two ends hear of each other late.   *)
(*                                                                         *)
(* A push may be refused although the consumer has just freed a slot, and  *)
(* a pop may come back empty although a message has just been pushed; but  *)
(* no message is lost, duplicated, reordered or invented, and every        *)
(* message reaches a consumer that keeps asking.                           *)
(***************************************************************************)
EXTENDS Naturals, Sequences

CONSTANTS Message,   \* the values that travel through the queue
          Capacity   \* the largest number of messages it holds, at least one

VARIABLES fifo,    \* the messages in the queue, oldest first
          slack,   \* slots freed by pops the producer has not yet heard of
          news,    \* messages at the end the consumer has not yet heard of
          pushed,  \* what the last completed push returned
          popped   \* what the last pop returned: a message, or <<>>

vars == <<fifo, slack, news, pushed, popped>>

Init == /\ fifo = <<>>
        /\ slack = 0
        /\ news = 0
        /\ pushed = "none"
        /\ popped = <<>>

Push(m) == /\ Len(fifo) + slack < Capacity
           /\ fifo' = Append(fifo, m)
           /\ news' = news + 1
           /\ pushed' = "ok"
           /\ UNCHANGED <<slack, popped>>

Refuse == /\ Len(fifo) + slack = Capacity
          /\ pushed' = "full"
          /\ UNCHANGED <<fifo, slack, news, popped>>

Pop == /\ Len(fifo) > news
       /\ fifo' = Tail(fifo)
       /\ slack' = slack + 1
       /\ popped' = <<Head(fifo)>>
       /\ UNCHANGED <<news, pushed>>

PopNothing == /\ Len(fifo) = news
              /\ popped' = <<>>
              /\ UNCHANGED <<fifo, slack, news, pushed>>

HearOfPops == /\ slack' \in 0..slack
              /\ UNCHANGED <<fifo, news, pushed, popped>>

HearOfPushes == /\ news' \in 0..news
                /\ UNCHANGED <<fifo, slack, pushed, popped>>

Next == \/ \E m \in Message : Push(m)
        \/ Refuse
        \/ Pop
        \/ PopNothing
        \/ HearOfPops
        \/ HearOfPushes

\* The consumer keeps asking, and does not stay ignorant of a push for ever.
Fairness == /\ WF_vars(Pop)
            /\ WF_vars(HearOfPushes /\ news' = 0)

Spec == Init /\ [][Next]_vars /\ Fairness
============================================================================
