---------------------------- MODULE Conversions ----------------------------
(***************************************************************************)
(* What the timbre-transfer service promises the rest of the program:      *)
(* conversions end one by one in the order they were accepted, whatever    *)
(* tracks they are of, each exactly once, with a new loop or with an       *)
(* error; and each of them does end unless the program is closed first.    *)
(***************************************************************************)
EXTENDS Naturals, Sequences

CONSTANTS Track,   \* the tracks
          Source   \* what is converted

VARIABLES transfers,  \* those accepted and not yet completed, oldest first
          completed,  \* the last completion: its track, source and outcome
          open        \* whether the program still runs its message loop

vars == <<transfers, completed, open>>

Init == transfers = <<>> /\ completed = <<>> /\ open = TRUE

Accept(t, src) == /\ open
                  /\ transfers' = Append(transfers, [track |-> t, source |-> src])
                  /\ UNCHANGED <<completed, open>>

Complete == /\ open /\ transfers # <<>>
            /\ \E ok \in BOOLEAN :
                  completed' = <<Head(transfers).track, Head(transfers).source, ok>>
            /\ transfers' = Tail(transfers)
            /\ UNCHANGED open

Close == open /\ open' = FALSE /\ UNCHANGED <<transfers, completed>>

Next == \/ \E t \in Track, src \in Source : Accept(t, src)
        \/ Complete
        \/ Close

Spec == Init /\ [][Next]_vars /\ WF_vars(Complete)
============================================================================
