----------------------------- MODULE LossyQueue -----------------------------
(***************************************************************************)
(* What the inertial sample ring promises its two threads, without slots,  *)
(* indices, locks or wakeups: a queue of at most Capacity samples in the   *)
(* order they were read from the chip.  A sample that finds the queue full *)
(* pushes the oldest one out, and the loss is counted.  Samples are the    *)
(* numbers 1, 2, 3, ... in the order the driver delivered them.            *)
(***************************************************************************)
EXTENDS Integers, Sequences

CONSTANT Capacity

VARIABLES queue, accepted, overwritten, out

absVars == <<queue, accepted, overwritten, out>>

Init == /\ queue = << >>
        /\ accepted = 0
        /\ overwritten = 0
        /\ out = 0

\* The reader hands over the next sample; a full queue loses its oldest.
Accept ==
    LET next == accepted + 1 IN
    /\ accepted' = next
    /\ IF Len(queue) < Capacity
       THEN /\ queue' = Append(queue, next)
            /\ UNCHANGED overwritten
       ELSE /\ queue' = Append(Tail(queue), next)
            /\ overwritten' = overwritten + 1
    /\ UNCHANGED out

\* The fusion thread receives the oldest sample.
Deliver ==
    /\ queue # << >>
    /\ out' = Head(queue)
    /\ queue' = Tail(queue)
    /\ UNCHANGED <<accepted, overwritten>>

Next == Accept \/ Deliver

Spec == Init /\ [][Next]_absVars
=============================================================================
