------------------------------- MODULE MagKeep -------------------------------
(***************************************************************************)
(* The samples imud-cal keeps of a magnetometer swing (cal_math.c          *)
(* cal_mag_keep): a swing has no length, the buffer has one.  Every        *)
(* stride-th sample is kept; when the buffer is full every second one is   *)
(* dropped and the stride doubles.  A sample is named by its number in the *)
(* swing, counted from 0.                                                  *)
(***************************************************************************)
EXTENDS Integers, Sequences

CONSTANT Cap    \* room in the buffer (MAG_KEEP)

\* An odd buffer would lose its last survivor when it is halved.
ASSUME CapAssumption == Cap \in Nat \ {0} /\ Cap % 2 = 0

KeepInit == [s |-> <<>>, seen |-> 0, stride |-> 1]

\* Every second one of the kept samples, in place, and twice the stride.
Halve(k) == [k EXCEPT !.s = [j \in 1 .. Cap \div 2 |-> k.s[2 * j - 1]],
                      !.stride = 2 * k.stride]

Room(k) == IF Len(k.s) = Cap THEN Halve(k) ELSE k

\* One sample offered to the buffer.
Keep(k) ==
  LET due == k.seen % k.stride = 0
      r   == Room(k)
      add == due /\ k.seen % r.stride = 0
  IN  [s      |-> IF add THEN Append(r.s, k.seen) ELSE IF due THEN r.s ELSE k.s,
       seen   |-> k.seen + 1,
       stride |-> IF due THEN r.stride ELSE k.stride]

\* However long the swing was, the samples the fit is made from are spread
\* over the whole of it at one distance, from its first sample to less than
\* one stride before its last.
Spread(k) ==
  /\ Len(k.s) <= Cap
  /\ \A j \in DOMAIN k.s : k.s[j] = (j - 1) * k.stride
  /\ (Len(k.s) - 1) * k.stride < k.seen /\ k.seen <= Len(k.s) * k.stride
=============================================================================
