------------------------------- MODULE MCDrivers -------------------------------
(* Drivers for TLC: what is asked of a part.  Rates below, on, between and      *)
(* above the rungs, and a range some parts have not.                            *)
EXTENDS Drivers

Asked == {[accel |-> 16, gyro |-> 500, odr |-> 13000, irq |-> FALSE],
          [accel |-> 2, gyro |-> 2000, odr |-> 400000, irq |-> TRUE],
          [accel |-> 4, gyro |-> 1000, odr |-> 26100, irq |-> FALSE],
          [accel |-> 8, gyro |-> 250, odr |-> 40000000, irq |-> TRUE],
          [accel |-> 2, gyro |-> 125, odr |-> 1562, irq |-> FALSE],
          [accel |-> 3, gyro |-> 2000, odr |-> 1000, irq |-> TRUE]}
=============================================================================
