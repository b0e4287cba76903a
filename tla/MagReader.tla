------------------------------- MODULE MagReader -------------------------------
(***************************************************************************)
(* The magnetometer's reader thread (src/src/imu.c mag_reader_thread): the *)
(* wait for the data-ready edge with its fallback, or the poll; the        *)
(* SET/RESET pulse that takes a read's place; the read with its            *)
(* acknowledge, which alone re-arms the latched line; the stall watch;     *)
(* error counting, resets and giving up.                                   *)
(*                                                                         *)
(* Time is counted in ticks, Period of them to a conversion.  The thread   *)
(* is prompt: time passes while it waits, and SlowReads times in all while *)
(* it has begun a read.                                                    *)
(***************************************************************************)
EXTENDS Integers

CONSTANTS
    Period,         \* ticks to a conversion
    FallbackWait,   \* imu_int_fallback_ms: the wait for an edge ends without one
    PollEvery,      \* imu_poll_interval_ms
    StallAfter,     \* imu_mag_stall_ms
    SetPeriods,     \* set_period_s, any of these
    MagErrors,      \* consecutive read errors before a reset (10)
    MagResets,      \* failed resets before the daemon is stopped (3)
    MagFaults,      \* failures of accesses, and of waits, on a working bus
    MissedEdges,    \* edges the host does not see
    SlowReads       \* ticks that pass within reads

\* What the configuration and the code give them; Readers assumes it.
MagConstants ==
    /\ {Period, FallbackWait, PollEvery, StallAfter, MagErrors, MagResets} \subseteq Nat \ {0}
    /\ {MagFaults, MissedEdges, SlowReads} \subseteq Nat
    /\ SetPeriods \subseteq Nat \ {0}

VARIABLES
    sensor,     \* the part: on (it converts), alive (its bus answers), phase; ready: the
                \* latched M_DONE and with it the line; fresh: its registers hold what was
                \* never read; edges: those queued at the host
    mag,        \* the thread's locals; line: it has an interrupt line, coil: the
                \* part has set_reset, to be used every so many ticks
    spare,      \* faults, missed edges and slow reads still to come
    gap,        \* ticks since the last field sample, or since something was amiss
    quiet       \* ticks since the last field sample, or the last counted error

magVars == <<sensor, mag, spare, gap, quiet>>

Limit == IF mag.line THEN FallbackWait ELSE PollEvery

\* No sample is later than this (two waits, one of them for a SET/RESET, and the
\* conversion), and no outage longer than QuietMost goes unsaid.
GapMost == 2 * Limit + Period + SlowReads
QuietMost == StallAfter + 2 * Limit + SlowReads

Init ==
    /\ sensor = [on |-> TRUE, alive |-> TRUE, phase |-> 0, ready |-> FALSE, fresh |-> FALSE, edges |-> 0]
    /\ \E line, coil \in BOOLEAN, every \in SetPeriods :
          mag = [line |-> line, coil |-> coil, every |-> every, pc |-> "wait", waited |-> 0, last_good |-> 0,
                 last_set |-> 0, stall_warned |-> FALSE, consec_errors |-> 0, reset_failures |-> 0,
                 held |-> FALSE, stop |-> FALSE]
    /\ spare = [faults |-> MagFaults, missed |-> MissedEdges, slow |-> SlowReads]
    /\ gap = 0 /\ quiet = 0

(* -------------------------------- mutants -------------------------------- *)

\* Bugs the checks must notice: a wait that believes only in edges, and failed
\* resets that are forgotten.
DueByEdge == IF mag.line THEN sensor.edges > 0 ELSE mag.waited >= PollEvery
ResetsForgotten(ok) == IF ok THEN 0 ELSE 1

(* --------------------------------- the part ------------------------------ *)

\* A conversion raises the line if it was down; one that is up raises no edge.
Converted(seen) ==
    IF ~sensor.on THEN sensor
    ELSE IF sensor.phase + 1 < Period THEN [sensor EXCEPT !.phase = @ + 1]
    ELSE [sensor EXCEPT !.phase = 0, !.fresh = TRUE, !.ready = TRUE,
                        !.edges = IF mag.line /\ ~sensor.ready /\ seen THEN @ + 1 ELSE @]

\* An edge, or the end of the wait.
Due == (mag.line /\ sensor.edges > 0) \/ mag.waited >= Limit
Waiting == mag.pc = "wait" /\ ~mag.stop

Longer(t, most) == IF t < most THEN t + 1 ELSE t
Tick ==
    /\ \/ Waiting /\ ~Due
       \/ mag.pc \in {"read", "ack"} /\ spare.slow > 0
    /\ \E seen \in BOOLEAN :
          /\ ~seen => spare.missed > 0 /\ Converted(TRUE) # Converted(FALSE)
          /\ sensor' = Converted(seen)
          /\ spare' = [spare EXCEPT !.missed = IF seen THEN @ ELSE @ - 1,
                                    !.slow = IF mag.pc = "wait" THEN @ ELSE @ - 1]
    /\ mag' = [mag EXCEPT !.waited = IF mag.pc = "wait" THEN @ + 1 ELSE @,
                          !.last_good = Longer(@, StallAfter), !.last_set = Longer(@, mag.every)]
    /\ gap' = IF sensor.on /\ sensor.alive THEN Longer(gap, GapMost + 1) ELSE 0
    /\ quiet' = Longer(quiet, QuietMost)

\* It stops converting, or starts again; its bus dies.
PartTurns == Waiting /\ sensor' = [sensor EXCEPT !.on = ~@, !.phase = 0] /\ gap' = 0 /\ UNCHANGED <<mag, spare, quiet>>
BusDies == sensor.alive /\ Waiting /\ sensor' = [sensor EXCEPT !.alive = FALSE] /\ gap' = 0 /\ UNCHANGED <<mag, spare, quiet>>

(* -------------------------------- the thread ----------------------------- *)

\* The pulse takes the place of this read; nothing acknowledges the line.
Pulsed(m) == [m EXCEPT !.pc = "wait", !.waited = 0, !.last_set = 0]
PulseDue == mag.coil /\ mag.last_set >= mag.every

\* A pulse that is due again before the wait is over leaves no turn to a read.
Starved == mag.coil /\ mag.every <= Limit

\* imu_gpio_wait_edge takes one event of the queue; without a line it is a sleep.
\* (A wait that fails is begun again after 5 ms, which changes nothing here.)
Wake ==
    /\ Waiting /\ Due
    /\ sensor' = [sensor EXCEPT !.edges = IF @ > 0 THEN @ - 1 ELSE 0]
    /\ mag' = IF PulseDue THEN Pulsed(mag) ELSE [mag EXCEPT !.pc = "read", !.waited = 0]
    /\ UNCHANGED <<spare, gap, quiet>>

\* A failure, as long as there are any left; of a dead bus always.
Faulty == IF sensor.alive THEN spare.faults > 0 /\ spare' = [spare EXCEPT !.faults = @ - 1] ELSE UNCHANGED spare
\* A read that found no new measurement: said once, if it has been so for long.
NothingYet(m) == [m EXCEPT !.stall_warned = @ \/ m.last_good >= StallAfter]

\* Without a line the status bit is asked.
NotReady ==
    /\ mag.pc = "read" /\ ~mag.line /\ ~sensor.ready /\ sensor.alive
    /\ mag' = [NothingYet(mag) EXCEPT !.pc = "wait"]
    /\ UNCHANGED <<sensor, spare, gap, quiet>>

\* The output registers are read, and then the line acknowledged: a conversion
\* between the two is acknowledged with it.
Burst ==
    /\ mag.pc = "read" /\ sensor.alive /\ (mag.line \/ sensor.ready)
    /\ mag' = [mag EXCEPT !.pc = "ack", !.held = sensor.fresh]
    /\ sensor' = [sensor EXCEPT !.fresh = FALSE]
    /\ UNCHANGED <<spare, gap, quiet>>

\* What was read was read before: nothing is handed on.
AckStale ==
    /\ mag.pc = "ack" /\ sensor.alive /\ mag.line /\ ~mag.held
    /\ sensor' = [sensor EXCEPT !.ready = FALSE]
    /\ mag' = [NothingYet(mag) EXCEPT !.pc = "wait"]
    /\ UNCHANGED <<spare, gap, quiet>>

\* A sample: calibrated, and pushed into fusion's ring.
Good(m) == [m EXCEPT !.stall_warned = FALSE, !.last_good = 0]
AckPush ==
    /\ mag.pc = "ack" /\ sensor.alive /\ (~mag.line \/ mag.held)
    /\ sensor' = [sensor EXCEPT !.ready = FALSE]
    /\ mag' = [Good(mag) EXCEPT !.pc = "wait", !.consec_errors = 0, !.held = FALSE]
    /\ gap' = 0 /\ quiet' = 0 /\ UNCHANGED spare

\* An access that fails: counted; it also ends an outage, and enough of them in a
\* row restart the part.
ReadFails ==
    /\ mag.pc \in {"read", "ack"} /\ Faulty
    /\ sensor' = [sensor EXCEPT !.fresh = @ \/ (mag.pc = "ack" /\ mag.held)]
    /\ LET many == mag.consec_errors + 1 >= MagErrors
       IN mag' = [Good(mag) EXCEPT !.pc = IF many THEN "recover" ELSE "wait", !.held = FALSE,
                                   !.consec_errors = IF many THEN 0 ELSE @ + 1]
    /\ gap' = 0 /\ quiet' = 0

Resets(ok) == IF ok THEN 0 ELSE mag.reset_failures + 1

\* reset and init: a failure may leave the part as it was, or stopped.  The third
\* in a row asks for the end of the process.
Recover ==
    /\ mag.pc = "recover"
    /\ \E how \in {"ok", "untouched", "stopped"} :
          /\ how # "untouched" => sensor.alive
          /\ IF how = "ok" THEN UNCHANGED spare ELSE Faulty
          /\ sensor' = IF how = "untouched" THEN sensor
                       ELSE [sensor EXCEPT !.on = (how = "ok"), !.phase = 0, !.ready = FALSE, !.fresh = FALSE]
          /\ LET fails == Resets(how = "ok")
             IN mag' = [mag EXCEPT !.pc = "wait", !.reset_failures = fails, !.stop = fails >= MagResets]
    /\ gap' = 0 /\ UNCHANGED quiet

Thread == \/ Wake \/ NotReady \/ Burst \/ AckStale \/ AckPush \/ ReadFails \/ Recover
GaveUp == mag.stop /\ UNCHANGED magVars

Next == Tick \/ PartTurns \/ BusDies \/ Thread \/ GaveUp

\* Time passes, and the thread, which is prompt, takes its steps.
Fairness == WF_magVars(Tick) /\ WF_magVars(Thread)
Spec == Init /\ [][Next]_magVars /\ Fairness

(* ------------------------------- properties ------------------------------ *)

Clock(t) == 0 .. t
TypeOK ==
    /\ sensor \in [on : BOOLEAN, alive : BOOLEAN, phase : 0 .. Period - 1, ready : BOOLEAN,
                   fresh : BOOLEAN, edges : 0 .. 2]
    /\ mag \in [line : BOOLEAN, coil : BOOLEAN, pc : {"wait", "read", "ack", "recover"},
                waited : Clock(FallbackWait) \union Clock(PollEvery), last_good : Clock(StallAfter),
                every : SetPeriods, last_set : Nat, stall_warned : BOOLEAN, consec_errors : 0 .. MagErrors - 1,
                reset_failures : 0 .. MagResets, held : BOOLEAN, stop : BOOLEAN]

\* A part that converts on a bus that works is heard: whatever edges are missed, and
\* whenever a pulse takes a read's place and leaves the line up, the next field
\* sample is two waits away at most (imu.c: the fallback is the only way back),
\* unless the pulses leave no turn to a read.
FieldKeepsComing == gap <= GapMost \/ Starved

\* An outage is said, within a stated time, and nothing else is: the warning stands
\* exactly while no sample, and no error that is counted instead, has come.
StallSaid ==
    /\ quiet >= QuietMost /\ ~mag.stop => mag.stall_warned \/ Starved
    /\ mag.stall_warned => quiet >= StallAfter

\* The field is watched: what comes is passed on, what does not is said.
FieldWatched == TypeOK /\ FieldKeepsComing /\ StallSaid

\* A bus that answers nothing any more ends the daemon, if it is read at all.
DeadMagStops == (~sensor.alive /\ ~Starved) ~> mag.stop
=============================================================================
