---------------------------- MODULE Sensors_proofs ----------------------------
(***************************************************************************)
(* Proofs about how sensors are read: the field reader of Readers, for any *)
(* periods, waits, limits and numbers of faults; the inertial reader of    *)
(* Acquisition, for any FIFO, batch, limits and faults; and the shared     *)
(* bridges of UsbBus, for any nodes, sensors, transfers and buffer size.   *)
(***************************************************************************)
EXTENDS Readers, UsbBus, WellFoundedInduction, TLAPS

(***************************************************************************)
(* The two readers.  A magnetometer that converts is heard, two waits and  *)
(* a conversion later at most, and an outage is said within a stated time  *)
(* and nothing else is.  The inertial reader's steps leave the field's     *)
(* alone, so the invariant is about MagReader's variables.                 *)
(***************************************************************************)


(* ------------------------------- invariants ------------------------------ *)

\* A field sample the thread has not passed on yet is there to be read: in the part,
\* or in hand between the burst and its acknowledge.
Coming == IF mag.line THEN sensor.fresh \/ mag.held ELSE sensor.ready \/ mag.pc = "ack"

\* A SET/RESET pulse may still take the place of the next read: not if the last one
\* was the start of this wait.
PulseMayCome == mag.coil /\ mag.last_set > mag.waited

\* The most ticks until a read is over, and until one that pushes a sample is.
ToRead == IF mag.pc # "wait" THEN spare.slow
          ELSE (Mag!Limit - mag.waited) + (IF PulseMayCome THEN Mag!Limit ELSE 0) + spare.slow
ToPush == IF mag.pc = "ack" /\ mag.line /\ ~mag.held THEN 2 * Mag!Limit + spare.slow ELSE ToRead

FieldKinds ==
    /\ Mag!TypeOK
    /\ spare \in [faults : Nat, missed : Nat, slow : 0 .. SlowReads] /\ gap \in Nat /\ quiet \in Nat

\* The wait is bounded; a sample is in hand only before its acknowledge; a stopped
\* thread waits for good.
ThreadInv ==
    /\ mag.waited <= Mag!Limit /\ (mag.pc # "wait" => mag.waited = 0 /\ ~mag.stop)
    /\ mag.held => mag.pc = "ack"
    /\ mag.pc = "recover" => quiet = 0
    /\ ~mag.stop => mag.reset_failures < MagResets

\* The latched line raises one edge at most until it is acknowledged.
EdgeInv == sensor.edges <= 1 /\ (mag.pc \in {"read", "ack"} /\ ~sensor.ready => sensor.edges = 0)

\* What has passed since the last sample leaves room for what it may still take.
GapInv == ~Mag!Starved => IF Coming THEN gap + ToPush <= Mag!GapMost ELSE gap <= sensor.phase
QuietInv ==
    /\ mag.last_good = IF quiet < StallAfter THEN quiet ELSE StallAfter
    /\ mag.stall_warned => quiet >= StallAfter
    /\ ~Mag!Starved /\ ~mag.stop /\ ~mag.stall_warned /\ quiet >= StallAfter => quiet + ToRead < Mag!QuietMost

Inv == FieldKinds /\ ThreadInv /\ EdgeInv /\ GapInv /\ QuietInv

(* ------------------------------- lemmas ---------------------------------- *)

\* The bounds, and what is a number.
LEMMA Numbers ==
    ASSUME Mag!MagConstants, FieldKinds
    PROVE  /\ Mag!Limit \in Nat \ {0} /\ Period \in Nat \ {0} /\ StallAfter \in Nat \ {0}
           /\ SlowReads \in Nat /\ MagErrors \in Nat \ {0} /\ MagResets \in Nat \ {0}
           /\ Mag!GapMost = 2 * Mag!Limit + Period + SlowReads /\ Mag!QuietMost = StallAfter + 2 * Mag!Limit + SlowReads
           /\ Mag!GapMost \in Nat /\ Mag!QuietMost \in Nat /\ gap \in Nat /\ quiet \in Nat
           /\ mag.waited \in Nat /\ mag.last_good \in 0 .. StallAfter /\ mag.last_set \in Nat
           /\ mag.every \in Nat \ {0} /\ mag.every \in SetPeriods
           /\ mag.consec_errors \in 0 .. MagErrors - 1
           /\ mag.reset_failures \in 0 .. MagResets
           /\ sensor.phase \in 0 .. Period - 1 /\ sensor.edges \in 0 .. 2
           /\ spare.slow \in 0 .. SlowReads /\ spare.faults \in Nat /\ spare.missed \in Nat
           /\ mag.pc \in {"wait", "read", "ack", "recover"}
<1>1. /\ {Period, FallbackWait, PollEvery, StallAfter, MagErrors, MagResets} \subseteq Nat \ {0}
      /\ SlowReads \in Nat /\ SetPeriods \subseteq Nat \ {0}
  BY DEF Mag!MagConstants
<1>2. Mag!Limit \in Nat \ {0}
  BY <1>1 DEF Mag!Limit
<1>3. /\ sensor.phase \in 0 .. Period - 1 /\ sensor.edges \in 0 .. 2
      /\ mag.waited \in Mag!Clock(FallbackWait) \union Mag!Clock(PollEvery)
      /\ mag.last_good \in Mag!Clock(StallAfter) /\ mag.last_set \in Nat /\ mag.every \in SetPeriods
      /\ mag.consec_errors \in 0 .. MagErrors - 1 /\ mag.reset_failures \in 0 .. MagResets
      /\ mag.pc \in {"wait", "read", "ack", "recover"}
  BY DEF FieldKinds, Mag!TypeOK
<1>4. /\ spare.slow \in 0 .. SlowReads /\ spare.faults \in Nat /\ spare.missed \in Nat
      /\ gap \in Nat /\ quiet \in Nat
  BY DEF FieldKinds
<1>5. /\ Mag!GapMost = 2 * Mag!Limit + Period + SlowReads /\ Mag!QuietMost = StallAfter + 2 * Mag!Limit + SlowReads
      /\ Mag!GapMost \in Nat /\ Mag!QuietMost \in Nat
  BY <1>1, <1>2 DEF Mag!GapMost, Mag!QuietMost
<1>6. mag.waited \in Nat /\ mag.last_good \in 0 .. StallAfter
  BY <1>1, <1>3 DEF Mag!Clock
<1>7. /\ Period \in Nat \ {0} /\ StallAfter \in Nat \ {0} /\ MagErrors \in Nat \ {0}
      /\ MagResets \in Nat \ {0} /\ mag.every \in Nat \ {0}
  BY <1>1, <1>3
<1> QED BY <1>1, <1>2, <1>3, <1>4, <1>5, <1>6, <1>7

\* What the configuration has said is not changed by a step.
LEMMA Settings ==
    ASSUME mag'.line = mag.line, mag'.coil = mag.coil, mag'.every = mag.every
    PROVE  /\ Mag!Limit' = Mag!Limit /\ Mag!GapMost' = Mag!GapMost /\ Mag!QuietMost' = Mag!QuietMost
           /\ Mag!Starved' <=> Mag!Starved
<1>1. Mag!Limit' = Mag!Limit
  BY Zenon DEF Mag!Limit
<1> QED BY <1>1, Zenon DEF Mag!GapMost, Mag!QuietMost, Mag!Starved

\* A read is never further off than two waits.
LEMMA Reach ==
    ASSUME Mag!MagConstants, FieldKinds, ThreadInv
    PROVE  /\ ToRead \in Nat /\ ToPush \in Nat
           /\ ToRead <= 2 * Mag!Limit + spare.slow /\ ToPush <= 2 * Mag!Limit + spare.slow
           /\ ToRead <= ToPush
<1>1. mag.waited <= Mag!Limit
  BY DEF ThreadInv
<1>2. ToRead \in Nat /\ ToRead <= 2 * Mag!Limit + spare.slow
  BY <1>1, Numbers DEF ToRead
<1>3. ToPush \in Nat /\ ToPush <= 2 * Mag!Limit + spare.slow
  BY <1>2, Numbers DEF ToPush
<1>4. ToRead <= ToPush
  <2>1. CASE mag.pc = "ack" /\ mag.line /\ ~mag.held
    BY <2>1, <1>2, Numbers DEF ToPush
  <2>2. CASE ~(mag.pc = "ack" /\ mag.line /\ ~mag.held)
    BY <2>2, <1>2, Numbers DEF ToPush
  <2> QED BY <2>1, <2>2
<1> QED BY <1>2, <1>3, <1>4

LEMMA InitInv == ASSUME Mag!MagConstants, Mag!Init PROVE Inv
<1>1. /\ {Period, FallbackWait, PollEvery, StallAfter, MagErrors, MagResets} \subseteq Nat \ {0}
      /\ {MagFaults, MissedEdges, SlowReads} \subseteq Nat /\ SetPeriods \subseteq Nat \ {0}
  BY DEF Mag!MagConstants
<1>2. /\ sensor = [on |-> TRUE, alive |-> TRUE, phase |-> 0, ready |-> FALSE, fresh |-> FALSE, edges |-> 0]
      /\ spare = [faults |-> MagFaults, missed |-> MissedEdges, slow |-> SlowReads]
      /\ gap = 0 /\ quiet = 0
  BY DEF Mag!Init
<1>3. PICK line \in BOOLEAN, coil \in BOOLEAN, every \in SetPeriods :
          mag = [line |-> line, coil |-> coil, every |-> every, pc |-> "wait", waited |-> 0, last_good |-> 0,
                 last_set |-> 0, stall_warned |-> FALSE, consec_errors |-> 0, reset_failures |-> 0,
                 held |-> FALSE, stop |-> FALSE]
  BY DEF Mag!Init
<1>4. Mag!TypeOK
  <2>1. sensor \in [on : BOOLEAN, alive : BOOLEAN, phase : 0 .. Period - 1, ready : BOOLEAN,
                    fresh : BOOLEAN, edges : 0 .. 2]
    BY <1>1, <1>2
  <2>2. /\ 0 \in Mag!Clock(FallbackWait) \union Mag!Clock(PollEvery) /\ 0 \in Mag!Clock(StallAfter)
        /\ 0 \in 0 .. MagErrors - 1 /\ 0 \in 0 .. MagResets /\ 0 \in Nat
    BY <1>1 DEF Mag!Clock
  <2> QED BY <1>3, <2>1, <2>2 DEF Mag!TypeOK
<1>5. FieldKinds
  BY <1>1, <1>2, <1>4 DEF FieldKinds
<1>6. mag.waited = 0 /\ mag.pc = "wait" /\ ~mag.held /\ mag.reset_failures = 0
      /\ mag.last_good = 0 /\ mag.last_set = 0 /\ ~mag.stall_warned
  BY <1>3
<1>7. ThreadInv
  BY <1>5, <1>6, Numbers DEF ThreadInv
<1>8. EdgeInv
  BY <1>2, <1>6 DEF EdgeInv
<1>9. GapInv
  BY <1>2, <1>6 DEF GapInv, Coming
<1>10. QuietInv
  BY <1>1, <1>2, <1>6 DEF QuietInv
<1> QED BY <1>5, <1>7, <1>8, <1>9, <1>10 DEF Inv

(* ------------------------------- the types ------------------------------- *)

Parts == [on : BOOLEAN, alive : BOOLEAN, phase : 0 .. Period - 1, ready : BOOLEAN,
          fresh : BOOLEAN, edges : 0 .. 2]
Waits == Mag!Clock(FallbackWait) \union Mag!Clock(PollEvery)
Threads == [line : BOOLEAN, coil : BOOLEAN, pc : {"wait", "read", "ack", "recover"},
            waited : Waits, last_good : Mag!Clock(StallAfter),
            every : SetPeriods, last_set : Nat, stall_warned : BOOLEAN, consec_errors : 0 .. MagErrors - 1,
            reset_failures : 0 .. MagResets, held : BOOLEAN, stop : BOOLEAN]

LEMMA TypesAre == Mag!TypeOK <=> sensor \in Parts /\ mag \in Threads
  BY DEF Mag!TypeOK, Parts, Threads, Waits

LEMMA NextTypes ==
    ASSUME sensor' \in Parts, mag' \in Threads,
           spare' \in [faults : Nat, missed : Nat, slow : 0 .. SlowReads], gap' \in Nat, quiet' \in Nat
    PROVE  FieldKinds'
  BY DEF FieldKinds, Mag!TypeOK, Parts, Threads, Waits

\* A wait that begins.
LEMMA Zero == ASSUME Mag!MagConstants PROVE 0 \in Waits /\ 0 \in Mag!Clock(StallAfter) /\ 0 \in 0 .. MagErrors - 1
  BY DEF Mag!MagConstants, Waits, Mag!Clock

(* --------------------------------- the part ------------------------------ *)

LEMMA PartInv == ASSUME Mag!MagConstants, Inv, Mag!PartTurns \/ Mag!BusDies PROVE Inv'
<1>1. /\ UNCHANGED <<mag, spare, quiet>> /\ gap' = 0
      /\ mag.pc = "wait" /\ ~mag.stop
      /\ \/ sensor' = [sensor EXCEPT !.on = ~@, !.phase = 0]
         \/ sensor' = [sensor EXCEPT !.alive = FALSE]
  BY DEF Mag!PartTurns, Mag!BusDies, Mag!Waiting
<1>2. sensor \in Parts /\ mag \in Threads
  BY TypesAre DEF Inv, FieldKinds
<1>3. /\ sensor' \in Parts /\ sensor'.ready = sensor.ready /\ sensor'.fresh = sensor.fresh
      /\ sensor'.edges = sensor.edges /\ sensor'.phase \in Nat
  <2>1. 0 \in 0 .. Period - 1 /\ 0 \in Nat /\ 0 .. Period - 1 \subseteq Nat
    BY DEF Mag!MagConstants
  <2>2. (~sensor.on) \in BOOLEAN
    OBVIOUS
  <2>3. CASE sensor' = [sensor EXCEPT !.on = ~sensor.on, !.phase = 0]
    BY <1>2, <2>1, <2>2, <2>3 DEF Parts
  <2>4. CASE sensor' = [sensor EXCEPT !.alive = FALSE]
    BY <1>2, <2>1, <2>4 DEF Parts
  <2> QED BY <1>1, <2>3, <2>4
<1>4. FieldKinds'
  BY <1>1, <1>2, <1>3, NextTypes DEF Inv, FieldKinds
<1>5. ThreadInv' /\ EdgeInv' /\ QuietInv'
  <2>1. UNCHANGED <<Mag!Limit, Mag!Starved, Mag!QuietMost, ToRead>>
    BY <1>1 DEF Mag!Limit, Mag!Starved, Mag!QuietMost, ToRead, PulseMayCome
  <2> QED BY <1>1, <1>3, <2>1 DEF Inv, ThreadInv, EdgeInv, QuietInv
<1>6. GapInv'
  <2>1. ToPush' <= 2 * Mag!Limit + spare.slow /\ ToPush' \in Nat
    <3>1. ToPush' = ToPush
      BY <1>1 DEF ToPush, ToRead, PulseMayCome, Mag!Limit
    <3> QED BY <3>1, Reach DEF Inv
  <2>2. Mag!GapMost' = Mag!GapMost
    BY <1>1 DEF Mag!GapMost, Mag!Limit
  <2>3. Mag!GapMost = 2 * Mag!Limit + Period + SlowReads /\ spare.slow <= SlowReads
        /\ {Mag!Limit, Period, SlowReads, spare.slow} \subseteq Nat
    BY Numbers DEF Inv
  <2>4. gap' + ToPush' <= Mag!GapMost' /\ gap' <= sensor'.phase
    BY <1>1, <1>3, <2>1, <2>2, <2>3
  <2> QED BY <2>4, Zenon DEF GapInv
<1> QED BY <1>4, <1>5, <1>6 DEF Inv

(* -------------------------------- the thread ----------------------------- *)

\* A step of the thread takes no time: what it leaves to be done is enough for the
\* two time bounds, whatever the step.
LEMMA ThreadKeeps ==
    ASSUME Mag!MagConstants, Inv, FieldKinds', ThreadInv', EdgeInv',
           mag'.line = mag.line, mag'.coil = mag.coil, mag'.every = mag.every,
           sensor'.phase = sensor.phase,
           spare'.slow = spare.slow, gap' = gap, quiet' = quiet, mag'.last_good = mag.last_good,
           ~Mag!Starved /\ Coming => Coming' /\ ToPush' <= ToPush,
           ~Coming => ~Coming',
           mag.stall_warned => mag'.stall_warned,
           mag'.stall_warned => mag.stall_warned \/ mag.last_good >= StallAfter,
           ~Mag!Starved /\ ~mag'.stall_warned /\ mag.last_good >= StallAfter => ToRead' <= ToRead,
           mag'.stop = mag.stop
    PROVE  GapInv' /\ QuietInv'
<1>1. Mag!Limit' = Mag!Limit /\ Mag!GapMost' = Mag!GapMost /\ Mag!QuietMost' = Mag!QuietMost /\ (Mag!Starved' <=> Mag!Starved)
  BY Settings
<1>2. ToPush \in Nat /\ ToRead \in Nat
  BY Reach DEF Inv
<1>3. ToPush' \in Nat /\ ToRead' \in Nat
  <2>1. spare'.slow \in Nat /\ mag'.waited \in Nat /\ mag'.waited <= Mag!Limit' /\ Mag!Limit' \in Nat
    <3>1. mag'.waited \in Waits /\ Waits \subseteq Nat
      BY DEF FieldKinds, Mag!TypeOK, Waits, Mag!Clock, Mag!MagConstants
    <3>2. mag'.waited <= Mag!Limit'
      BY DEF ThreadInv
    <3>3. Mag!Limit \in Nat /\ spare.slow \in Nat
      BY Numbers DEF Inv
    <3> QED BY <1>1, <3>1, <3>2, <3>3
  <2>2. ToRead' \in Nat
    BY <2>1 DEF ToRead
  <2> QED BY <2>1, <2>2 DEF ToPush
<1>4. GapInv'
  <2> SUFFICES ASSUME ~Mag!Starved
               PROVE  IF Coming' THEN gap + ToPush' <= Mag!GapMost ELSE gap <= sensor.phase
    BY <1>1, Zenon DEF GapInv
  <2>1. CASE Coming
    <3>1. gap + ToPush <= Mag!GapMost /\ Coming' /\ ToPush' <= ToPush
      BY <2>1 DEF Inv, GapInv
    <3>2. gap + ToPush' <= Mag!GapMost
      BY <1>2, <1>3, <3>1, Numbers DEF Inv
    <3> QED BY <3>1, <3>2
  <2>2. CASE ~Coming
    BY <2>2 DEF Inv, GapInv
  <2> QED BY <2>1, <2>2
<1>5. QuietInv'
  <2>1. mag'.last_good = IF quiet' < StallAfter THEN quiet' ELSE StallAfter
    BY DEF Inv, QuietInv
  <2>2. mag.last_good >= StallAfter <=> quiet >= StallAfter
    BY Numbers DEF Inv, QuietInv
  <2>3. mag'.stall_warned => quiet' >= StallAfter
    BY <2>2 DEF Inv, QuietInv
  <2>4. ASSUME ~Mag!Starved, ~mag'.stop, ~mag'.stall_warned, quiet >= StallAfter
        PROVE  quiet + ToRead' < Mag!QuietMost
    <3>1. ToRead' <= ToRead /\ ~mag.stop /\ ~mag.stall_warned
      BY <2>2, <2>4
    <3>2. quiet + ToRead < Mag!QuietMost
      BY <2>4, <3>1 DEF Inv, QuietInv
    <3> QED BY <1>2, <1>3, <3>1, <3>2, Numbers DEF Inv
  <2> QED BY <1>1, <2>1, <2>3, <2>4 DEF QuietInv
<1> QED BY <1>4, <1>5

\* An edge, or the end of the wait; a pulse is only due if none began this wait.
LEMMA WakeInv == ASSUME Mag!MagConstants, Inv, Mag!Wake PROVE Inv'
<1>1. /\ mag.pc = "wait" /\ ~mag.stop /\ UNCHANGED <<spare, gap, quiet>>
      /\ sensor' = [sensor EXCEPT !.edges = IF @ > 0 THEN @ - 1 ELSE 0]
      /\ \/ Mag!PulseDue /\ mag' = [mag EXCEPT !.pc = "wait", !.waited = 0, !.last_set = 0]
         \/ ~Mag!PulseDue /\ mag' = [mag EXCEPT !.pc = "read", !.waited = 0]
  BY DEF Mag!Wake, Mag!Waiting, Mag!Pulsed
<1>2. sensor \in Parts /\ mag \in Threads
  BY TypesAre DEF Inv, FieldKinds
<1>3. sensor.edges \in {0, 1}
  BY Numbers DEF Inv, EdgeInv
<1>4. /\ sensor' \in Parts /\ sensor'.edges = 0 /\ sensor'.phase = sensor.phase
      /\ sensor'.ready = sensor.ready /\ sensor'.fresh = sensor.fresh
  BY <1>1, <1>2, <1>3 DEF Parts
<1>5. /\ mag' \in Threads /\ mag'.line = mag.line /\ mag'.coil = mag.coil /\ mag'.every = mag.every
      /\ mag'.waited = 0 /\ mag'.last_good = mag.last_good /\ mag'.stall_warned = mag.stall_warned
      /\ mag'.stop = mag.stop /\ mag'.held = mag.held /\ mag'.reset_failures = mag.reset_failures
      /\ mag'.pc = "read" \/ (mag'.pc = "wait" /\ mag'.last_set = 0 /\ Mag!PulseDue)
  <2>1. 0 \in Waits /\ 0 \in Nat
    BY Zero
  <2>2. CASE Mag!PulseDue /\ mag' = [mag EXCEPT !.pc = "wait", !.waited = 0, !.last_set = 0]
    BY <1>2, <2>1, <2>2 DEF Threads
  <2>3. CASE mag' = [mag EXCEPT !.pc = "read", !.waited = 0]
    BY <1>2, <2>1, <2>3 DEF Threads
  <2> QED BY <1>1, <2>2, <2>3
<1>6. FieldKinds'
  BY <1>1, <1>4, <1>5, NextTypes DEF Inv, FieldKinds
<1>7. ThreadInv' /\ EdgeInv'
  <2>1. mag'.pc # "recover" /\ Mag!Limit' = Mag!Limit /\ 0 <= Mag!Limit
    BY <1>5, Settings, Numbers DEF Inv
  <2> QED BY <1>1, <1>4, <1>5, <2>1 DEF Inv, ThreadInv, EdgeInv
<1>8. Coming' <=> Coming
  <2>1. mag'.pc # "ack"
    BY <1>5
  <2> QED BY <1>1, <1>4, <1>5, <2>1 DEF Coming
<1>9. ASSUME ~Mag!Starved PROVE ToRead' <= ToRead /\ ToPush' <= ToPush
  <2>1. ToPush' = ToRead' /\ ToPush = ToRead
    BY <1>1, <1>5 DEF ToPush
  <2>2. mag.waited <= Mag!Limit /\ Mag!Limit \in Nat /\ mag.waited \in Nat /\ spare.slow \in Nat /\ Mag!Limit' = Mag!Limit
    BY <1>5, Settings, Numbers DEF Inv, ThreadInv
  <2>3. CASE mag'.pc = "read"
    <3>1. ToRead' = spare.slow
      BY <1>1, <2>3 DEF ToRead
    <3>2. ToRead >= spare.slow
      BY <2>2, <1>1 DEF ToRead
    <3> QED BY <2>1, <3>1, <3>2, <2>2
  <2>4. CASE mag'.pc = "wait" /\ mag'.last_set = 0 /\ Mag!PulseDue
    <3>1. mag.coil /\ mag.last_set >= mag.every /\ mag.every > Mag!Limit
      BY <1>9, <2>2, <2>4, Numbers DEF Inv, Mag!PulseDue, Mag!Starved
    <3>2. PulseMayCome
      BY <2>2, <3>1, Numbers DEF Inv, PulseMayCome
    <3>3. ToRead = (Mag!Limit - mag.waited) + Mag!Limit + spare.slow
      BY <1>1, <3>2 DEF ToRead
    <3>4. ~PulseMayCome'
      BY <1>5, <2>4 DEF PulseMayCome
    <3>5. ToRead' = (Mag!Limit - 0) + 0 + spare.slow
      BY <1>1, <1>5, <2>2, <2>4, <3>4 DEF ToRead
    <3> QED BY <2>1, <2>2, <3>3, <3>5
  <2> QED BY <1>5, <2>3, <2>4
<1>10. GapInv' /\ QuietInv'
  BY <1>1, <1>4, <1>5, <1>6, <1>7, <1>8, <1>9, ThreadKeeps
<1> QED BY <1>6, <1>7, <1>10 DEF Inv

\* A read that brings nothing: it waits again, and says so if it has been so for long.
LEMMA NothingInv == ASSUME Mag!MagConstants, Inv, Mag!NotReady \/ Mag!AckStale PROVE Inv'
<1>1. /\ UNCHANGED <<spare, gap, quiet>>
      /\ mag' = [mag EXCEPT !.stall_warned = @ \/ mag.last_good >= StallAfter, !.pc = "wait"]
      /\ \/ mag.pc = "read" /\ ~mag.line /\ ~sensor.ready /\ sensor' = sensor
         \/ mag.pc = "ack" /\ mag.line /\ ~mag.held /\ sensor' = [sensor EXCEPT !.ready = FALSE]
  BY DEF Mag!NotReady, Mag!AckStale, Mag!NothingYet
<1>2. sensor \in Parts /\ mag \in Threads
  BY TypesAre DEF Inv, FieldKinds
<1>3. /\ sensor' \in Parts /\ sensor'.edges = sensor.edges /\ sensor'.phase = sensor.phase
      /\ sensor'.fresh = sensor.fresh /\ (~mag.line => sensor'.ready = sensor.ready)
  BY <1>1, <1>2 DEF Parts
<1>4. (mag.stall_warned \/ mag.last_good >= StallAfter) \in BOOLEAN
  OBVIOUS
<1>5. /\ mag' \in Threads /\ mag'.line = mag.line /\ mag'.coil = mag.coil /\ mag'.every = mag.every
      /\ mag'.waited = mag.waited /\ mag'.last_good = mag.last_good /\ mag'.last_set = mag.last_set
      /\ mag'.stop = mag.stop /\ mag'.held = mag.held /\ mag'.reset_failures = mag.reset_failures
      /\ mag'.pc = "wait"
  BY <1>1, <1>2, <1>4 DEF Threads
<1>6. mag'.stall_warned <=> mag.stall_warned \/ mag.last_good >= StallAfter
  BY <1>1, <1>2 DEF Threads
<1>7. FieldKinds'
  BY <1>1, <1>3, <1>5, NextTypes DEF Inv, FieldKinds
<1>8. mag.waited = 0 /\ ~mag.stop /\ ~mag.held
  BY <1>1 DEF Inv, ThreadInv
<1>9. ThreadInv' /\ EdgeInv'
  <2>1. Mag!Limit' = Mag!Limit /\ 0 <= Mag!Limit
    BY <1>5, Settings, Numbers DEF Inv
  <2> QED BY <1>1, <1>3, <1>5, <1>8, <2>1 DEF Inv, ThreadInv, EdgeInv
<1>10. Coming' <=> Coming
  BY <1>1, <1>3, <1>5, <1>8 DEF Coming
\* Only a burst that found nothing new leaves a sample to the next read, two waits on.
<1>11. Coming => ToPush' <= ToPush
  <2> SUFFICES ASSUME Coming PROVE ToPush' <= ToPush
    OBVIOUS
  <2>1. mag.pc = "ack" /\ mag.line
    BY <1>1, <1>8 DEF Coming
  <2>2. ToPush = 2 * Mag!Limit + spare.slow
    BY <1>8, <2>1 DEF ToPush
  <2>3. ToPush' = ToRead' /\ Mag!Limit' = Mag!Limit
    BY <1>5, Settings DEF ToPush
  <2>4. ToRead' <= 2 * Mag!Limit + spare.slow
    BY <1>1, <1>5, <1>8, <2>3, Numbers DEF ToRead, Inv
  <2> QED BY <2>2, <2>3, <2>4
<1>12. GapInv' /\ QuietInv'
  BY <1>1, <1>3, <1>5, <1>6, <1>7, <1>9, <1>10, <1>11, ThreadKeeps
<1> QED BY <1>7, <1>9, <1>12 DEF Inv

\* The registers are read: what was in the part is in hand.
LEMMA BurstInv == ASSUME Mag!MagConstants, Inv, Mag!Burst PROVE Inv'
<1>1. /\ mag.pc = "read" /\ (mag.line \/ sensor.ready) /\ UNCHANGED <<spare, gap, quiet>>
      /\ mag' = [mag EXCEPT !.pc = "ack", !.held = sensor.fresh]
      /\ sensor' = [sensor EXCEPT !.fresh = FALSE]
  BY DEF Mag!Burst
<1>2. sensor \in Parts /\ mag \in Threads
  BY TypesAre DEF Inv, FieldKinds
<1>3. /\ sensor' \in Parts /\ sensor'.edges = sensor.edges /\ sensor'.phase = sensor.phase
      /\ ~sensor'.fresh /\ sensor'.ready = sensor.ready /\ sensor.fresh \in BOOLEAN
  BY <1>1, <1>2 DEF Parts
<1>4. /\ mag' \in Threads /\ mag'.line = mag.line /\ mag'.coil = mag.coil /\ mag'.every = mag.every
      /\ mag'.waited = mag.waited /\ mag'.last_good = mag.last_good /\ mag'.last_set = mag.last_set
      /\ mag'.stop = mag.stop /\ mag'.held = sensor.fresh /\ mag'.reset_failures = mag.reset_failures
      /\ mag'.pc = "ack" /\ mag'.stall_warned = mag.stall_warned
  BY <1>1, <1>2, <1>3 DEF Threads
<1>5. FieldKinds'
  BY <1>1, <1>3, <1>4, NextTypes DEF Inv, FieldKinds
<1>6. mag.waited = 0 /\ ~mag.stop /\ ~mag.held
  BY <1>1 DEF Inv, ThreadInv
<1>7. ThreadInv' /\ EdgeInv'
  <2>1. Mag!Limit' = Mag!Limit
    BY <1>4, Settings
  <2> QED BY <1>1, <1>3, <1>4, <1>6, <2>1 DEF Inv, ThreadInv, EdgeInv
<1>8. Coming' <=> Coming
  BY <1>1, <1>3, <1>4, <1>6 DEF Coming
<1>9. ToRead' = ToRead
  BY <1>1, <1>4 DEF ToRead
<1>10. Coming => ToPush' = ToPush
  BY <1>1, <1>4, <1>6, <1>9 DEF Coming, ToPush
<1>11. ToRead <= ToRead /\ ToPush <= ToPush
  BY Reach DEF Inv
<1>12. GapInv' /\ QuietInv'
  BY <1>1, <1>3, <1>4, <1>5, <1>7, <1>8, <1>9, <1>10, <1>11, ThreadKeeps
<1> QED BY <1>5, <1>7, <1>12 DEF Inv

\* The same reach after a step.
LEMMA ReachNext ==
    ASSUME Mag!MagConstants, FieldKinds', ThreadInv'
    PROVE  /\ Mag!Limit' \in Nat /\ Mag!GapMost' = 2 * Mag!Limit' + Period + SlowReads
           /\ {Period, SlowReads} \subseteq Nat
           /\ sensor'.phase \in Nat /\ spare'.slow \in Nat /\ spare'.slow <= SlowReads
           /\ ToPush' \in Nat /\ ToPush' <= 2 * Mag!Limit' + spare'.slow
           /\ ToRead' \in Nat /\ ToRead' <= 2 * Mag!Limit' + spare'.slow
<1>1. /\ Mag!Limit' \in Nat /\ {Period, SlowReads, StallAfter} \subseteq Nat
      /\ Mag!GapMost' = 2 * Mag!Limit' + Period + SlowReads
  BY DEF Mag!MagConstants, Mag!Limit, Mag!GapMost
<1>2. /\ sensor'.phase \in Nat /\ spare'.slow \in Nat /\ spare'.slow <= SlowReads
      /\ mag'.waited \in Nat /\ mag'.waited <= Mag!Limit'
  <2>1. mag'.waited \in Mag!Clock(FallbackWait) \union Mag!Clock(PollEvery) /\ sensor'.phase \in 0 .. Period - 1
    BY DEF FieldKinds, Mag!TypeOK
  <2>2. spare'.slow \in 0 .. SlowReads /\ mag'.waited <= Mag!Limit'
    BY DEF FieldKinds, ThreadInv
  <2> QED BY <1>1, <2>1, <2>2 DEF Mag!Clock, Mag!MagConstants
<1>3. ToRead' \in Nat /\ ToRead' <= 2 * Mag!Limit' + spare'.slow
  BY <1>1, <1>2 DEF ToRead
<1>4. ToPush' \in Nat /\ ToPush' <= 2 * Mag!Limit' + spare'.slow
  BY <1>1, <1>2, <1>3 DEF ToPush
<1> QED BY <1>1, <1>2, <1>3, <1>4

\* When the count starts again there is time for everything.
LEMMA GapRestarts ==
    ASSUME Mag!MagConstants, FieldKinds', ThreadInv', gap' = 0
    PROVE  GapInv'
<1>1. gap' + ToPush' <= Mag!GapMost' /\ gap' <= sensor'.phase
  BY ReachNext
<1> QED BY <1>1, Zenon DEF GapInv

\* After a sample or a counted error nothing is to be said for a while.
LEMMA QuietRestarts ==
    ASSUME Mag!MagConstants, quiet' = 0, mag'.last_good = 0, ~mag'.stall_warned
    PROVE  QuietInv'
<1>1. StallAfter \in Nat \ {0}
  BY DEF Mag!MagConstants
<1> QED BY <1>1 DEF QuietInv

\* A sample is pushed.
LEMMA AckPushInv == ASSUME Mag!MagConstants, Inv, Mag!AckPush PROVE Inv'
<1>1. /\ mag.pc = "ack" /\ gap' = 0 /\ quiet' = 0 /\ spare' = spare
      /\ sensor' = [sensor EXCEPT !.ready = FALSE]
      /\ mag' = [mag EXCEPT !.stall_warned = FALSE, !.last_good = 0, !.pc = "wait", !.consec_errors = 0, !.held = FALSE]
  BY DEF Mag!AckPush, Mag!Good
<1>2. sensor \in Parts /\ mag \in Threads
  BY TypesAre DEF Inv, FieldKinds
<1>3. sensor' \in Parts /\ sensor'.edges = sensor.edges
  BY <1>1, <1>2 DEF Parts
<1>4. /\ mag' \in Threads /\ mag'.line = mag.line /\ mag'.coil = mag.coil /\ mag'.every = mag.every
      /\ mag'.waited = mag.waited /\ mag'.last_good = 0 /\ ~mag'.stall_warned /\ mag'.pc = "wait"
      /\ mag'.stop = mag.stop /\ ~mag'.held /\ mag'.reset_failures = mag.reset_failures
  BY <1>1, <1>2, Zero DEF Threads
<1>5. FieldKinds'
  BY <1>1, <1>3, <1>4, NextTypes DEF Inv, FieldKinds
<1>6. ThreadInv' /\ EdgeInv'
  <2>1. Mag!Limit' = Mag!Limit
    BY <1>4, Settings
  <2> QED BY <1>1, <1>3, <1>4, <2>1 DEF Inv, ThreadInv, EdgeInv
<1> QED BY <1>1, <1>4, <1>5, <1>6, GapRestarts, QuietRestarts DEF Inv

\* An access fails: counted, or one too many.
LEMMA ReadFailsInv == ASSUME Mag!MagConstants, Inv, Mag!ReadFails PROVE Inv'
<1> DEFINE many == mag.consec_errors + 1 >= MagErrors
<1>1. /\ mag.pc \in {"read", "ack"} /\ gap' = 0 /\ quiet' = 0 /\ Mag!Faulty
      /\ sensor' = [sensor EXCEPT !.fresh = @ \/ (mag.pc = "ack" /\ mag.held)]
      /\ mag' = [mag EXCEPT !.stall_warned = FALSE, !.last_good = 0,
                            !.pc = IF many THEN "recover" ELSE "wait", !.held = FALSE,
                            !.consec_errors = IF many THEN 0 ELSE @ + 1]
  BY DEF Mag!ReadFails, Mag!Good
<1>2. sensor \in Parts /\ mag \in Threads
  BY TypesAre DEF Inv, FieldKinds
<1>3. sensor' \in Parts /\ sensor'.edges = sensor.edges
  <2>1. (sensor.fresh \/ (mag.pc = "ack" /\ mag.held)) \in BOOLEAN
    OBVIOUS
  <2> QED BY <1>1, <1>2, <2>1 DEF Parts
<1>4. (IF many THEN 0 ELSE mag.consec_errors + 1) \in 0 .. MagErrors - 1
      /\ (IF many THEN "recover" ELSE "wait") \in {"recover", "wait"}
  BY Numbers DEF Inv
<1> HIDE DEF many
<1>5. /\ mag' \in Threads /\ mag'.line = mag.line /\ mag'.coil = mag.coil /\ mag'.every = mag.every
      /\ mag'.waited = mag.waited /\ mag'.last_good = 0 /\ ~mag'.stall_warned /\ mag'.pc \in {"recover", "wait"}
      /\ mag'.stop = mag.stop /\ ~mag'.held /\ mag'.reset_failures = mag.reset_failures
  BY <1>1, <1>2, <1>4, Zero DEF Threads
<1>6. spare' \in [faults : Nat, missed : Nat, slow : 0 .. SlowReads]
  BY <1>1 DEF Inv, FieldKinds, Mag!Faulty
<1>7. FieldKinds'
  BY <1>1, <1>3, <1>5, <1>6, NextTypes DEF Inv, FieldKinds
<1>8. mag.waited = 0 /\ ~mag.stop /\ 0 <= Mag!Limit' /\ mag.reset_failures < MagResets
  <2>1. Mag!Limit' = Mag!Limit /\ Mag!Limit \in Nat
    BY <1>5, Settings, Numbers DEF Inv
  <2> QED BY <1>1, <2>1 DEF Inv, ThreadInv
<1>9. ThreadInv' /\ EdgeInv'
  BY <1>1, <1>3, <1>5, <1>8 DEF Inv, ThreadInv, EdgeInv
<1> QED BY <1>1, <1>5, <1>7, <1>9, GapRestarts, QuietRestarts DEF Inv

\* A reset, however it went: nothing has passed since the error that led to it.
LEMMA RecoverInv == ASSUME Mag!MagConstants, Inv, Mag!Recover PROVE Inv'
<1>1. PICK how \in {"ok", "untouched", "stopped"} :
          /\ IF how = "ok" THEN UNCHANGED spare ELSE Mag!Faulty
          /\ sensor' = IF how = "untouched" THEN sensor
                       ELSE [sensor EXCEPT !.on = (how = "ok"), !.phase = 0, !.ready = FALSE, !.fresh = FALSE]
          /\ mag' = [mag EXCEPT !.pc = "wait", !.reset_failures = Mag!Resets(how = "ok"),
                                !.stop = Mag!Resets(how = "ok") >= MagResets]
  BY DEF Mag!Recover
<1>2. mag.pc = "recover" /\ gap' = 0 /\ quiet' = quiet
  BY DEF Mag!Recover
<1>3. sensor \in Parts /\ mag \in Threads
  BY TypesAre DEF Inv, FieldKinds
<1>4. quiet = 0 /\ mag.waited = 0 /\ ~mag.stop /\ ~mag.held /\ mag.reset_failures < MagResets
      /\ mag.last_good = 0 /\ ~mag.stall_warned
  <2>1. quiet = 0 /\ mag.waited = 0 /\ ~mag.stop /\ ~mag.held /\ mag.reset_failures < MagResets
    BY <1>2 DEF Inv, ThreadInv
  <2>2. StallAfter \in Nat \ {0}
    BY DEF Mag!MagConstants
  <2> QED BY <2>1, <2>2 DEF Inv, QuietInv
<1>5. sensor' \in Parts /\ sensor'.edges = sensor.edges
  <2>1. (how = "ok") \in BOOLEAN /\ 0 \in 0 .. Period - 1
    BY DEF Mag!MagConstants
  <2>2. CASE how = "untouched"
    BY <1>1, <1>3, <2>2
  <2>3. CASE how # "untouched"
    <3>1. sensor' = [sensor EXCEPT !.on = (how = "ok"), !.phase = 0, !.ready = FALSE, !.fresh = FALSE]
      BY <1>1, <2>3
    <3> QED BY <1>3, <2>1, <3>1 DEF Parts
  <2> QED BY <2>2, <2>3
<1> DEFINE fails == Mag!Resets(how = "ok")
<1>6. fails \in 0 .. MagResets /\ (fails >= MagResets) \in BOOLEAN
  <2>1. mag.reset_failures \in 0 .. MagResets /\ MagResets \in Nat
    BY Numbers DEF Inv
  <2> QED BY <1>4, <2>1 DEF Mag!Resets
<1>7. mag' = [mag EXCEPT !.pc = "wait", !.reset_failures = fails, !.stop = (fails >= MagResets)]
  BY <1>1
<1> HIDE DEF fails
<1>8. /\ mag' \in Threads /\ mag'.line = mag.line /\ mag'.coil = mag.coil /\ mag'.every = mag.every
      /\ mag'.waited = mag.waited /\ mag'.last_good = mag.last_good /\ mag'.stall_warned = mag.stall_warned
      /\ mag'.pc = "wait" /\ mag'.held = mag.held /\ mag'.reset_failures = fails
  BY <1>3, <1>6, <1>7 DEF Threads
<1>9. mag'.stop <=> fails >= MagResets
  BY <1>3, <1>7 DEF Threads
<1>10. spare' \in [faults : Nat, missed : Nat, slow : 0 .. SlowReads]
  BY <1>1 DEF Inv, FieldKinds, Mag!Faulty
<1>11. FieldKinds'
  BY <1>2, <1>5, <1>8, <1>10, NextTypes DEF Inv, FieldKinds
<1>12. ThreadInv' /\ EdgeInv'
  <2>1. Mag!Limit' = Mag!Limit /\ 0 <= Mag!Limit
    BY <1>8, Settings, Numbers DEF Inv
  <2>2. ~(fails >= MagResets) => fails < MagResets
    BY <1>6 DEF Mag!MagConstants
  <2>3. EdgeInv'
    BY <1>5, <1>8 DEF Inv, EdgeInv
  <2> QED BY <1>4, <1>8, <1>9, <2>1, <2>2, <2>3 DEF ThreadInv
<1> QED BY <1>2, <1>4, <1>8, <1>11, <1>12, GapRestarts, QuietRestarts DEF Inv

(* ---------------------------------- time --------------------------------- *)

\* A tick of the part: it converts or comes nearer to it; only a conversion raises
\* the line, and only a line that was down raises an edge.
LEMMA ConvertedIs ==
    ASSUME Mag!MagConstants, Inv, NEW seen \in BOOLEAN
    PROVE  LET new == Mag!Converted(seen)
           IN /\ new \in [on : BOOLEAN, alive : BOOLEAN, phase : 0 .. Period - 1, ready : BOOLEAN,
                          fresh : BOOLEAN, edges : Nat]
              /\ new.on = sensor.on /\ new.alive = sensor.alive
              /\ new.edges = sensor.edges \/ (new.edges = sensor.edges + 1 /\ mag.line /\ ~sensor.ready /\ new.ready)
              /\ \/ new.ready = sensor.ready /\ new.fresh = sensor.fresh /\ (sensor.on => new.phase = sensor.phase + 1)
                 \/ new.ready /\ new.fresh /\ sensor.phase + 1 = Period
<1>1. sensor \in Parts /\ sensor.edges \in Nat /\ sensor.phase \in 0 .. Period - 1 /\ Period \in Nat \ {0}
  BY TypesAre, Numbers DEF Inv, FieldKinds
<1>2. CASE ~sensor.on
  BY <1>1, <1>2 DEF Mag!Converted, Parts
<1>3. CASE sensor.on /\ sensor.phase + 1 < Period
  <2>1. Mag!Converted(seen) = [sensor EXCEPT !.phase = sensor.phase + 1] /\ sensor.phase + 1 \in 0 .. Period - 1
    BY <1>1, <1>3 DEF Mag!Converted
  <2> QED BY <1>1, <2>1 DEF Parts
<1>4. CASE sensor.on /\ ~(sensor.phase + 1 < Period)
  <2> DEFINE more == IF mag.line /\ ~sensor.ready /\ seen THEN sensor.edges + 1 ELSE sensor.edges
  <2>1. Mag!Converted(seen) = [sensor EXCEPT !.phase = 0, !.fresh = TRUE, !.ready = TRUE, !.edges = more]
    BY <1>4 DEF Mag!Converted
  <2>2. more \in Nat /\ (more = sensor.edges \/ (more = sensor.edges + 1 /\ mag.line /\ ~sensor.ready))
    BY <1>1
  <2>3. sensor.phase + 1 = Period /\ 0 \in 0 .. Period - 1
    BY <1>1, <1>4
  <2> HIDE DEF more
  <2> QED BY <1>1, <2>1, <2>2, <2>3 DEF Parts
<1> QED BY <1>2, <1>3, <1>4

\* One tick more, one less to wait for.
LEMMA Budget ==
    ASSUME NEW count \in Nat, NEW count2 \in Nat, NEW rest \in Nat, NEW rest2 \in Nat, NEW most \in Nat,
           count2 <= count + 1, rest2 <= rest - 1
    PROVE  /\ count + rest <= most => count2 + rest2 <= most
           /\ count + rest < most => count2 + rest2 < most
  OBVIOUS

\* A count that has just begun.
LEMMA FreshBudget ==
    ASSUME NEW count \in Nat, NEW rest \in Nat, NEW waits \in Nat, NEW first \in Nat, NEW slow \in Nat
    PROVE  /\ count <= first /\ rest <= 2 * waits + slow => count + rest <= 2 * waits + first + slow
           /\ count <= first /\ rest < 2 * waits + slow => count + rest < first + 2 * waits + slow
  OBVIOUS

LEMMA TickInv == ASSUME Mag!MagConstants, Inv, Mag!Tick PROVE Inv'
<1>1. PICK seen \in BOOLEAN :
          /\ sensor' = Mag!Converted(seen)
          /\ spare' = [spare EXCEPT !.missed = IF seen THEN @ ELSE @ - 1,
                                    !.slow = IF mag.pc = "wait" THEN @ ELSE @ - 1]
          /\ ~seen => spare.missed > 0
  BY DEF Mag!Tick
<1>2. /\ mag' = [mag EXCEPT !.waited = IF mag.pc = "wait" THEN @ + 1 ELSE @,
                            !.last_good = Mag!Longer(@, StallAfter), !.last_set = Mag!Longer(@, mag.every)]
      /\ gap' = IF sensor.on /\ sensor.alive THEN Mag!Longer(gap, Mag!GapMost + 1) ELSE 0
      /\ quiet' = Mag!Longer(quiet, Mag!QuietMost)
  BY DEF Mag!Tick
<1>3. \/ mag.pc = "wait" /\ ~mag.stop /\ mag.waited < Mag!Limit /\ (mag.line => sensor.edges = 0)
      \/ mag.pc \in {"read", "ack"} /\ spare.slow > 0
  <2>1. sensor.edges \in Nat /\ mag.waited \in Nat /\ Mag!Limit \in Nat
    BY Numbers DEF Inv
  <2> QED BY <2>1 DEF Mag!Tick, Mag!Waiting, Mag!Due
<1>4. /\ Mag!Limit \in Nat \ {0} /\ Period \in Nat \ {0} /\ StallAfter \in Nat \ {0} /\ SlowReads \in Nat
      /\ Mag!GapMost = 2 * Mag!Limit + Period + SlowReads /\ Mag!QuietMost = StallAfter + 2 * Mag!Limit + SlowReads
      /\ gap \in Nat /\ quiet \in Nat /\ mag.waited \in Nat /\ mag.last_good \in 0 .. StallAfter
      /\ mag.last_set \in Nat /\ mag.every \in Nat /\ sensor.phase \in 0 .. Period - 1
      /\ sensor.edges \in Nat /\ spare.slow \in 0 .. SlowReads /\ spare.missed \in Nat
  BY Numbers DEF Inv
<1>5. mag \in Threads /\ spare \in [faults : Nat, missed : Nat, slow : 0 .. SlowReads]
  BY TypesAre DEF Inv, FieldKinds
\* What the tick does to the thread's clocks.
<1>6. /\ (IF mag.pc = "wait" THEN mag.waited + 1 ELSE mag.waited) \in Waits
      /\ Mag!Longer(mag.last_good, StallAfter) \in Mag!Clock(StallAfter)
      /\ Mag!Longer(mag.last_set, mag.every) \in Nat /\ Mag!Longer(mag.last_set, mag.every) <= mag.last_set + 1
  <2>1. mag.waited \in Waits
    BY <1>5 DEF Threads
  <2>2. mag.waited < Mag!Limit => mag.waited + 1 \in Waits
    BY <1>4 DEF Mag!Limit, Waits, Mag!Clock, Mag!MagConstants
  <2> QED BY <1>3, <1>4, <2>1, <2>2 DEF Mag!Longer, Mag!Clock
<1>7. /\ mag' \in Threads /\ mag'.line = mag.line /\ mag'.coil = mag.coil /\ mag'.every = mag.every
      /\ mag'.pc = mag.pc /\ mag'.waited = (IF mag.pc = "wait" THEN mag.waited + 1 ELSE mag.waited)
      /\ mag'.last_good = Mag!Longer(mag.last_good, StallAfter)
      /\ mag'.last_set = Mag!Longer(mag.last_set, mag.every)
      /\ mag'.stall_warned = mag.stall_warned /\ mag'.stop = mag.stop /\ mag'.held = mag.held
      /\ mag'.reset_failures = mag.reset_failures
  BY <1>2, <1>5, <1>6 DEF Threads
<1>8. /\ spare' \in [faults : Nat, missed : Nat, slow : 0 .. SlowReads]
      /\ spare'.slow = IF mag.pc = "wait" THEN spare.slow ELSE spare.slow - 1
  <2>1. (IF seen THEN spare.missed ELSE spare.missed - 1) \in Nat
    BY <1>1, <1>4
  <2>2. (IF mag.pc = "wait" THEN spare.slow ELSE spare.slow - 1) \in 0 .. SlowReads
    BY <1>3, <1>4
  <2> QED BY <1>1, <1>5, <2>1, <2>2
<1>9. Mag!Limit' = Mag!Limit /\ Mag!GapMost' = Mag!GapMost /\ Mag!QuietMost' = Mag!QuietMost /\ (Mag!Starved' <=> Mag!Starved)
  BY <1>7, Settings
\* What it does to the part.
<1>10. /\ sensor' \in [on : BOOLEAN, alive : BOOLEAN, phase : 0 .. Period - 1, ready : BOOLEAN,
                       fresh : BOOLEAN, edges : Nat]
       /\ sensor'.edges = sensor.edges
            \/ (sensor'.edges = sensor.edges + 1 /\ mag.line /\ ~sensor.ready /\ sensor'.ready)
       /\ \/ sensor'.ready = sensor.ready /\ sensor'.fresh = sensor.fresh
             /\ (sensor.on => sensor'.phase = sensor.phase + 1)
          \/ sensor'.ready /\ sensor'.fresh /\ sensor.phase + 1 = Period
  BY <1>1, ConvertedIs
<1>11. sensor.edges <= 1 /\ (mag.pc \in {"read", "ack"} /\ ~sensor.ready => sensor.edges = 0)
  BY DEF Inv, EdgeInv
<1>12. sensor'.edges <= 1
  BY <1>3, <1>4, <1>10, <1>11
<1>13. EdgeInv'
  <2>1. ASSUME mag'.pc \in {"read", "ack"}, ~sensor'.ready PROVE sensor'.edges = 0
    <3>1. ~sensor.ready
      BY <1>10, <2>1
    <3> QED BY <1>7, <1>10, <1>11, <2>1, <3>1
  <2> QED BY <1>12, <2>1 DEF EdgeInv
<1>14. FieldKinds'
  <2>1. sensor'.edges \in 0 .. 2
    BY <1>10, <1>12
  <2>2. sensor' \in Parts
    BY <1>10, <2>1 DEF Parts
  <2>3. gap' \in Nat /\ quiet' \in Nat
    BY <1>2, <1>4 DEF Mag!Longer
  <2> QED BY <1>7, <1>8, <2>2, <2>3, NextTypes
<1>15. ThreadInv'
  <2>1. mag'.waited <= Mag!Limit'
    BY <1>3, <1>4, <1>7, <1>9 DEF Inv, ThreadInv
  <2>2. mag.pc # "recover"
    BY <1>3
  <2> QED BY <1>7, <2>1, <2>2 DEF Inv, ThreadInv
\* A tick is one less to wait for.
<1>16. ToRead' <= ToRead - 1 /\ ToPush' <= ToPush - 1
  <2>1. CASE mag.pc = "wait" /\ mag.waited < Mag!Limit
    <3>1. PulseMayCome' => PulseMayCome
      BY <1>4, <1>6, <1>7, <2>1 DEF PulseMayCome
    <3>2. ToRead' = (Mag!Limit - (mag.waited + 1)) + (IF PulseMayCome' THEN Mag!Limit ELSE 0) + spare.slow
      BY <1>7, <1>8, <1>9, <2>1 DEF ToRead
    <3>3. ToRead = (Mag!Limit - mag.waited) + (IF PulseMayCome THEN Mag!Limit ELSE 0) + spare.slow
      BY <2>1 DEF ToRead
    <3>4. ToRead' <= ToRead - 1
      BY <1>4, <3>1, <3>2, <3>3
    <3>5. ToPush' = ToRead' /\ ToPush = ToRead
      BY <1>7, <2>1 DEF ToPush
    <3> QED BY <3>4, <3>5
  <2>2. CASE mag.pc \in {"read", "ack"}
    <3>1. ToRead = spare.slow /\ ToRead' = spare.slow - 1
      BY <1>7, <1>8, <2>2 DEF ToRead
    <3>2. CASE mag.pc = "ack" /\ mag.line /\ ~mag.held
      <4>1. ToPush = 2 * Mag!Limit + spare.slow /\ ToPush' = 2 * Mag!Limit + (spare.slow - 1)
        BY <1>7, <1>8, <1>9, <3>2 DEF ToPush
      <4> QED BY <1>4, <3>1, <4>1
    <3>3. CASE ~(mag.pc = "ack" /\ mag.line /\ ~mag.held)
      <4>1. ToPush = ToRead /\ ToPush' = ToRead'
        BY <1>7, <3>3 DEF ToPush
      <4> QED BY <1>4, <3>1, <4>1
    <3> QED BY <3>2, <3>3
  <2> QED BY <1>3, <2>1, <2>2
<1>17. /\ ToPush \in Nat /\ ToRead \in Nat /\ ToRead <= 2 * Mag!Limit + spare.slow
       /\ ToPush' \in Nat /\ ToRead' \in Nat /\ ToPush' <= 2 * Mag!Limit + SlowReads
  <2>1. ToPush' <= 2 * Mag!Limit' + spare'.slow /\ spare'.slow <= SlowReads /\ spare'.slow \in Nat
        /\ ToPush' \in Nat /\ ToRead' \in Nat
    BY <1>14, <1>15, ReachNext
  <2>2. ToPush \in Nat /\ ToRead \in Nat /\ ToRead <= 2 * Mag!Limit + spare.slow
    BY Reach DEF Inv
  <2> QED BY <1>4, <1>9, <2>1, <2>2
\* The numbers of the two bounds.
<1>18. /\ gap \in Nat /\ quiet \in Nat /\ Mag!GapMost \in Nat /\ Mag!QuietMost \in Nat
       /\ Mag!Limit \in Nat /\ Period \in Nat /\ StallAfter \in Nat /\ SlowReads \in Nat
       /\ spare.slow \in Nat /\ spare.slow <= SlowReads
       /\ Mag!GapMost = 2 * Mag!Limit + Period + SlowReads /\ Mag!QuietMost = StallAfter + 2 * Mag!Limit + SlowReads
  BY Numbers DEF Inv
<1>19. GapInv'
  <2>1. CASE ~(sensor.on /\ sensor.alive)
    BY <1>2, <1>14, <1>15, <2>1, GapRestarts
  <2>2. CASE sensor.on /\ sensor.alive
    <3> SUFFICES ASSUME ~Mag!Starved
                 PROVE  IF Coming' THEN gap' + ToPush' <= Mag!GapMost ELSE gap' <= sensor'.phase
      BY <1>9, Zenon DEF GapInv
    <3>1. gap' \in Nat /\ gap' <= gap + 1
      BY <1>2, <1>4, <2>2 DEF Mag!Longer
    <3>2. CASE Coming
      <4>1. gap + ToPush <= Mag!GapMost
        BY <3>2 DEF Inv, GapInv
      <4>2. Coming'
        BY <1>7, <1>10, <3>2 DEF Coming
      <4>3. gap' + ToPush' <= Mag!GapMost
        <5>1. /\ gap \in Nat /\ gap' \in Nat /\ ToPush \in Nat /\ ToPush' \in Nat /\ Mag!GapMost \in Nat
              /\ gap' <= gap + 1 /\ ToPush' <= ToPush - 1 /\ gap + ToPush <= Mag!GapMost
          BY <1>16, <1>17, <1>18, <3>1, <4>1
        <5> QED BY <5>1, Budget
      <4> QED BY <4>2, <4>3
    <3>3. CASE ~Coming /\ sensor'.ready = sensor.ready /\ sensor'.fresh = sensor.fresh
               /\ sensor'.phase = sensor.phase + 1
      <4>1. ~Coming'
        BY <1>7, <3>3 DEF Coming
      <4>2. gap <= sensor.phase
        BY <3>3 DEF Inv, GapInv
      <4>3. gap' <= sensor'.phase
        BY <1>4, <3>1, <3>3, <4>2
      <4> QED BY <4>1, <4>3
    <3>4. CASE ~Coming /\ sensor'.ready /\ sensor'.fresh /\ sensor.phase + 1 = Period
      <4>1. Coming'
        BY <1>7, <3>4 DEF Coming
      <4>2. gap <= sensor.phase
        BY <3>4 DEF Inv, GapInv
      <4>3. gap' + ToPush' <= Mag!GapMost
        <5>1. gap <= Period - 1
          BY <1>4, <3>4, <4>2
        <5>2. gap' <= Period
          BY <1>18, <3>1, <5>1
        <5> QED BY <1>17, <1>18, <3>1, <5>2, FreshBudget
      <4> QED BY <4>1, <4>3
    <3> QED BY <1>10, <2>2, <3>2, <3>3, <3>4
  <2> QED BY <2>1, <2>2
<1>20. QuietInv'
  <2>1. mag.last_good = IF quiet < StallAfter THEN quiet ELSE StallAfter
    BY DEF Inv, QuietInv
  <2>2. quiet' \in Nat /\ quiet' <= quiet + 1 /\ (quiet >= StallAfter => quiet' >= StallAfter)
    BY <1>2, <1>4 DEF Mag!Longer
  <2>3. mag'.last_good = IF quiet' < StallAfter THEN quiet' ELSE StallAfter
    BY <1>2, <1>4, <1>7, <2>1 DEF Mag!Longer
  <2>4. mag'.stall_warned => quiet' >= StallAfter
    BY <1>7, <2>2 DEF Inv, QuietInv
  <2>5. ASSUME ~Mag!Starved, ~mag.stop, ~mag.stall_warned, quiet' >= StallAfter
        PROVE  quiet' + ToRead' < Mag!QuietMost
    <3>1. CASE quiet >= StallAfter
      <4>1. quiet + ToRead < Mag!QuietMost
        BY <2>5, <3>1 DEF Inv, QuietInv
      <4>2. /\ quiet \in Nat /\ quiet' \in Nat /\ ToRead \in Nat /\ ToRead' \in Nat /\ Mag!QuietMost \in Nat
            /\ quiet' <= quiet + 1 /\ ToRead' <= ToRead - 1
        BY <1>16, <1>17, <1>18, <2>2
      <4> QED BY <4>1, <4>2, Budget
    <3>2. CASE ~(quiet >= StallAfter)
      <4>1. quiet' <= StallAfter
        BY <1>18, <2>2, <3>2
      <4>2. ToRead' < 2 * Mag!Limit + SlowReads
        BY <1>16, <1>17, <1>18
      <4> QED BY <1>17, <1>18, <2>2, <4>1, <4>2, FreshBudget
    <3> QED BY <3>1, <3>2
  <2> QED BY <1>7, <1>9, <2>3, <2>4, <2>5 DEF QuietInv
<1> QED BY <1>13, <1>14, <1>15, <1>19, <1>20 DEF Inv

(* -------------------------------- theorems ------------------------------- *)

LEMMA NextInv == ASSUME Mag!MagConstants PROVE Inv /\ [Mag!Next]_(Mag!magVars) => Inv'
<1> SUFFICES ASSUME Inv, [Mag!Next]_(Mag!magVars) PROVE Inv'
  OBVIOUS
<1>1. CASE Mag!Tick
  BY <1>1, TickInv
<1>2. CASE Mag!PartTurns \/ Mag!BusDies
  BY <1>2, PartInv
<1>3. CASE Mag!Thread
  BY <1>3, WakeInv, NothingInv, BurstInv, AckPushInv, ReadFailsInv, RecoverInv DEF Mag!Thread
<1>4. CASE Mag!GaveUp \/ UNCHANGED Mag!magVars
  <2>1. UNCHANGED <<sensor, mag, spare, gap, quiet>>
    BY <1>4 DEF Mag!GaveUp, Mag!magVars
  <2>2. UNCHANGED <<Mag!Limit, Mag!Starved, Mag!GapMost, Mag!QuietMost, Coming, ToRead, ToPush>>
    BY <2>1 DEF Mag!Limit, Mag!Starved, Mag!GapMost, Mag!QuietMost, Coming, ToPush, ToRead, PulseMayCome
  <2>3. FieldKinds'
    BY <2>1, TypesAre, NextTypes DEF Inv, FieldKinds
  <2>4. ThreadInv' /\ EdgeInv'
    BY <2>1, <2>2 DEF Inv, ThreadInv, EdgeInv
  <2>5. GapInv' /\ QuietInv'
    BY <2>1, <2>2 DEF Inv, GapInv, QuietInv
  <2> QED BY <2>3, <2>4, <2>5 DEF Inv
<1> QED BY <1>1, <1>2, <1>3, <1>4 DEF Mag!Next

\* A step of the two readers is a step of the magnetometer's or leaves it alone.
LEMMA ReadersStep == ReadersNext => Mag!Next \/ UNCHANGED (Mag!magVars)
BY DEF ReadersNext, ImuReader, ImuPart, MagThread, MagTick, MagPart, Imu, MagOf, magVars,
       Mag!magVars, Mag!Next

LEMMA InvAlways == ReadersSpec => []Inv
<1>1. ReadersInit => Inv
  BY InitInv, MagAssumption DEF ReadersInit
<1>2. Inv /\ [ReadersNext]_allVars => Inv'
  <2> SUFFICES ASSUME Inv, [ReadersNext]_allVars PROVE Inv'
    OBVIOUS
  <2>1. [Mag!Next]_(Mag!magVars)
    BY ReadersStep DEF allVars, magVars, Mag!magVars
  <2> QED BY <2>1, NextInv, MagAssumption
<1> QED BY <1>1, <1>2, PTL DEF ReadersSpec

\* imu.c mag_reader_thread: a part that converts on a bus that works is heard,
\* whatever edges were missed and whatever reads gave way to a pulse, two waits and a
\* conversion later at most; and an outage is said within StallAfter and two waits,
\* and never without one - unless the pulses are so frequent that nothing is read.
THEOREM FieldWatchedHolds == ReadersSpec => []FieldWatched
<1>1. Inv => FieldWatched
  <2> SUFFICES ASSUME Inv PROVE FieldWatched
    OBVIOUS
  <2> USE MagAssumption
  <2>1. Mag!TypeOK
    BY DEF Inv, FieldKinds
  <2>2. Mag!FieldKeepsComing
    <3>1. CASE Coming
      <4>1. ToPush \in Nat /\ gap \in Nat /\ Mag!GapMost \in Nat
        BY Reach, Numbers DEF Inv
      <4> QED BY <3>1, <4>1 DEF Inv, GapInv, Mag!FieldKeepsComing
    <3>2. CASE ~Coming
      <4>1. /\ sensor.phase \in 0 .. Period - 1 /\ Period \in Nat /\ Mag!Limit \in Nat /\ SlowReads \in Nat
            /\ Mag!GapMost = 2 * Mag!Limit + Period + SlowReads /\ gap \in Nat
        BY Numbers DEF Inv
      <4>2. ~Mag!Starved => gap <= sensor.phase
        BY <3>2 DEF Inv, GapInv
      <4> QED BY <4>1, <4>2 DEF Mag!FieldKeepsComing
    <3> QED BY <3>1, <3>2
  <2>3. Mag!StallSaid
    <3>1. ASSUME quiet >= Mag!QuietMost, ~mag.stop, ~Mag!Starved, ~mag.stall_warned PROVE FALSE
      <4>1. /\ quiet \in Nat /\ StallAfter \in Nat /\ Mag!Limit \in Nat /\ SlowReads \in Nat
            /\ Mag!QuietMost = StallAfter + 2 * Mag!Limit + SlowReads /\ ToRead \in Nat
        BY Reach, Numbers DEF Inv
      <4>2. quiet + ToRead < Mag!QuietMost
        BY <3>1, <4>1 DEF Inv, QuietInv
      <4> QED BY <3>1, <4>1, <4>2
    <3>2. mag.stall_warned => quiet >= StallAfter
      BY DEF Inv, QuietInv
    <3> QED BY <3>1, <3>2 DEF Mag!StallSaid
  <2> QED BY <2>1, <2>2, <2>3 DEF FieldWatched, Mag!FieldWatched
<1> QED BY <1>1, InvAlways, PTL

(***************************************************************************)
(* The inertial reader.  What a sample says is true: its halves are of one *)
(* slot once a loss is two drains past, and its stamps are of that slot,   *)
(* on the part's clock and on the wall's, within bounds that only long     *)
(* drains and bad counter reads move.  The argument follows the words: the *)
(* part writes them in a fixed order, a drain that lost none of them holds *)
(* consecutive slots wherever it is cut, and so the guard, which only      *)
(* counts sets, knows where the next burst starts.                         *)
(***************************************************************************)

(* ------------------------------- arithmetic ------------------------------ *)

\* A set of numbers has a least.
LEMMA Least ==
    ASSUME NEW S \in SUBSET Nat, S # {}
    PROVE  \E n \in S : \A m \in S : n <= m
<1> DEFINE R == OpToRel(<, Nat)
<1>1. IsWellFoundedOn(R, Nat)
  BY NatLessThanWellFounded
<1>2. \E n \in S : \A m \in S : ~(<<m, n>> \in R)
  <2> HIDE DEF R
  <2> QED BY <1>1, WFMin
<1>3. \A m, n \in Nat : <<m, n>> \in R <=> m < n
  BY DEF OpToRel
<1> HIDE DEF R
<1>4. PICK n \in S : \A m \in S : ~(<<m, n>> \in R)
  BY <1>2
<1>5. \A m \in S : ~(m < n)
  BY <1>3, <1>4
<1>6. \A m \in S : n <= m
  BY <1>5
<1> QED BY <1>6

(* ---------------------------- the words' order --------------------------- *)

LEMMA DivIs ==
    ASSUME NEW p \in Nat \ {0}, NEW q \in Nat, NEW k \in 0 .. p - 1
    PROVE  (q * p + k) \div p = q /\ (q * p + k) % p = k
OBVIOUS

LEMMA DivOf ==
    ASSUME NEW p \in Nat \ {0}, NEW i \in Nat
    PROVE  \E q \in Nat, k \in 0 .. p - 1 : i = q * p + k
<1> DEFINE S == {q \in Nat : i < (q + 1) * p}
<1>1. i \in S
  OBVIOUS
<1>2. PICK q \in S : \A m \in S : q <= m
  BY <1>1, Least
<1>3. q \in Nat /\ i < q * p + p
  BY <1>2
<1>4. q * p <= i
  <2>1. CASE q = 0
    BY <2>1
  <2>2. CASE q # 0
    <3>1. q - 1 \in Nat /\ q - 1 \notin S
      BY <1>2, <1>3, <2>2
    <3>2. ~(i < (q - 1 + 1) * p)
      BY <3>1
    <3>3. q - 1 + 1 = q
      BY <1>3
    <3> QED BY <3>2, <3>3, <1>3
  <2> QED BY <2>1, <2>2
<1>5. q * p \in Nat
  BY <1>3
<1>6. i - q * p \in 0 .. p - 1 /\ i = q * p + (i - q * p)
  BY <1>3, <1>4, <1>5
<1> QED BY <1>3, <1>6

LEMMA HalfIs == ASSUME NEW q \in Nat PROVE (2 * q) \div 2 = q /\ (2 * q + 1) \div 2 = q /\ (2 * q) % 2 = 0 /\ (2 * q + 1) % 2 = 1
OBVIOUS

\* The two words of the n-th slot from 0.
LEMMA SampleWords ==
    ASSUME NEW n \in Nat
    PROVE  /\ SampleWord(2 * n) = [kind |-> "gyro", slot |-> n + 1]
           /\ SampleWord(2 * n + 1) = [kind |-> "accel", slot |-> n + 1]
<1>1. (2 * n) \div 2 = n /\ (2 * n + 1) \div 2 = n /\ (2 * n) % 2 = 0 /\ (2 * n + 1) % 2 = 1
  BY HalfIs
<1> QED BY <1>1 DEF SampleWord

\* The words of slot n + 1 begin at n's end: its gyro, its acceleration and perhaps a
\* timestamp.
SlotWords(n) ==
    /\ WordsBy(n) \in Nat /\ WordsBy(n) >= 2 * n
    /\ Word(WordsBy(n)) = [kind |-> "gyro", slot |-> n + 1]
    /\ Word(WordsBy(n) + 1) = [kind |-> "accel", slot |-> n + 1]
    /\ \/ WordsBy(n + 1) = WordsBy(n) + 2
       \/ /\ WordsBy(n + 1) = WordsBy(n) + 3
          /\ Word(WordsBy(n) + 2) = [kind |-> "time", slot |-> n + 1]

LEMMA LayoutPlain == ASSUME Batch = 0, NEW n \in Nat PROVE SlotWords(n)
<1>1. WordsBy(n) = 2 * n /\ WordsBy(n + 1) = 2 * n + 2
  BY DEF WordsBy
<1>2. \A i : Word(i) = SampleWord(i)
  BY DEF Word
<1> QED BY <1>1, <1>2, SampleWords DEF SlotWords

LEMMA LayoutBatched == ASSUME Batch \in Nat \ {0}, NEW n \in Nat PROVE SlotWords(n)
<1> DEFINE B == Batch
<1>1. PICK q \in Nat, r \in 0 .. B - 1 : n = q * B + r
  BY DivOf
<1>2. PerBatch \in Nat \ {0} /\ PerBatch = 2 * B + 1
  BY DEF PerBatch
<1>3. \A a \in Nat, k \in 0 .. B - 1 : (a * B + k) \div B = a
  BY DivIs
<1>4. \A k \in 0 .. 2 * B : (q * PerBatch + k) \div PerBatch = q /\ (q * PerBatch + k) % PerBatch = k
  <2> TAKE k \in 0 .. 2 * B
  <2>1. k \in 0 .. PerBatch - 1
    BY <1>2
  <2> QED BY <1>2, <2>1, DivIs
<1>5. \A k \in 0 .. 2 * B : Word(q * PerBatch + k) = IF k = 2 THEN [kind |-> "time", slot |-> q * B + 1]
                            ELSE SampleWord(2 * q * B + IF k < 2 THEN k ELSE k - 1)
  BY <1>4 DEF Word
<1> DEFINE p == q * PerBatch
           m == q * B
<1>6. p \in Nat /\ m \in Nat /\ p = 2 * m + q /\ 2 * q * B = 2 * m
  BY <1>1, <1>2
<1>7. CASE r = 0
  <2>1. n = m
    BY <1>1, <1>7
  <2>2. (n + B - 1) \div B = q
    <3>1. n + B - 1 = q * B + (B - 1) /\ B - 1 \in 0 .. B - 1
      BY <2>1
    <3> QED BY <3>1, <1>3
  <2>3. (n + 1 + B - 1) \div B = q + 1
    <3>1. n + 1 + B - 1 = (q + 1) * B + 0 /\ 0 \in 0 .. B - 1
      BY <2>1
    <3> QED BY <3>1, <1>3
  <2>4. WordsBy(n) = p /\ WordsBy(n + 1) = p + 3
    BY <1>6, <2>1, <2>2, <2>3 DEF WordsBy
  <2>5. Word(p) = SampleWord(2 * n) /\ Word(p + 1) = SampleWord(2 * n + 1) /\ Word(p + 2) = [kind |-> "time", slot |-> n + 1]
    <3> HIDE DEF p, m
    <3>1. 0 \in 0 .. 2 * B /\ 1 \in 0 .. 2 * B /\ 2 \in 0 .. 2 * B
      OBVIOUS
    <3>2. Word(p + 0) = SampleWord(2 * m + 0)
      BY <1>5, <1>6, <3>1 DEF p
    <3>3. Word(p + 1) = SampleWord(2 * m + 1)
      BY <1>5, <1>6, <3>1 DEF p
    <3>4. Word(p + 2) = [kind |-> "time", slot |-> m + 1]
      BY <1>5, <1>6, <3>1 DEF p, m
    <3>5. p + 0 = p /\ 2 * m + 0 = 2 * m
      BY <1>6
    <3> QED BY <2>1, <3>2, <3>3, <3>4, <3>5
  <2>6. WordsBy(n) \in Nat /\ WordsBy(n) >= 2 * n
    <3> HIDE DEF p, m
    <3> QED BY <1>6, <2>1, <2>4
  <2> HIDE DEF p, m
  <2> QED BY <2>4, <2>5, <2>6, SampleWords DEF SlotWords
<1>8. CASE r # 0
  <2>1. n = m + r /\ r \in 1 .. B - 1
    BY <1>1, <1>8
  <2>2. (n + B - 1) \div B = q + 1
    <3>1. n + B - 1 = (q + 1) * B + (r - 1) /\ r - 1 \in 0 .. B - 1
      BY <2>1
    <3> QED BY <3>1, <1>3
  <2>3. (n + 1 + B - 1) \div B = q + 1
    <3>1. n + 1 + B - 1 = (q + 1) * B + r /\ r \in 0 .. B - 1
      BY <2>1
    <3> QED BY <3>1, <1>3
  <2> DEFINE k == 2 * r + 1
  <2>4. WordsBy(n) = p + k /\ WordsBy(n + 1) = p + k + 2
    BY <1>6, <2>1, <2>2, <2>3 DEF WordsBy
  <2>5. Word(p + k) = SampleWord(2 * n) /\ Word(p + (k + 1)) = SampleWord(2 * n + 1)
    <3> HIDE DEF p, m
    <3>1. k \in 0 .. 2 * B /\ k + 1 \in 0 .. 2 * B /\ k > 2
      BY <2>1
    <3>2. 2 * m + (k - 1) = 2 * n /\ 2 * m + (k + 1 - 1) = 2 * n + 1
      BY <2>1, <1>6
    <3>a. k + 1 > 2 /\ k + 1 # 2 /\ ~(k + 1 < 2) /\ k # 2 /\ ~(k < 2)
      BY <2>1
    <3> HIDE DEF k
    <3>3. Word(p + k) = SampleWord(2 * m + (k - 1))
      BY <1>5, <1>6, <3>1, <3>a DEF p
    <3>4. Word(p + (k + 1)) = SampleWord(2 * m + (k + 1 - 1))
      BY <1>5, <1>6, <3>1, <3>a DEF p
    <3> QED BY <3>2, <3>3, <3>4
  <2>6. WordsBy(n) \in Nat /\ WordsBy(n) >= 2 * n
    <3> HIDE DEF p, m
    <3> QED BY <1>6, <2>1, <2>4
  <2>7. p + (k + 1) = p + k + 1
    BY <1>6, <2>1
  <2> HIDE DEF p, m, k
  <2> QED BY <2>4, <2>5, <2>6, <2>7, SampleWords DEF SlotWords
<1> QED BY <1>1, <1>7, <1>8

LEMMA Layout == ASSUME NEW n \in Nat PROVE SlotWords(n)
BY LayoutPlain, LayoutBatched, FifoAssumption

\* A later slot's words are later.
LEMMA WordsGrow == ASSUME NEW n \in Nat, NEW m \in Nat, n <= m PROVE WordsBy(m) >= WordsBy(n) + 2 * (m - n)
<1> DEFINE S == {d \in Nat : ~(WordsBy(n + d) >= WordsBy(n) + 2 * d)}
<1>0. \A i \in Nat : WordsBy(i) \in Nat /\ WordsBy(i + 1) >= WordsBy(i) + 2
  <2> TAKE i \in Nat
  <2>1. SlotWords(i) /\ SlotWords(i + 1)
    BY Layout
  <2> QED BY <2>1 DEF SlotWords
<1>1. S = {}
  <2> SUFFICES ASSUME S # {} PROVE FALSE
    OBVIOUS
  <2>1. S \in SUBSET Nat
    OBVIOUS
  <2>2. PICK d \in S : \A e \in S : d <= e
    BY <2>1, Least
  <2>3. d \in Nat /\ ~(WordsBy(n + d) >= WordsBy(n) + 2 * d)
    BY <2>2
  <2>4. d # 0
    BY <2>3, <1>0
  <2>5. d - 1 \in Nat /\ d - 1 \notin S
    BY <2>2, <2>3, <2>4
  <2>6. WordsBy(n + (d - 1)) >= WordsBy(n) + 2 * (d - 1)
    BY <2>5
  <2>7. n + (d - 1) \in Nat /\ n + (d - 1) + 1 = n + d
    BY <2>3, <2>5
  <2> HIDE DEF S
  <2>8. WordsBy(n + d) >= WordsBy(n + (d - 1)) + 2
    BY <1>0, <2>7
  <2> QED BY <1>0, <2>3, <2>6, <2>7, <2>8
<1>2. m - n \in Nat /\ n + (m - n) = m
  OBVIOUS
<1>a. m - n \notin S
  BY <1>1
<1>3. WordsBy(n + (m - n)) >= WordsBy(n) + 2 * (m - n)
  BY <1>2, <1>a
<1> QED BY <1>2, <1>3

\* How many slots are complete before word p, and how many have had their gyro read.
Slot(p) == CHOOSE n \in Nat : WordsBy(n) <= p /\ p < WordsBy(n + 1)
Passed(p) == IF p = WordsBy(Slot(p)) THEN Slot(p) ELSE Slot(p) + 1

LEMMA SlotIs ==
    ASSUME NEW n \in Nat, NEW p \in Nat, WordsBy(n) <= p, p < WordsBy(n + 1)
    PROVE  Slot(p) = n
<1> SUFFICES ASSUME NEW m \in Nat, WordsBy(m) <= p, p < WordsBy(m + 1) PROVE m = n
  BY DEF Slot
<1>1. \A i \in Nat : WordsBy(i) \in Nat
  BY Layout DEF SlotWords
<1>2. CASE m < n
  <2>1. WordsBy(n) >= WordsBy(m + 1) + 2 * (n - (m + 1))
    BY <1>2, WordsGrow
  <2> QED BY <1>1, <1>2, <2>1
<1>3. CASE n < m
  <2>1. WordsBy(m) >= WordsBy(n + 1) + 2 * (m - (n + 1))
    BY <1>3, WordsGrow
  <2> QED BY <1>1, <1>3, <2>1
<1> QED BY <1>2, <1>3

LEMMA SlotOf ==
    ASSUME NEW p \in Nat
    PROVE  Slot(p) \in Nat /\ WordsBy(Slot(p)) <= p /\ p < WordsBy(Slot(p) + 1)
<1> SUFFICES \E n \in Nat : WordsBy(n) <= p /\ p < WordsBy(n + 1)
  BY DEF Slot
<1> DEFINE S == {n \in Nat : p < WordsBy(n + 1)}
<1>1. \A i \in Nat : WordsBy(i) \in Nat /\ WordsBy(i) >= 2 * i
  BY Layout DEF SlotWords
<1>2. p \in S
  BY <1>1
<1>3. PICK n \in S : \A m \in S : n <= m
  BY <1>2, Least
<1>4. n \in Nat /\ p < WordsBy(n + 1)
  BY <1>3
<1>5. WordsBy(n) <= p
  <2>1. CASE n = 0
    <3>1. WordsBy(0) = 0
      <4>1. CASE Batch = 0
        BY <4>1 DEF WordsBy
      <4>2. CASE Batch # 0
        <5>1. (0 + Batch - 1) \div Batch = 0
          <6>1. Batch \in Nat \ {0} /\ Batch - 1 \in 0 .. Batch - 1
            BY <4>2, FifoAssumption
          <6>2. (0 * Batch + (Batch - 1)) \div Batch = 0
            BY <6>1, DivIs
          <6> QED BY <6>1, <6>2
        <5> QED BY <4>2, <5>1 DEF WordsBy
      <4> QED BY <4>1, <4>2
    <3> QED BY <2>1, <3>1
  <2>2. CASE n # 0
    <3>1. n - 1 \in Nat /\ n - 1 \notin S
      BY <1>3, <1>4, <2>2
    <3>2. ~(p < WordsBy(n - 1 + 1)) /\ n - 1 + 1 = n
      BY <3>1
    <3> QED BY <1>1, <1>4, <3>2
  <2> QED BY <2>1, <2>2
<1> QED BY <1>4, <1>5

\* What comes at word p, and after it.
StreamAt(p) ==
    LET w == Word(p)
    IN /\ Passed(p) \in Nat
       /\ w.kind \in {"gyro", "accel", "time"} /\ w.slot \in Nat \ {0}
       /\ w.kind = "gyro" => w.slot = Passed(p) + 1 /\ Passed(p + 1) = Passed(p) + 1 /\ Word(p + 1).kind = "accel"
       /\ w.kind # "gyro" => w.slot = Passed(p) /\ Passed(p + 1) = Passed(p) /\ Word(p + 1).kind # "accel"
       /\ w.kind = "time" => Word(p + 1).kind = "gyro"

LEMMA Boundary ==
    ASSUME NEW n \in Nat
    PROVE  WordsBy(n) \in Nat /\ Word(WordsBy(n)).kind = "gyro" /\ Passed(WordsBy(n)) = n
<1>1. SlotWords(n)
  BY Layout
<1>2. WordsBy(n) \in Nat /\ WordsBy(n) < WordsBy(n + 1)
  BY <1>1 DEF SlotWords
<1>3. Slot(WordsBy(n)) = n
  BY <1>2, SlotIs
<1> QED BY <1>1, <1>2, <1>3 DEF SlotWords, Passed

LEMMA Stream == ASSUME NEW p \in Nat PROVE StreamAt(p)
<1> DEFINE n == Slot(p)
<1>1. n \in Nat /\ WordsBy(n) <= p /\ p < WordsBy(n + 1)
  BY SlotOf
<1>2. SlotWords(n) /\ SlotWords(n + 1)
  BY <1>1, Layout
<1> HIDE DEF n
<1>3. WordsBy(n) \in Nat /\ WordsBy(n + 1) \in Nat
  BY <1>2 DEF SlotWords
<1>4. \A q \in Nat : (WordsBy(n) < q /\ q < WordsBy(n + 1)) => Passed(q) = n + 1
  <2> TAKE q \in Nat
  <2> HAVE WordsBy(n) < q /\ q < WordsBy(n + 1)
  <2>1. Slot(q) = n
    BY <1>1, <1>3, SlotIs
  <2> QED BY <2>1, <1>3 DEF Passed
<1>5. Passed(WordsBy(n)) = n /\ Passed(WordsBy(n + 1)) = n + 1
  BY <1>1, Boundary
<1>6. Word(WordsBy(n + 1)).kind = "gyro"
  BY <1>1, Boundary
<1>7. CASE p = WordsBy(n)
  <2>1. Word(p).kind = "gyro" /\ Word(p).slot = n + 1 /\ Passed(p) = n
    BY <1>2, <1>5, <1>7 DEF SlotWords
  <2>2. Word(p + 1).kind = "accel" /\ Passed(p + 1) = n + 1
    BY <1>2, <1>3, <1>4, <1>7 DEF SlotWords
  <2> QED BY <1>1, <2>1, <2>2 DEF StreamAt
<1>8. CASE p = WordsBy(n) + 1
  <2>1. Word(p).kind = "accel" /\ Word(p).slot = n + 1 /\ Passed(p) = n + 1
    BY <1>1, <1>2, <1>3, <1>4, <1>8 DEF SlotWords
  <2>2. Word(p + 1).kind # "accel" /\ Passed(p + 1) = n + 1
    <3>1. CASE WordsBy(n + 1) = WordsBy(n) + 2
      BY <1>3, <1>5, <1>6, <1>8, <3>1
    <3>2. CASE WordsBy(n + 1) = WordsBy(n) + 3 /\ Word(WordsBy(n) + 2).kind = "time"
      <4>1. p + 1 = WordsBy(n) + 2 /\ p + 1 \in Nat /\ WordsBy(n) < p + 1 /\ p + 1 < WordsBy(n + 1)
        BY <1>3, <1>8, <3>2
      <4> QED BY <1>4, <3>2, <4>1
    <3> QED BY <1>2, <3>1, <3>2 DEF SlotWords
  <2> QED BY <1>1, <2>1, <2>2 DEF StreamAt
<1>9. CASE p = WordsBy(n) + 2
  <2>1. WordsBy(n + 1) = WordsBy(n) + 3 /\ Word(WordsBy(n) + 2) = [kind |-> "time", slot |-> n + 1]
    BY <1>1, <1>2, <1>3, <1>9 DEF SlotWords
  <2>2. Word(p).kind = "time" /\ Word(p).slot = n + 1 /\ Passed(p) = n + 1
    BY <1>1, <1>3, <1>4, <1>9, <2>1
  <2>3. Word(p + 1).kind = "gyro" /\ Passed(p + 1) = n + 1
    <3>1. p + 1 = WordsBy(n + 1)
      BY <1>3, <1>9, <2>1
    <3> QED BY <1>5, <1>6, <3>1
  <2> QED BY <1>1, <2>2, <2>3 DEF StreamAt
<1> QED
  <2>1. p = WordsBy(n) \/ p = WordsBy(n) + 1 \/ p = WordsBy(n) + 2
    BY <1>1, <1>2, <1>3 DEF SlotWords
  <2> QED BY <1>7, <1>8, <1>9, <2>1

LEMMA PassedGrows ==
    ASSUME NEW p \in Nat, NEW q \in Nat, p <= q
    PROVE  Passed(p) \in Nat /\ Passed(q) \in Nat /\ Passed(p) <= Passed(q)
<1> DEFINE S == {d \in Nat : ~(Passed(p) <= Passed(p + d))}
<1>0. \A i \in Nat : Passed(i) \in Nat /\ Passed(i) <= Passed(i + 1)
  BY Stream DEF StreamAt
<1>1. S = {}
  <2> SUFFICES ASSUME S # {} PROVE FALSE
    OBVIOUS
  <2>1. S \in SUBSET Nat
    OBVIOUS
  <2>2. PICK d \in S : \A e \in S : d <= e
    BY <2>1, Least
  <2>3. d \in Nat /\ ~(Passed(p) <= Passed(p + d))
    BY <2>2
  <2>4. d # 0
    BY <2>3, <1>0
  <2>5. d - 1 \in Nat /\ d - 1 \notin S
    BY <2>2, <2>3, <2>4
  <2>6. Passed(p) <= Passed(p + (d - 1))
    BY <2>5
  <2>7. p + (d - 1) \in Nat /\ p + (d - 1) + 1 = p + d /\ p + d \in Nat
    BY <2>3, <2>5
  <2> HIDE DEF S
  <2>8. Passed(p + (d - 1)) <= Passed(p + d)
    BY <1>0, <2>7
  <2> QED BY <1>0, <2>3, <2>6, <2>7, <2>8
<1>2. q - p \in Nat /\ p + (q - p) = q
  OBVIOUS
<1>a. q - p \notin S
  BY <1>1
<1>3. Passed(p) <= Passed(p + (q - p))
  BY <1>2, <1>a
<1> QED BY <1>0, <1>2, <1>3


(* ------------------------------ a drain ---------------------------------- *)

SetType == [accel : Nat, gyro : Nat]
DrainType == [pc : {"wait", "words", "recover"}, before : Nat, words : Nat, ovf : BOOLEAN, accel : Nat, gyro : Nat,
              sets : Seq(SetType), setCnt : Nat, idx : Nat, ts : Nat]

\* What a drain keeps while words are taken.
SameRead(e, d) == e.pc = d.pc /\ e.before = d.before /\ e.words = d.words /\ e.ovf = d.ovf

\* The drain e is d after word w.
TakeIs(e, d, w) ==
    /\ (w.kind = "accel" /\ d.gyro = None) =>
          e.accel = w.slot /\ e.gyro = None /\ e.sets = d.sets /\ e.idx = d.idx /\ e.ts = d.ts
    /\ (w.kind = "gyro" /\ d.accel = None) =>
          e.gyro = w.slot /\ e.accel = None /\ e.sets = d.sets /\ e.idx = d.idx /\ e.ts = d.ts
    /\ (w.kind = "accel" /\ d.gyro # None) =>
          /\ e.accel = None /\ e.gyro = None /\ e.idx = d.idx /\ e.ts = d.ts
          /\ e.sets = Append(d.sets, [accel |-> w.slot, gyro |-> d.gyro])
    /\ (w.kind = "gyro" /\ d.accel # None) =>
          /\ e.accel = None /\ e.gyro = None /\ e.idx = d.idx /\ e.ts = d.ts
          /\ e.sets = Append(d.sets, [accel |-> d.accel, gyro |-> w.slot])
    /\ w.kind = "time" =>
          /\ e.accel = d.accel /\ e.gyro = d.gyro /\ e.sets = d.sets /\ e.ts = w.slot
          /\ e.idx = Len(d.sets) + 1 \/ (d.sets # <<>> /\ e.idx = Len(d.sets))

LEMMA CompleteIs ==
    ASSUME NEW d \in DrainType, NEW slot \in Nat
    PROVE  /\ Complete(d, slot) \in DrainType /\ SameRead(Complete(d, slot), d)
           /\ (d.accel = None \/ d.gyro = None) => Complete(d, slot) = d
           /\ (d.accel # None /\ d.gyro # None) =>
                 /\ Complete(d, slot).accel = None /\ Complete(d, slot).gyro = None
                 /\ Complete(d, slot).idx = d.idx /\ Complete(d, slot).ts = d.ts
                 /\ Complete(d, slot).sets = Append(d.sets, [accel |-> d.accel, gyro |-> d.gyro])
<1>1. CASE d.accel = None \/ d.gyro = None
  <2>1. Complete(d, slot) = d
    BY <1>1 DEF Complete
  <2> QED BY <2>1, <1>1 DEF SameRead
<1>2. CASE d.accel # None /\ d.gyro # None
  <2> DEFINE c == IF Batch = 0 THEN 0 ELSE TagCnt(slot)
             t == Append(d.sets, [accel |-> d.accel, gyro |-> d.gyro])
  <2>1. c \in Nat
    BY FifoAssumption DEF TagCnt
  <2>2. t \in Seq(SetType)
    BY DEF DrainType, SetType
  <2>3. Complete(d, slot) = [d EXCEPT !.sets = t, !.accel = None, !.gyro = None, !.setCnt = c]
    BY <1>2 DEF Complete
  <2> HIDE DEF c, t
  <2>4. [d EXCEPT !.sets = t, !.accel = None, !.gyro = None, !.setCnt = c] \in DrainType
    BY <2>1, <2>2 DEF DrainType, None
  <2>5. /\ SameRead(Complete(d, slot), d)
        /\ Complete(d, slot).accel = None /\ Complete(d, slot).gyro = None
        /\ Complete(d, slot).idx = d.idx /\ Complete(d, slot).ts = d.ts
        /\ Complete(d, slot).sets = t
    BY <2>3 DEF DrainType, SameRead
  <2> QED BY <1>2, <2>3, <2>4, <2>5 DEF t
<1> QED BY <1>1, <1>2

LEMMA TakeWordIs ==
    ASSUME NEW d \in DrainType, NEW w, w.kind \in {"gyro", "accel", "time"}, w.slot \in Nat \ {0}
    PROVE  TakeWord(d, w) \in DrainType /\ SameRead(TakeWord(d, w), d) /\ TakeIs(TakeWord(d, w), d, w)
<1>1. CASE w.kind = "accel"
  <2> DEFINE h == [d EXCEPT !.accel = w.slot]
  <2>1. h \in DrainType /\ SameRead(h, d) /\ h.accel = w.slot /\ h.gyro = d.gyro /\ h.sets = d.sets
        /\ h.idx = d.idx /\ h.ts = d.ts
    BY DEF DrainType, SameRead
  <2>2. TakeWord(d, w) = Complete(h, w.slot)
    BY <1>1 DEF TakeWord
  <2> HIDE DEF h
  <2>3. w.slot # None
    BY DEF None
  <2>a. Complete(h, w.slot) \in DrainType /\ SameRead(Complete(h, w.slot), h)
    BY <2>1, CompleteIs
  <2>4. TakeWord(d, w) \in DrainType /\ SameRead(TakeWord(d, w), d)
    BY <2>1, <2>2, <2>a DEF SameRead
  <2>5. CASE d.gyro = None
    <3>1. Complete(h, w.slot) = h
      BY <2>1, <2>5, CompleteIs
    <3> QED BY <1>1, <2>1, <2>2, <2>4, <2>5, <3>1 DEF TakeIs
  <2>6. CASE d.gyro # None
    <3>1. /\ Complete(h, w.slot).accel = None /\ Complete(h, w.slot).gyro = None
          /\ Complete(h, w.slot).idx = h.idx /\ Complete(h, w.slot).ts = h.ts
          /\ Complete(h, w.slot).sets = Append(h.sets, [accel |-> h.accel, gyro |-> h.gyro])
      BY <2>1, <2>3, <2>6, CompleteIs
    <3> QED BY <1>1, <2>1, <2>2, <2>4, <2>6, <3>1 DEF TakeIs
  <2> QED BY <2>5, <2>6
<1>2. CASE w.kind = "gyro"
  <2> DEFINE h == [d EXCEPT !.gyro = w.slot]
  <2>1. h \in DrainType /\ SameRead(h, d) /\ h.gyro = w.slot /\ h.accel = d.accel /\ h.sets = d.sets
        /\ h.idx = d.idx /\ h.ts = d.ts
    BY DEF DrainType, SameRead
  <2>2. TakeWord(d, w) = Complete(h, w.slot)
    BY <1>2 DEF TakeWord
  <2> HIDE DEF h
  <2>3. w.slot # None
    BY DEF None
  <2>a. Complete(h, w.slot) \in DrainType /\ SameRead(Complete(h, w.slot), h)
    BY <2>1, CompleteIs
  <2>4. TakeWord(d, w) \in DrainType /\ SameRead(TakeWord(d, w), d)
    BY <2>1, <2>2, <2>a DEF SameRead
  <2>5. CASE d.accel = None
    <3>1. Complete(h, w.slot) = h
      BY <2>1, <2>5, CompleteIs
    <3> QED BY <1>2, <2>1, <2>2, <2>4, <2>5, <3>1 DEF TakeIs
  <2>6. CASE d.accel # None
    <3>1. /\ Complete(h, w.slot).accel = None /\ Complete(h, w.slot).gyro = None
          /\ Complete(h, w.slot).idx = h.idx /\ Complete(h, w.slot).ts = h.ts
          /\ Complete(h, w.slot).sets = Append(h.sets, [accel |-> h.accel, gyro |-> h.gyro])
      BY <2>1, <2>3, <2>6, CompleteIs
    <3> QED BY <1>2, <2>1, <2>2, <2>4, <2>6, <3>1 DEF TakeIs
  <2> QED BY <2>5, <2>6
<1>3. CASE w.kind = "time"
  <2> DEFINE x == IF d.sets # <<>> /\ d.setCnt = 0 THEN Len(d.sets) ELSE Len(d.sets) + 1
  <2>1. x \in Nat /\ (x = Len(d.sets) + 1 \/ (d.sets # <<>> /\ x = Len(d.sets)))
    BY DEF DrainType
  <2>2. TakeWord(d, w) = [d EXCEPT !.idx = x, !.ts = w.slot]
    BY <1>3 DEF TakeWord, NoteWord
  <2> HIDE DEF x
  <2>3. TakeWord(d, w) \in DrainType /\ SameRead(TakeWord(d, w), d)
    BY <2>1, <2>2 DEF DrainType, SameRead
  <2>4. /\ TakeWord(d, w).accel = d.accel /\ TakeWord(d, w).gyro = d.gyro /\ TakeWord(d, w).sets = d.sets
        /\ TakeWord(d, w).idx = x /\ TakeWord(d, w).ts = w.slot
    BY <2>2 DEF DrainType
  <2> QED BY <1>3, <2>1, <2>3, <2>4 DEF TakeIs
<1> QED BY <1>1, <1>2, <1>3

\* Nothing in a drain is later than the words it has read.
Loose(d, p) == d.gyro <= Passed(p) /\ \A i \in DOMAIN d.sets : d.sets[i].gyro <= Passed(p)

\* How far back the newest completed set is: a rotation may be waiting.
Back(d) == IF d.gyro # None THEN 1 ELSE 0

\* A drain that has read, up to word p, what the part wrote, without a gap: its sets are
\* of consecutive slots, up to the last one; what waits for its other half is the last
\* word of its kind; and a timestamp is that of the set it points at or of the one before.
Whole(d, p) ==
    /\ d.sets # <<>> => LastSlot(d) = Passed(p) - Back(d)
    /\ \A i \in DOMAIN d.sets : d.sets[i].gyro = LastSlot(d) - (Len(d.sets) - i)
    /\ d.gyro # None => d.gyro = Passed(p) /\ d.accel = None /\ Word(p).kind = "accel"
    /\ d.accel # None => Word(p).kind # "accel"
    /\ (d.sets = <<>> /\ d.gyro = None /\ Word(p).kind # "gyro") => d.idx = None
    /\ d.idx # None => \/ d.idx \in DOMAIN d.sets /\ d.sets[d.idx].gyro - d.ts \in {0, 1}
                       \/ d.idx = Len(d.sets) + 1 /\ d.ts = Passed(p) - Back(d)

\* One whose halves are of one slot.
Paired(d, p) ==
    /\ Word(p).kind = "accel" => d.gyro # None
    /\ Word(p).kind # "accel" => d.accel = None
    /\ Word(p).kind = "time" => d.sets # <<>>
    /\ \A i \in DOMAIN d.sets : d.sets[i].accel = d.sets[i].gyro

\* The first slot the drain publishes, if it publishes any.
NextSet(d, p) == IF d.sets # <<>> THEN d.sets[1].gyro ELSE IF d.gyro # None THEN d.gyro ELSE Passed(p) + 1

\* What it holds besides sets.
Items(d) == (IF d.accel # None THEN 1 ELSE 0) + (IF d.gyro # None THEN 1 ELSE 0) + (IF d.idx # None THEN 1 ELSE 0)

LEMMA AppendIs ==
    ASSUME NEW s \in Seq(SetType), NEW x \in SetType
    PROVE  LET t == Append(s, x)
           IN /\ t \in Seq(SetType) /\ t # <<>> /\ Len(t) = Len(s) + 1 /\ Len(s) \in Nat
              /\ DOMAIN s = 1 .. Len(s) /\ DOMAIN t = 1 .. Len(s) + 1
              /\ \A i \in 1 .. Len(s) : t[i] = s[i]
              /\ t[Len(s) + 1] = x
              /\ s = <<>> <=> Len(s) = 0
OBVIOUS

LEMMA DrainIs ==
    ASSUME NEW d \in DrainType
    PROVE  /\ d.accel \in Nat /\ d.gyro \in Nat /\ d.idx \in Nat /\ d.ts \in Nat /\ d.before \in Nat /\ d.words \in Nat
           /\ d.sets \in Seq(SetType) /\ Len(d.sets) \in Nat /\ DOMAIN d.sets = 1 .. Len(d.sets)
           /\ \A i \in DOMAIN d.sets : d.sets[i] \in SetType /\ d.sets[i].gyro \in Nat /\ d.sets[i].accel \in Nat
           /\ d.sets = <<>> <=> Len(d.sets) = 0
           /\ d.sets # <<>> => LastSlot(d) = d.sets[Len(d.sets)].gyro /\ LastSlot(d) \in Nat
<1>1. d.sets \in Seq(SetType)
  BY DEF DrainType
<1>2. Len(d.sets) \in Nat /\ DOMAIN d.sets = 1 .. Len(d.sets) /\ (d.sets = <<>> <=> Len(d.sets) = 0)
  BY <1>1
<1>3. \A i \in DOMAIN d.sets : d.sets[i] \in SetType
  BY <1>1
<1>4. \A i \in DOMAIN d.sets : d.sets[i].gyro \in Nat /\ d.sets[i].accel \in Nat
  BY <1>3 DEF SetType
<1>5. d.accel \in Nat /\ d.gyro \in Nat /\ d.idx \in Nat /\ d.ts \in Nat /\ d.before \in Nat /\ d.words \in Nat
  BY DEF DrainType
<1>6. d.sets # <<>> => LastSlot(d) = d.sets[Len(d.sets)].gyro /\ LastSlot(d) \in Nat
  BY <1>2, <1>4 DEF LastSlot
<1> QED BY <1>1, <1>2, <1>3, <1>4, <1>5, <1>6

LEMMA TakeLoose ==
    ASSUME NEW d \in DrainType, NEW p \in Nat, Loose(d, p)
    PROVE  Loose(TakeWord(d, Word(p)), p + 1)
<1> DEFINE e == TakeWord(d, Word(p))
           w == Word(p)
<1>1. StreamAt(p)
  BY Stream
<1>2. w.kind \in {"gyro", "accel", "time"} /\ w.slot \in Nat \ {0}
  BY <1>1 DEF StreamAt
<1>3. e \in DrainType /\ TakeIs(e, d, w)
  BY <1>2, TakeWordIs
<1>4. Passed(p) \in Nat /\ Passed(p + 1) \in Nat /\ Passed(p) <= Passed(p + 1)
  BY PassedGrows
<1>5. w.kind = "gyro" => w.slot <= Passed(p + 1)
  BY <1>1 DEF StreamAt
<1> HIDE DEF e, w
<1>6. /\ d.gyro \in Nat /\ d.accel \in Nat /\ d.sets \in Seq(SetType)
      /\ \A i \in DOMAIN d.sets : d.sets[i].gyro \in Nat
  BY DrainIs
<1>7. d.gyro <= Passed(p + 1) /\ \A i \in DOMAIN d.sets : d.sets[i].gyro <= Passed(p + 1)
  BY <1>4, <1>6 DEF Loose
<1>8. CASE e.sets = d.sets
  <2>1. e.gyro = d.gyro \/ e.gyro = None \/ (w.kind = "gyro" /\ e.gyro = w.slot)
    BY <1>2, <1>3, <1>8 DEF TakeIs
  <2> QED BY <1>4, <1>5, <1>7, <1>8, <2>1 DEF Loose, None, e
<1>9. CASE e.sets # d.sets
  <2>1. PICK a \in Nat, g \in Nat : e.sets = Append(d.sets, [accel |-> a, gyro |-> g]) /\ g <= Passed(p + 1)
    BY <1>2, <1>3, <1>5, <1>6, <1>7, <1>9 DEF TakeIs
  <2>2. e.gyro = None
    BY <1>2, <1>3, <1>9 DEF TakeIs
  <2>3. [accel |-> a, gyro |-> g] \in SetType
    BY DEF SetType
  <2>4. \A i \in DOMAIN e.sets : e.sets[i].gyro <= Passed(p + 1)
    BY <1>6, <1>7, <2>1, <2>3, AppendIs
  <2> QED BY <1>4, <2>2, <2>4 DEF Loose, None, e
<1> QED BY <1>8, <1>9


\* The same facts about a drain that is not whole do not matter; one that is stays so,
\* and its first slot stays what it was.
LEMMA TakeWhole ==
    ASSUME NEW d \in DrainType, NEW p \in Nat, Whole(d, p)
    PROVE  LET e == TakeWord(d, Word(p))
           IN /\ Whole(e, p + 1)
              /\ NextSet(e, p + 1) = NextSet(d, p)
              /\ e.sets # <<>> \/ (d.sets = <<>> /\ Items(e) = Items(d) + 1)
              /\ Paired(d, p) => Paired(e, p + 1)
<1> DEFINE e == TakeWord(d, Word(p))
           w == Word(p)
           P == Passed(p)
           w2 == Word(p + 1)
           P2 == Passed(p + 1)
           n == Len(d.sets)
<1>1. StreamAt(p) /\ StreamAt(p + 1)
  BY Stream
<1>2. w.kind \in {"gyro", "accel", "time"} /\ w.slot \in Nat \ {0}
  BY <1>1 DEF StreamAt
<1>3. e \in DrainType /\ TakeIs(e, d, w)
  BY <1>2, TakeWordIs
<1>4. P \in Nat /\ P2 \in Nat
  BY PassedGrows
<1>5. /\ w.kind = "gyro" => w.slot = P + 1 /\ P2 = P + 1 /\ w2.kind = "accel"
      /\ w.kind # "gyro" => w.slot = P /\ P2 = P /\ w2.kind # "accel"
      /\ w.kind = "time" => w2.kind = "gyro"
  BY <1>1 DEF StreamAt
<1>6. /\ d.gyro \in Nat /\ d.accel \in Nat /\ d.idx \in Nat /\ d.ts \in Nat /\ d.sets \in Seq(SetType) /\ n \in Nat
      /\ DOMAIN d.sets = 1 .. n
      /\ \A i \in 1 .. n : d.sets[i].gyro \in Nat
      /\ d.sets = <<>> <=> n = 0
      /\ d.sets # <<>> => LastSlot(d) = d.sets[n].gyro
  BY DrainIs
<1>7. /\ d.sets # <<>> => LastSlot(d) = P - Back(d)
      /\ \A i \in 1 .. n : d.sets[i].gyro = LastSlot(d) - (n - i)
      /\ d.gyro # None => d.gyro = P /\ d.accel = None /\ w.kind = "accel"
      /\ d.accel # None => w.kind # "accel"
      /\ (d.sets = <<>> /\ d.gyro = None /\ w.kind # "gyro") => d.idx = None
      /\ d.idx # None => \/ d.idx \in 1 .. n /\ d.sets[d.idx].gyro - d.ts \in {0, 1}
                         \/ d.idx = n + 1 /\ d.ts = P - Back(d)
  BY <1>6 DEF Whole
<1>8. Paired(d, p) <=> /\ w.kind = "accel" => d.gyro # None
                       /\ w.kind # "accel" => d.accel = None
                       /\ w.kind = "time" => d.sets # <<>>
                       /\ \A i \in 1 .. n : d.sets[i].accel = d.sets[i].gyro
  BY <1>6 DEF Paired
<1> HIDE DEF e, w, P, w2, P2, n
\* What is to be shown, in the same terms.
<1> DEFINE Goal ==
       /\ Whole(e, p + 1)
       /\ NextSet(e, p + 1) = NextSet(d, p)
       /\ e.sets # <<>> \/ (d.sets = <<>> /\ Items(e) = Items(d) + 1)
       /\ Paired(d, p) => Paired(e, p + 1)
<1> SUFFICES Goal
  BY DEF e
\* A word that completes a set.
<1>9. ASSUME NEW a \in Nat, NEW g \in Nat, e.sets = Append(d.sets, [accel |-> a, gyro |-> g]),
             e.accel = None, e.gyro = None, e.idx = d.idx, e.ts = d.ts,
             g = P2, d.sets # <<>> => LastSlot(d) = g - 1, NextSet(d, p) = IF d.sets # <<>> THEN d.sets[1].gyro ELSE g,
             P - Back(d) = g - 1, Paired(d, p) => a = g /\ w2.kind # "accel"
      PROVE  Goal
  <2> DEFINE x == [accel |-> a, gyro |-> g]
  <2>1. x \in SetType /\ x.accel = a /\ x.gyro = g
    BY DEF SetType
  <2> HIDE DEF x
  <2>2. /\ e.sets # <<>> /\ Len(e.sets) = n + 1 /\ DOMAIN e.sets = 1 .. n + 1
        /\ \A i \in 1 .. n : e.sets[i] = d.sets[i]
        /\ e.sets[n + 1] = x
    BY <1>6, <1>9, <2>1, AppendIs, SMTT(30) DEF n, x
  <2>3. LastSlot(e) = g
    BY <2>1, <2>2 DEF LastSlot
  <2>4. \A i \in 1 .. n + 1 : e.sets[i].gyro = g - (n + 1 - i)
    <3> TAKE i \in 1 .. n + 1
    <3>1. CASE i = n + 1
      <4>1. e.sets[i] = x
        BY <2>2, <3>1
      <4>2. g - (n + 1 - i) = g
        BY <1>6, <3>1
      <4> QED BY <2>1, <4>1, <4>2
    <3>2. CASE i # n + 1
      <4>1. i \in 1 .. n /\ d.sets # <<>>
        BY <1>6, <3>2
      <4>2. e.sets[i].gyro = LastSlot(d) - (n - i) /\ LastSlot(d) = g - 1
        BY <1>7, <1>9, <2>2, <4>1
      <4> QED BY <1>6, <4>1, <4>2
    <3> QED BY <3>1, <3>2
  <2>5. d.idx # None => (d.idx \in 1 .. n + 1 /\ e.sets[d.idx].gyro - d.ts \in {0, 1})
    <3> SUFFICES ASSUME d.idx # None PROVE d.idx \in 1 .. n + 1 /\ e.sets[d.idx].gyro - d.ts \in {0, 1}
      OBVIOUS
    <3>1. CASE d.idx \in 1 .. n /\ d.sets[d.idx].gyro - d.ts \in {0, 1}
      BY <1>6, <2>2, <3>1
    <3>2. CASE d.idx = n + 1 /\ d.ts = P - Back(d)
      BY <1>6, <1>9, <2>1, <2>2, <3>2
    <3> QED BY <1>7, <3>1, <3>2
  <2>6. Whole(e, p + 1)
    <3>1. e.sets # <<>> => g = P2 - Back(e)
      BY <1>4, <1>9 DEF Back
    <3>2. Len(e.sets) \in Nat /\ n + 1 = Len(e.sets) /\ P2 = Passed(p + 1)
      BY <1>6, <2>2 DEF P2
    <3>3. e.idx # None => \/ e.idx \in 1 .. n + 1 /\ e.sets[e.idx].gyro - e.ts \in {0, 1}
                          \/ e.idx = n + 1 + 1 /\ e.ts = P2 - Back(e)
      BY <1>9, <2>5
    <3>4. DOMAIN e.sets = 1 .. Len(e.sets)
      BY <2>2
    <3>5. e.sets # <<>> /\ e.gyro = None /\ e.accel = None
      BY <1>9, <2>2
    <3>6. \A i \in 1 .. n + 1 : e.sets[i].gyro = LastSlot(e) - (n + 1 - i)
      BY <2>3, <2>4
    <3>7. e.sets # <<>> => LastSlot(e) = P2 - Back(e)
      BY <2>3, <3>1
    <3>8. \A i \in DOMAIN e.sets : e.sets[i].gyro = LastSlot(e) - (Len(e.sets) - i)
      <4> TAKE i \in DOMAIN e.sets
      <4>1. n \in Nat /\ i \in 1 .. n + 1
        BY <1>6, <2>2
      <4>2. e.sets[i].gyro = LastSlot(e) - (n + 1 - i)
        BY <3>6, <4>1
      <4>3. n + 1 - i = Len(e.sets) - i
        BY <3>2, <4>1
      <4> QED BY <4>2, <4>3
    <3>9. e.idx # None => \/ e.idx \in DOMAIN e.sets /\ e.sets[e.idx].gyro - e.ts \in {0, 1}
                          \/ e.idx = Len(e.sets) + 1 /\ e.ts = Passed(p + 1) - Back(e)
      BY <3>2, <3>3, <3>4
    <3>10. e.sets # <<>> => LastSlot(e) = Passed(p + 1) - Back(e)
      BY <3>2, <3>7
    <3> QED BY <3>5, <3>8, <3>9, <3>10 DEF Whole
  <2>7. NextSet(e, p + 1) = NextSet(d, p)
    <3>1. NextSet(e, p + 1) = e.sets[1].gyro
      BY <2>2 DEF NextSet
    <3>2. CASE n = 0
      BY <1>6, <1>9, <2>1, <2>2, <3>1, <3>2
    <3>3. CASE n # 0
      <4>1. 1 \in 1 .. n /\ d.sets # <<>>
        BY <1>6, <3>3
      <4> QED BY <1>9, <2>2, <3>1, <4>1
    <3> QED BY <3>2, <3>3
  <2>8. Paired(d, p) => Paired(e, p + 1)
    <3> SUFFICES ASSUME Paired(d, p) PROVE Paired(e, p + 1)
      OBVIOUS
    <3>1. \A i \in 1 .. n + 1 : e.sets[i].accel = e.sets[i].gyro
      <4> TAKE i \in 1 .. n + 1
      <4>1. CASE i = n + 1
        BY <1>9, <2>1, <2>2, <4>1
      <4>2. CASE i # n + 1
        <5>1. i \in 1 .. n
          BY <1>6, <4>2
        <5> QED BY <1>8, <2>2, <5>1
      <4> QED BY <4>1, <4>2
    <3> QED BY <1>9, <2>2, <3>1 DEF Paired, w2
  <2> QED BY <2>2, <2>6, <2>7, <2>8
\* A half, or a timestamp.
<1>10. CASE w.kind = "gyro" /\ d.accel = None
  <2>1. e.gyro = P + 1 /\ e.accel = None /\ e.sets = d.sets /\ e.idx = d.idx /\ e.ts = d.ts /\ d.gyro = None
    BY <1>3, <1>5, <1>7, <1>10 DEF TakeIs
  <2>2. P2 = P + 1 /\ w2.kind = "accel" /\ LastSlot(e) = LastSlot(d) /\ e.gyro # None /\ Back(e) = 1 /\ Back(d) = 0
    BY <1>4, <1>5, <1>10, <2>1 DEF LastSlot, Back, None
  <2>3. Whole(e, p + 1)
    <3>1. e.sets # <<>> => LastSlot(e) = P2 - Back(e)
      BY <1>4, <1>7, <2>1, <2>2
    <3>2. \A i \in 1 .. n : e.sets[i].gyro = LastSlot(e) - (n - i)
      BY <1>7, <2>1, <2>2
    <3>3. e.idx # None => \/ e.idx \in 1 .. n /\ e.sets[e.idx].gyro - e.ts \in {0, 1}
                          \/ e.idx = n + 1 /\ e.ts = P2 - Back(e)
      BY <1>4, <1>6, <1>7, <2>1, <2>2
    <3>4. (e.sets = <<>> /\ e.gyro = None /\ w2.kind # "gyro") => e.idx = None
      BY <1>7, <2>1, <2>2
    <3>5. /\ e.gyro # None => e.gyro = P2 /\ e.accel = None /\ w2.kind = "accel"
          /\ e.accel # None => w2.kind # "accel"
      BY <1>7, <2>1, <2>2
    <3>6. n = Len(e.sets) /\ P2 = Passed(p + 1) /\ w2 = Word(p + 1)
      BY <2>1 DEF n, P2, w2
    <3>7. DOMAIN e.sets = 1 .. Len(e.sets)
      BY <1>6, <2>1 DEF n
    <3> QED BY <3>1, <3>2, <3>3, <3>4, <3>5, <3>6, <3>7 DEF Whole
  <2>4. NextSet(e, p + 1) = NextSet(d, p)
    BY <2>1, <2>2 DEF NextSet, P, P2
  <2>5. Items(e) = Items(d) + 1
    BY <1>10, <2>1, <2>2 DEF Items
  <2>6. Paired(d, p) => Paired(e, p + 1)
    BY <1>6, <1>8, <2>1, <2>2 DEF Paired, w2
  <2> QED BY <2>1, <2>3, <2>4, <2>5, <2>6
<1>11. CASE w.kind = "accel" /\ d.gyro = None
  <2>1. e.gyro = None /\ e.accel = w.slot /\ e.sets = d.sets /\ e.idx = d.idx /\ e.ts = d.ts /\ d.accel = None
    BY <1>3, <1>7, <1>11 DEF TakeIs
  <2>2. P2 = P /\ w2.kind # "accel" /\ LastSlot(e) = LastSlot(d) /\ e.accel # None /\ Back(e) = 0 /\ Back(d) = 0
    BY <1>2, <1>5, <1>11, <2>1 DEF LastSlot, Back, None
  <2>3. d.sets = <<>> => d.idx = None
    BY <1>7, <1>11
  <2>4. Whole(e, p + 1)
    <3>1. e.sets # <<>> => LastSlot(e) = P2 - Back(e)
      BY <1>4, <1>7, <2>1, <2>2
    <3>2. \A i \in 1 .. n : e.sets[i].gyro = LastSlot(e) - (n - i)
      BY <1>7, <2>1, <2>2
    <3>3. e.idx # None => \/ e.idx \in 1 .. n /\ e.sets[e.idx].gyro - e.ts \in {0, 1}
                          \/ e.idx = n + 1 /\ e.ts = P2 - Back(e)
      BY <1>4, <1>6, <1>7, <2>1, <2>2, <2>3
    <3>4. (e.sets = <<>> /\ e.gyro = None /\ w2.kind # "gyro") => e.idx = None
      BY <1>7, <2>1, <2>2, <2>3
    <3>5. /\ e.gyro # None => e.gyro = P2 /\ e.accel = None /\ w2.kind = "accel"
          /\ e.accel # None => w2.kind # "accel"
      BY <1>7, <2>1, <2>2
    <3>6. n = Len(e.sets) /\ P2 = Passed(p + 1) /\ w2 = Word(p + 1)
      BY <2>1 DEF n, P2, w2
    <3>7. DOMAIN e.sets = 1 .. Len(e.sets)
      BY <1>6, <2>1 DEF n
    <3> QED BY <3>1, <3>2, <3>3, <3>4, <3>5, <3>6, <3>7 DEF Whole
  <2>5. NextSet(e, p + 1) = NextSet(d, p)
    BY <1>11, <2>1, <2>2 DEF NextSet, P, P2
  <2>6. Items(e) = Items(d) + 1
    BY <1>11, <2>1, <2>2 DEF Items
  <2>7. ~Paired(d, p)
    BY <1>8, <1>11
  <2> QED BY <2>1, <2>4, <2>5, <2>6, <2>7
<1>12. CASE w.kind = "time"
  <2>1. /\ e.gyro = d.gyro /\ e.accel = d.accel /\ e.sets = d.sets /\ e.ts = P /\ d.gyro = None
        /\ e.idx = n + 1 \/ (d.sets # <<>> /\ e.idx = n)
    BY <1>3, <1>5, <1>7, <1>12 DEF TakeIs, n
  <2>2. P2 = P /\ w2.kind = "gyro" /\ LastSlot(e) = LastSlot(d) /\ Back(e) = 0 /\ Back(d) = 0
    BY <1>2, <1>5, <1>12, <2>1 DEF LastSlot, Back, None
  <2>3. d.sets = <<>> => d.idx = None
    BY <1>7, <1>12, <2>1
  <2>4. e.idx \in Nat /\ e.idx # None
    BY <1>6, <2>1 DEF None
  <2>5. \/ e.idx \in 1 .. n /\ d.sets[e.idx].gyro - e.ts \in {0, 1}
        \/ e.idx = n + 1 /\ e.ts = P
    <3>1. CASE d.sets # <<>> /\ e.idx = n
      <4>1. n \in 1 .. n /\ d.sets[n].gyro = P - Back(d)
        BY <1>6, <1>7, <3>1
      <4> QED BY <1>4, <2>1, <2>2, <3>1, <4>1
    <3> QED BY <2>1, <3>1
  <2>6. Whole(e, p + 1)
    <3>1. e.sets # <<>> => LastSlot(e) = P2 - Back(e)
      BY <1>4, <1>7, <2>1, <2>2
    <3>2. \A i \in 1 .. n : e.sets[i].gyro = LastSlot(e) - (n - i)
      BY <1>7, <2>1, <2>2
    <3>3. e.idx # None => \/ e.idx \in 1 .. n /\ e.sets[e.idx].gyro - e.ts \in {0, 1}
                          \/ e.idx = n + 1 /\ e.ts = P2 - Back(e)
      BY <1>4, <1>6, <2>1, <2>2, <2>5
    <3>4. (e.sets = <<>> /\ e.gyro = None /\ w2.kind # "gyro") => e.idx = None
      BY <1>7, <2>1, <2>2
    <3>5. /\ e.gyro # None => e.gyro = P2 /\ e.accel = None /\ w2.kind = "accel"
          /\ e.accel # None => w2.kind # "accel"
      BY <1>7, <2>1, <2>2
    <3>6. n = Len(e.sets) /\ P2 = Passed(p + 1) /\ w2 = Word(p + 1)
      BY <2>1 DEF n, P2, w2
    <3>7. DOMAIN e.sets = 1 .. Len(e.sets)
      BY <1>6, <2>1 DEF n
    <3> QED BY <3>1, <3>2, <3>3, <3>4, <3>5, <3>6, <3>7 DEF Whole
  <2>7. NextSet(e, p + 1) = NextSet(d, p)
    BY <2>1, <2>2 DEF NextSet, P, P2
  <2>8. d.sets = <<>> => Items(e) = Items(d) + 1
    BY <2>1, <2>3, <2>4 DEF Items
  <2>9. Paired(d, p) => Paired(e, p + 1)
    BY <1>6, <1>8, <1>12, <2>1, <2>2 DEF Paired, w2
  <2> QED BY <2>1, <2>6, <2>7, <2>8, <2>9
\* The second half.
<1>13. CASE w.kind = "accel" /\ d.gyro # None
  <2>1. /\ e.accel = None /\ e.gyro = None /\ e.idx = d.idx /\ e.ts = d.ts
        /\ e.sets = Append(d.sets, [accel |-> w.slot, gyro |-> d.gyro])
    BY <1>3, <1>13 DEF TakeIs
  <2>2. d.gyro = P /\ P2 = P /\ w.slot = P /\ w2.kind # "accel" /\ Back(d) = 1
    BY <1>5, <1>7, <1>13 DEF Back
  <2>3. d.sets # <<>> => LastSlot(d) = d.gyro - 1
    BY <1>7, <2>2
  <2>4. NextSet(d, p) = IF d.sets # <<>> THEN d.sets[1].gyro ELSE d.gyro
    BY <1>13 DEF NextSet
  <2> HIDE DEF Goal
  <2> QED BY <1>2, <1>4, <1>6, <1>9, <2>1, <2>2, <2>3, <2>4
<1>14. CASE w.kind = "gyro" /\ d.accel # None
  <2>1. /\ e.accel = None /\ e.gyro = None /\ e.idx = d.idx /\ e.ts = d.ts
        /\ e.sets = Append(d.sets, [accel |-> d.accel, gyro |-> w.slot])
    BY <1>3, <1>14 DEF TakeIs
  <2>2. d.gyro = None /\ P2 = P + 1 /\ w.slot = P + 1 /\ Back(d) = 0
    BY <1>5, <1>7, <1>14 DEF Back
  <2>3. d.sets # <<>> => LastSlot(d) = w.slot - 1
    BY <1>4, <1>7, <2>2
  <2>4. NextSet(d, p) = IF d.sets # <<>> THEN d.sets[1].gyro ELSE w.slot
    BY <2>2 DEF NextSet, P
  <2>5. ~Paired(d, p)
    BY <1>8, <1>14
  <2>6. P - Back(d) = w.slot - 1 /\ w.slot \in Nat /\ w.slot = P2
    BY <1>4, <2>2
  <2> HIDE DEF Goal
  <2> QED BY <1>6, <1>9, <2>1, <2>3, <2>4, <2>5, <2>6
<1> HIDE DEF Goal
<1> QED BY <1>2, <1>10, <1>11, <1>12, <1>13, <1>14


\* A drain word by word.
Steps(f, d, p, n) == f = [k \in 0 .. n |-> IF k = 0 THEN d ELSE TakeWord(f[k - 1], Word(p + k - 1))]

LEMMA StepsExist == ASSUME NEW d, NEW p \in Nat, NEW n \in Nat PROVE \E f : Steps(f, d, p, n)
<1> DEFINE S == {m \in Nat : ~\E f : Steps(f, d, p, m)}
<1>1. S = {}
  <2> SUFFICES ASSUME S # {} PROVE FALSE
    OBVIOUS
  <2>1. PICK m \in S : \A e \in S : m <= e
    BY Least
  <2>2. m \in Nat /\ ~\E f : Steps(f, d, p, m)
    BY <2>1
  <2>3. m # 0
    <3> SUFFICES ASSUME m = 0 PROVE FALSE
      OBVIOUS
    <3> DEFINE g == [k \in 0 .. m |-> d]
    <3>1. \A k \in 0 .. m : k = 0
      OBVIOUS
    <3>2. g = [k \in 0 .. m |-> IF k = 0 THEN d ELSE TakeWord(g[k - 1], Word(p + k - 1))]
      BY <3>1
    <3>3. Steps(g, d, p, m)
      BY <3>2 DEF Steps
    <3> QED BY <2>2, <3>3
  <2>4. m - 1 \in Nat /\ m - 1 \notin S
    BY <2>1, <2>2, <2>3
  <2>5. PICK f : Steps(f, d, p, m - 1)
    BY <2>4
  <2> DEFINE g == [k \in 0 .. m |-> IF k < m THEN f[k] ELSE TakeWord(f[m - 1], Word(p + m - 1))]
  <2>6. \A k \in 0 .. m - 1 : f[k] = IF k = 0 THEN d ELSE TakeWord(f[k - 1], Word(p + k - 1))
    <3> DEFINE F(k) == IF k = 0 THEN d ELSE TakeWord(f[k - 1], Word(p + k - 1))
    <3>1. f = [k \in 0 .. m - 1 |-> F(k)]
      BY <2>5 DEF Steps
    <3> HIDE DEF F
    <3>2. \A k \in 0 .. m - 1 : f[k] = F(k)
      BY <3>1
    <3> QED BY <3>2 DEF F
  <2>7. \A k \in 0 .. m : g[k] = IF k = 0 THEN d ELSE TakeWord(g[k - 1], Word(p + k - 1))
    <3> TAKE k \in 0 .. m
    <3>1. CASE k = 0
      <4>1. k < m /\ 0 \in 0 .. m - 1
        BY <2>2, <2>3, <3>1
      <4> QED BY <2>6, <3>1, <4>1
    <3>2. CASE k # 0 /\ k < m
      <4>1. k \in 0 .. m - 1 /\ k - 1 \in 0 .. m /\ k - 1 < m
        BY <2>2, <3>2
      <4>2. g[k - 1] = f[k - 1] /\ g[k] = f[k]
        BY <3>2, <4>1
      <4> QED BY <2>6, <3>2, <4>1, <4>2
    <3>3. CASE k # 0 /\ k = m
      <4>1. k - 1 \in 0 .. m /\ k - 1 < m /\ ~(k < m)
        BY <2>2, <3>3
      <4>2. g[k - 1] = f[k - 1] /\ g[k] = TakeWord(f[m - 1], Word(p + m - 1))
        BY <4>1
      <4> QED BY <3>3, <4>2
    <3> QED BY <2>2, <3>1, <3>2, <3>3
  <2>8. Steps(g, d, p, m)
    <3> DEFINE F(k) == IF k = 0 THEN d ELSE TakeWord(g[k - 1], Word(p + k - 1))
    <3>1. \A k \in 0 .. m : g[k] = F(k)
      BY <2>7
    <3>2. DOMAIN g = 0 .. m /\ g = [k \in DOMAIN g |-> g[k]]
      OBVIOUS
    <3> HIDE DEF F, g
    <3>3. g = [k \in 0 .. m |-> F(k)]
      BY <3>1, <3>2
    <3> QED BY <3>3 DEF Steps, F
  <2> QED BY <2>2, <2>8
<1> QED BY <1>1

ByWords(f, d, p, n) == f[0] = d /\ \A k \in 1 .. n : f[k] = TakeWord(f[k - 1], Word(p + (k - 1)))

LEMMA TakenIs ==
    ASSUME NEW d, NEW p \in Nat, NEW n \in Nat
    PROVE  \E f : Taken(d, p, n) = f[n] /\ ByWords(f, d, p, n)
<1> DEFINE f == CHOOSE g : Steps(g, d, p, n)
<1>1. Steps(f, d, p, n)
  BY StepsExist
<1>2. Taken(d, p, n) = f[n]
  BY DEF Taken, Steps
<1> HIDE DEF f
<1> DEFINE F(k) == IF k = 0 THEN d ELSE TakeWord(f[k - 1], Word(p + k - 1))
<1>3. f = [k \in 0 .. n |-> F(k)]
  BY <1>1 DEF Steps
<1> HIDE DEF F
<1>4. \A k \in 0 .. n : f[k] = F(k)
  BY <1>3
<1>5. f[0] = d
  BY <1>4 DEF F
<1>6. \A k \in 1 .. n : f[k] = TakeWord(f[k - 1], Word(p + (k - 1)))
  <2> TAKE k \in 1 .. n
  <2>1. k \in 0 .. n /\ k # 0 /\ p + k - 1 = p + (k - 1)
    OBVIOUS
  <2> QED BY <1>4, <2>1 DEF F
<1> QED BY <1>2, <1>5, <1>6 DEF ByWords

\* What a block of n words does to a drain.
BlockKeeps(e, d, p, n) ==
    /\ e \in DrainType /\ SameRead(e, d)
    /\ Loose(d, p) => Loose(e, p + n)
    /\ Whole(d, p) => /\ Whole(e, p + n)
                      /\ NextSet(e, p + n) = NextSet(d, p)
                      /\ e.sets # <<>> \/ (d.sets = <<>> /\ Items(e) = Items(d) + n)
                      /\ Paired(d, p) => Paired(e, p + n)

LEMMA WordKeeps ==
    ASSUME NEW d \in DrainType, NEW e \in DrainType, NEW p \in Nat, NEW k \in Nat, BlockKeeps(e, d, p, k)
    PROVE  BlockKeeps(TakeWord(e, Word(p + k)), d, p, k + 1)
<1> DEFINE h == TakeWord(e, Word(p + k))
           q == p + k
<1>1. q \in Nat /\ q + 1 = p + (k + 1)
  OBVIOUS
<1>2. StreamAt(q)
  BY <1>1, Stream
<1>3. h \in DrainType /\ SameRead(h, e)
  <2> HIDE DEF q
  <2>1. Word(q).kind \in {"gyro", "accel", "time"} /\ Word(q).slot \in Nat \ {0}
    BY <1>2 DEF StreamAt
  <2> QED BY <2>1, TakeWordIs DEF q
<1>4. Loose(e, q) => Loose(h, q + 1)
  BY <1>1, TakeLoose
<1>5. ASSUME Whole(e, q)
      PROVE  /\ Whole(h, q + 1)
             /\ NextSet(h, q + 1) = NextSet(e, q)
             /\ h.sets # <<>> \/ (e.sets = <<>> /\ Items(h) = Items(e) + 1)
             /\ Paired(e, q) => Paired(h, q + 1)
  BY <1>1, <1>5, TakeWhole
<1> HIDE DEF h, q
<1>6. SameRead(h, d)
  BY <1>3 DEF SameRead, BlockKeeps
<1>7. Loose(d, p) => Loose(h, p + (k + 1))
  BY <1>1, <1>4 DEF BlockKeeps, q
<1>8. Whole(d, p) => Whole(h, p + (k + 1)) /\ NextSet(h, p + (k + 1)) = NextSet(d, p) /\ (Paired(d, p) => Paired(h, p + (k + 1)))
  BY <1>1, <1>5 DEF BlockKeeps, q
<1>9. Whole(d, p) => h.sets # <<>> \/ (d.sets = <<>> /\ Items(h) = Items(d) + (k + 1))
  <2> SUFFICES ASSUME Whole(d, p), h.sets = <<>> PROVE d.sets = <<>> /\ Items(h) = Items(d) + (k + 1)
    OBVIOUS
  <2>1. Whole(e, q) /\ (e.sets # <<>> \/ (d.sets = <<>> /\ Items(e) = Items(d) + k))
    BY DEF BlockKeeps, q
  <2>2. e.sets = <<>> /\ Items(h) = Items(e) + 1
    BY <1>5, <2>1
  <2>3. Items(d) \in Nat
    BY DEF Items
  <2> QED BY <2>1, <2>2, <2>3
<1>10. BlockKeeps(h, d, p, k + 1)
  BY <1>3, <1>6, <1>7, <1>8, <1>9 DEF BlockKeeps
<1> QED BY <1>10 DEF h, q

LEMMA TakenKeeps ==
    ASSUME NEW d \in DrainType, NEW p \in Nat, NEW n \in Nat
    PROVE  BlockKeeps(Taken(d, p, n), d, p, n)
<1>0. PICK f : Taken(d, p, n) = f[n] /\ ByWords(f, d, p, n)
  BY TakenIs
<1>1. /\ Taken(d, p, n) = f[n] /\ f[0] = d
      /\ \A k \in 1 .. n : f[k] = TakeWord(f[k - 1], Word(p + (k - 1)))
  BY <1>0 DEF ByWords
<1> DEFINE S == {k \in 0 .. n : ~BlockKeeps(f[k], d, p, k)}
<1>2. S = {}
  <2> SUFFICES ASSUME S # {} PROVE FALSE
    OBVIOUS
  <2>1. S \in SUBSET Nat
    OBVIOUS
  <2>2. PICK k \in S : \A e \in S : k <= e
    BY <2>1, Least
  <2>3. k \in 0 .. n /\ ~BlockKeeps(f[k], d, p, k)
    BY <2>2
  <2>4. k # 0
    <3>1. p + 0 = p /\ Items(d) + 0 = Items(d)
      BY DEF Items
    <3>2. BlockKeeps(d, d, p, 0)
      <4>1. d.sets # <<>> \/ (d.sets = <<>> /\ Items(d) = Items(d) + 0)
        BY <3>1
      <4>2. SameRead(d, d)
        BY DEF SameRead
      <4> QED BY <3>1, <4>1, <4>2 DEF BlockKeeps
    <3> QED BY <1>1, <2>3, <3>2
  <2>5. k - 1 \in 0 .. n /\ k - 1 \notin S /\ k \in 1 .. n /\ k - 1 \in Nat /\ k - 1 + 1 = k
    BY <2>2, <2>3, <2>4
  <2>6. BlockKeeps(f[k - 1], d, p, k - 1)
    BY <2>5
  <2>7. f[k - 1] \in DrainType
    BY <2>6 DEF BlockKeeps
  <2>8. BlockKeeps(TakeWord(f[k - 1], Word(p + (k - 1))), d, p, k - 1 + 1)
    BY <2>5, <2>6, <2>7, WordKeeps
  <2>9. BlockKeeps(f[k], d, p, k)
    BY <1>1, <2>5, <2>8
  <2> QED BY <2>3, <2>9
<1>3. n \notin S /\ n \in 0 .. n
  BY <1>2
<1>4. BlockKeeps(f[n], d, p, n)
  BY <1>3
<1> QED BY <1>1, <1>4


(* ------------------------------- the reader ------------------------------ *)

ChipType == [start : Nat, on : BOOLEAN, first : Nat, next : Nat, ovr : BOOLEAN]
GuardType == [last : Int, have : BOOLEAN, refusals : 0 .. MaxRefusals]
AnchorType == [valid : BOOLEAN, chip : Int, wall : Int, at : Int]
ReaderType == [errs : 0 .. MaxErrors, fails : 0 .. MaxFailures, stop : BOOLEAN, counted : Int, anchor : AnchorType]
GhostType == [late : Nat, bad : Nat, adrift : BOOLEAN, hurt : 0 .. 3, stale : BOOLEAN]

AcqTypes ==
    /\ now \in 0 .. Horizon /\ bus \in {"ok", "dead"}
    /\ chip \in ChipType /\ guard \in GuardType /\ drain \in DrainType /\ rd \in ReaderType /\ ghost \in GhostType

\* The FIFO holds what was written and not read; a drain reads no more than was there
\* when it began, and only of a part that samples; a failed recovery leaves none.
ControlInv ==
    /\ chip.start <= now /\ chip.first <= chip.next /\ chip.next - chip.first <= FifoWords
    /\ chip.on => chip.next = WordsBy(Counter)
    /\ ~chip.on => chip.first = chip.next
    /\ drain.pc # "words" => drain = [Idle EXCEPT !.pc = drain.pc]
    /\ drain.pc = "words" => /\ chip.on /\ drain.words <= chip.next - chip.first
                             /\ chip.start <= drain.before /\ drain.before <= now
    /\ rd.stop => drain.pc = "wait"
    /\ ~rd.stop => rd.fails < MaxFailures
    /\ drain.pc # "recover" => rd.errs < MaxErrors

\* A drain has no gap unless words were overwritten in it, and ends where the FIFO did
\* when it began.
StreamInv ==
    /\ ghost.hurt = 3 => ghost.adrift
    /\ drain.pc = "words" =>
          /\ Loose(drain, chip.first)
          /\ ghost.hurt < 3 => /\ Whole(drain, chip.first)
                               /\ chip.first + drain.words = WordsBy(drain.before - chip.start)
          /\ ghost.hurt <= 1 => Paired(drain, chip.first)
    /\ (drain.pc # "words" /\ chip.on /\ ghost.hurt <= 1) => Word(chip.first).kind = "gyro"

\* What the guard remembers is the end of the last burst: up to the bound ahead of the
\* next set, and one behind it at most - but for an overflow that the next drain, or
\* this one, is told of, and which left words enough for a set.
Told == IF drain.pc = "words" THEN drain.ovf /\ (drain.sets # <<>> \/ Items(drain) + drain.words >= 3)
        ELSE chip.ovr /\ chip.next - chip.first >= 3
GuardInv ==
    (chip.on /\ guard.have /\ ~ghost.adrift) =>
        /\ guard.last <= NextSet(drain, chip.first) - 1 + Ahead(ghost)
        /\ guard.last + 2 >= NextSet(drain, chip.first) \/ Told

\* The anchor pairs a stamp and a time of one drain.
AnchorInv ==
    (rd.anchor.valid /\ ~ghost.stale) => rd.anchor.wall - chip.start - rd.anchor.chip \in -Ahead(ghost) .. 1

AcqInv == AcqTypes /\ ControlInv /\ StreamInv /\ GuardInv /\ AnchorInv /\ PairsRecover /\ StampsTrack /\ WallHonest

(* ------------------------------ small facts ------------------------------ *)

LEMMA BoundsAre ==
    /\ FifoWords \in Nat /\ FifoWords >= 3 /\ BurstWords \in Nat /\ BurstWords >= 1 /\ BurstWords <= FifoWords
    /\ Slack \in Nat /\ Jitter \in Nat /\ MaxRefusals \in Nat
    /\ MaxErrors \in Nat /\ MaxErrors >= 1 /\ MaxFailures \in Nat /\ MaxFailures >= 1
    /\ BadCounters \subseteq Nat /\ Horizon \in Nat
BY FifoAssumption, LimitAssumption

LEMMA FieldsAre ==
    ASSUME AcqTypes
    PROVE  /\ now \in Nat
           /\ chip.start \in Nat /\ chip.first \in Nat /\ chip.next \in Nat /\ chip.on \in BOOLEAN /\ chip.ovr \in BOOLEAN
           /\ guard.last \in Int /\ guard.have \in BOOLEAN /\ guard.refusals \in 0 .. MaxRefusals
           /\ drain.words \in Nat /\ drain.before \in Nat /\ drain.ovf \in BOOLEAN /\ drain.pc \in {"wait", "words", "recover"}
           /\ rd.errs \in 0 .. MaxErrors /\ rd.fails \in 0 .. MaxFailures /\ rd.stop \in BOOLEAN /\ rd.counted \in Int
           /\ rd.anchor \in AnchorType
           /\ rd.anchor.valid \in BOOLEAN /\ rd.anchor.chip \in Int /\ rd.anchor.wall \in Int /\ rd.anchor.at \in Int
           /\ ghost.late \in Nat /\ ghost.bad \in Nat /\ ghost.hurt \in 0 .. 3
           /\ ghost.adrift \in BOOLEAN /\ ghost.stale \in BOOLEAN
<1>1. now \in Nat
  BY BoundsAre DEF AcqTypes
<1>2. chip.start \in Nat /\ chip.first \in Nat /\ chip.next \in Nat /\ chip.on \in BOOLEAN /\ chip.ovr \in BOOLEAN
  BY DEF AcqTypes, ChipType
<1>3. guard.last \in Int /\ guard.have \in BOOLEAN /\ guard.refusals \in 0 .. MaxRefusals
  BY DEF AcqTypes, GuardType
<1>4. drain.words \in Nat /\ drain.before \in Nat /\ drain.ovf \in BOOLEAN /\ drain.pc \in {"wait", "words", "recover"}
  BY DEF AcqTypes, DrainType
<1>5. rd.errs \in 0 .. MaxErrors /\ rd.fails \in 0 .. MaxFailures /\ rd.stop \in BOOLEAN /\ rd.counted \in Int
      /\ rd.anchor \in AnchorType
  BY DEF AcqTypes, ReaderType
<1>6. rd.anchor.valid \in BOOLEAN /\ rd.anchor.chip \in Int /\ rd.anchor.wall \in Int /\ rd.anchor.at \in Int
  BY <1>5 DEF AnchorType
<1>7. /\ ghost.late \in Nat /\ ghost.bad \in Nat /\ ghost.hurt \in 0 .. 3
      /\ ghost.adrift \in BOOLEAN /\ ghost.stale \in BOOLEAN
  BY DEF AcqTypes, GhostType
<1> QED BY <1>1, <1>2, <1>3, <1>4, <1>5, <1>6, <1>7

LEMMA AheadIs ==
    ASSUME NEW g, g.late \in Nat, g.bad \in Nat
    PROVE  /\ Ahead(g) \in Nat
           /\ \A h : (h.late \in Nat /\ h.late >= g.late /\ h.bad = g.bad) => Ahead(h) \in Nat /\ Ahead(h) >= Ahead(g) + (h.late - g.late)
           /\ \A h : (h.late \in Nat /\ h.late >= g.late /\ h.bad = g.bad + 1) => Ahead(h) \in Nat /\ Ahead(h) >= Ahead(g) + Slack
<1>1. g.bad * Slack \in Nat /\ (g.bad + 1) * Slack = g.bad * Slack + Slack
  BY BoundsAre
<1> QED BY <1>1, BoundsAre DEF Ahead

LEMMA MaxTwo == ASSUME NEW a \in Nat, NEW b \in Nat PROVE Max({a, b}) = IF a >= b THEN a ELSE b
<1> DEFINE m == IF a >= b THEN a ELSE b
<1>1. m \in {a, b} /\ \A y \in {a, b} : m >= y
  OBVIOUS
<1>2. \A x \in {a, b} : (\A y \in {a, b} : x >= y) => x = m
  OBVIOUS
<1> HIDE DEF m
<1>3. Max({a, b}) = m
  BY <1>1, <1>2 DEF Max
<1> QED BY <1>3 DEF m

LEMMA MaxThree ==
    ASSUME NEW a \in Int, NEW b \in Int, NEW c \in Int
    PROVE  Max({a, b, c}) \in Int /\ Max({a, b, c}) >= a /\ Max({a, b, c}) >= b /\ Max({a, b, c}) >= c
<1> DEFINE m == IF a >= b /\ a >= c THEN a ELSE IF b >= c THEN b ELSE c
<1>1. m \in {a, b, c} /\ \A y \in {a, b, c} : m >= y
  OBVIOUS
<1> HIDE DEF m
<1>2. \E x \in {a, b, c} : \A y \in {a, b, c} : x >= y
  BY <1>1
<1>3. Max({a, b, c}) \in {a, b, c} /\ \A y \in {a, b, c} : Max({a, b, c}) >= y
  BY <1>2 DEF Max
<1> QED BY <1>3

\* What is said of a drain is said of its readings.
LEMMA SameDrain ==
    ASSUME NEW e, NEW d, e.sets = d.sets, e.accel = d.accel, e.gyro = d.gyro, e.idx = d.idx, e.ts = d.ts, NEW p
    PROVE  /\ Loose(e, p) <=> Loose(d, p)
           /\ Whole(e, p) <=> Whole(d, p)
           /\ Paired(e, p) <=> Paired(d, p)
           /\ NextSet(e, p) = NextSet(d, p) /\ Items(e) = Items(d)
<1>1. LastSlot(e) = LastSlot(d) /\ Back(e) = Back(d)
  BY DEF LastSlot, Back
<1>2. Loose(e, p) <=> Loose(d, p)
  BY DEF Loose
<1>3. Whole(e, p) <=> Whole(d, p)
  BY <1>1 DEF Whole
<1>4. Paired(e, p) <=> Paired(d, p)
  BY DEF Paired
<1>5. NextSet(e, p) = NextSet(d, p) /\ Items(e) = Items(d)
  BY DEF NextSet, Items
<1> QED BY <1>2, <1>3, <1>4, <1>5

\* A drain that has read nothing.
LEMMA EmptyDrain ==
    ASSUME NEW d, d.sets = <<>>, d.accel = None, d.gyro = None, d.idx = None, NEW p \in Nat
    PROVE  /\ Loose(d, p) /\ Whole(d, p) /\ NextSet(d, p) = Passed(p) + 1 /\ Items(d) = 0
           /\ Word(p).kind = "gyro" => Paired(d, p)
<1>1. Passed(p) \in Nat /\ DOMAIN d.sets = {}
  BY PassedGrows
<1> QED BY <1>1 DEF Loose, Whole, Paired, NextSet, Items, None

LEMMA IdleIs ==
    ASSUME NEW pc \in {"wait", "words", "recover"}
    PROVE  LET d == [Idle EXCEPT !.pc = pc]
           IN /\ d \in DrainType /\ d.pc = pc /\ d.sets = <<>> /\ d.accel = None /\ d.gyro = None /\ d.idx = None /\ d.ts = 0
              /\ d.words = 0 /\ d.ovf = FALSE
              /\ d = [Idle EXCEPT !.pc = d.pc]
              /\ pc = "wait" => d = Idle
<1>1. <<>> \in Seq(SetType)
  OBVIOUS
<1>2. Idle \in DrainType
  BY <1>1 DEF Idle, DrainType, None
<1>3. [Idle EXCEPT !.pc = pc] \in DrainType
  BY <1>2, Zenon DEF DrainType
<1>4. pc = "wait" => [Idle EXCEPT !.pc = pc] = Idle
  <2>1. Idle.pc = "wait"
    BY DEF Idle
  <2> QED BY <1>2, <2>1 DEF DrainType
<1> QED BY <1>3, <1>4 DEF Idle

LEMMA IdleFields ==
    ASSUME NEW d, d = [Idle EXCEPT !.pc = d.pc], d.pc \in {"wait", "words", "recover"}
    PROVE  /\ d.sets = <<>> /\ d.accel = None /\ d.gyro = None /\ d.idx = None
           /\ d.words = 0 /\ d.ovf = FALSE /\ (d.pc = "wait" => d = Idle)
<1> DEFINE e == [Idle EXCEPT !.pc = d.pc]
<1>1. /\ e.sets = <<>> /\ e.accel = None /\ e.gyro = None /\ e.idx = None
      /\ e.words = 0 /\ e.ovf = FALSE /\ (d.pc = "wait" => e = Idle)
  BY IdleIs
<1>2. d = e
  OBVIOUS
<1> HIDE DEF e
<1> QED BY <1>1, <1>2

LEMMA OutSame == ASSUME UNCHANGED out, PairsRecover, StampsTrack, WallHonest PROVE PairsRecover' /\ StampsTrack' /\ WallHonest'
<1>1. PairsRecover'
  BY DEF PairsRecover, Burst
<1>2. StampsTrack'
  BY DEF StampsTrack, Burst, LastSlot, Ahead
<1>3. WallHonest'
  BY DEF WallHonest, WallOff, Burst, LastSlot, Ahead
<1> QED BY <1>1, <1>2, <1>3


(* -------------------------------- the part ------------------------------- *)

LEMMA AcqInit == Init => AcqInv
<1> SUFFICES ASSUME Init PROVE AcqInv
  OBVIOUS
<1>1. drain = Idle /\ Idle \in DrainType /\ drain = [Idle EXCEPT !.pc = drain.pc] /\ drain.pc = "wait"
      /\ drain.sets = <<>> /\ drain.accel = None /\ drain.gyro = None /\ drain.idx = None /\ drain.words = 0
  <2>1. Idle = [Idle EXCEPT !.pc = "wait"]
    BY IdleIs
  <2>2. Idle \in DrainType /\ Idle.pc = "wait" /\ Idle.sets = <<>> /\ Idle.accel = None /\ Idle.gyro = None /\ Idle.idx = None
        /\ Idle.words = 0
    BY <2>1, IdleIs
  <2> QED BY <2>1, <2>2 DEF Init
<1>2. /\ now = 0 /\ bus = "ok" /\ chip = [start |-> 0, on |-> TRUE, first |-> 0, next |-> 0, ovr |-> FALSE]
      /\ guard = NoGuard /\ rd = [errs |-> 0, fails |-> 0, stop |-> FALSE, counted |-> 0, anchor |-> NoAnchor] /\ ghost = Clean
      /\ out = NoBurst
  BY DEF Init
<1>3. AcqTypes
  <2>1. NoAnchor \in AnchorType
    BY DEF NoAnchor, AnchorType
  <2>2. guard \in GuardType
    BY <1>2, BoundsAre DEF NoGuard, GuardType
  <2>3. rd \in ReaderType
    BY <1>2, <2>1, BoundsAre DEF ReaderType
  <2>4. ghost \in GhostType
    BY <1>2 DEF Clean, GhostType
  <2>5. chip \in ChipType
    BY <1>2 DEF ChipType
  <2> QED BY <1>1, <1>2, <2>2, <2>3, <2>4, <2>5, BoundsAre DEF AcqTypes
<1>4. chip.start = 0 /\ chip.first = 0 /\ chip.next = 0 /\ chip.on /\ ~rd.stop /\ rd.errs = 0 /\ rd.fails = 0
  BY <1>2
<1>5. WordsBy(0) = 0
  <2>1. Slot(0) \in Nat /\ WordsBy(Slot(0)) <= 0 /\ 0 < WordsBy(Slot(0) + 1)
    BY SlotOf
  <2>2. SlotWords(0) /\ SlotWords(Slot(0))
    BY <2>1, Layout
  <2>3. WordsBy(Slot(0)) \in Nat /\ WordsBy(Slot(0)) >= 2 * Slot(0)
    BY <2>2 DEF SlotWords
  <2>4. Slot(0) = 0
    BY <2>1, <2>3
  <2> QED BY <2>1, <2>3, <2>4
<1>6. ControlInv
  <2>1. Counter = 0
    BY <1>2, <1>4 DEF Counter
  <2> QED BY <1>1, <1>2, <1>4, <1>5, <2>1, BoundsAre DEF ControlInv
<1>7. Word(chip.first).kind = "gyro"
  BY <1>4, <1>5, Boundary
<1>8. StreamInv
  BY <1>1, <1>2, <1>7 DEF StreamInv, Clean
<1>9. GuardInv /\ AnchorInv
  BY <1>2 DEF GuardInv, AnchorInv, NoGuard, NoAnchor
<1>10. out.sets = <<>>
  BY <1>2 DEF NoBurst
<1>11. PairsRecover /\ StampsTrack /\ WallHonest
  BY <1>10 DEF PairsRecover, StampsTrack, WallHonest, Burst
<1> QED BY <1>3, <1>6, <1>8, <1>9, <1>11 DEF AcqInv

LEMMA AcqStutter == ASSUME AcqInv, UNCHANGED <<now, chip, guard, drain, rd, out, ghost>>, bus' \in {"ok", "dead"} PROVE AcqInv'
<1>1. AcqTypes'
  BY DEF AcqInv, AcqTypes
<1>2. ControlInv'
  BY DEF AcqInv, ControlInv, Counter
<1>3. StreamInv'
  BY DEF AcqInv, StreamInv
<1>4. GuardInv'
  BY DEF AcqInv, GuardInv, Told, Ahead
<1>5. AnchorInv'
  BY DEF AcqInv, AnchorInv, Ahead
<1>6. PairsRecover' /\ StampsTrack' /\ WallHonest'
  BY OutSame DEF AcqInv
<1> QED BY <1>1, <1>2, <1>3, <1>4, <1>5, <1>6 DEF AcqInv

LEMMA TickKeeps == ASSUME AcqInv, Tick PROVE AcqInv'
<1> DEFINE c == Counter
           to == WordsBy(now + 1 - chip.start)
           over == to - chip.first > FifoWords
           from == IF over THEN to - FifoWords ELSE chip.first
<1>0. AcqTypes /\ ControlInv /\ StreamInv /\ GuardInv /\ AnchorInv
  BY DEF AcqInv
<1>1. /\ now < Horizon /\ now' = now + 1 /\ bus = "ok"
      /\ UNCHANGED <<bus, guard, drain, rd, out>>
  BY DEF Tick
<1>2. now \in 0 .. Horizon /\ now' \in 0 .. Horizon /\ now \in Nat /\ now' \in Nat
  BY <1>0, <1>1, BoundsAre DEF AcqTypes
<1>3. PairsRecover' /\ StampsTrack' /\ WallHonest'
  BY <1>1, OutSame DEF AcqInv
<1>4. CASE ~chip.on
  <2>1. chip' = chip /\ ghost' = ghost
    BY <1>4 DEF Tick
  <2>2. AcqTypes'
    BY <1>0, <1>1, <1>2, <2>1 DEF AcqTypes
  <2>3. chip.start \in Nat
    BY <1>0, FieldsAre
  <2>4. ControlInv'
    BY <1>0, <1>1, <1>2, <1>4, <2>1, <2>3 DEF ControlInv
  <2>5. drain.pc # "words"
    BY <1>0, <1>4 DEF ControlInv
  <2>6. StreamInv' /\ GuardInv'
    BY <1>0, <1>1, <1>4, <2>1, <2>5 DEF StreamInv, GuardInv
  <2>7. AnchorInv'
    BY <1>0, <1>1, <2>1 DEF AnchorInv, Ahead
  <2> QED BY <1>3, <2>2, <2>4, <2>6, <2>7 DEF AcqInv
<1>5. CASE chip.on
  <2>1. /\ chip' = [chip EXCEPT !.next = to, !.first = from, !.ovr = @ \/ from # chip.first]
        /\ ghost' = IF from = chip.first THEN ghost
                     ELSE [ghost EXCEPT !.hurt = IF drain.pc = "words" THEN 3 ELSE Max({@, 2}), !.adrift = @ \/ drain.pc = "words"]
    BY <1>5 DEF Tick
  <2>2. /\ chip.start \in Nat /\ chip.first \in Nat /\ chip.next \in Nat /\ chip.ovr \in BOOLEAN
        /\ drain.words \in Nat /\ drain.before \in Nat
        /\ ghost.hurt \in 0 .. 3 /\ ghost.adrift \in BOOLEAN
    BY <1>0, FieldsAre
  <2>3. /\ chip.start <= now /\ chip.first <= chip.next /\ chip.next - chip.first <= FifoWords /\ chip.next = WordsBy(c)
        /\ drain.pc = "words" => drain.words <= chip.next - chip.first /\ drain.before <= now
    BY <1>0, <1>5 DEF ControlInv
  <2>4. c \in Nat /\ now + 1 - chip.start = c + 1 /\ Counter' = now' - chip'.start
    BY <1>2, <2>2, <2>3 DEF Counter
  <2>5. to \in Nat /\ to >= chip.next + 2
    <3>1. SlotWords(c) /\ SlotWords(c + 1)
      BY <2>4, Layout
    <3> QED BY <2>3, <2>4, <3>1 DEF SlotWords
  <2>6. from \in Nat /\ from >= chip.first /\ from <= to /\ to - from <= FifoWords /\ (from # chip.first => to - from = FifoWords)
        /\ (to - from >= chip.next - chip.first)
    <3> HIDE DEF to
    <3> QED BY <2>2, <2>3, <2>5, BoundsAre
  <2> HIDE DEF to, from, c, over
  <2>7. /\ chip'.start = chip.start /\ chip'.on = chip.on /\ chip'.next = to /\ chip'.first = from
        /\ chip' \in ChipType
        /\ from = chip.first => chip'.ovr = chip.ovr
        /\ from # chip.first => chip'.ovr = TRUE
    <3>1. chip \in ChipType
      BY <1>0 DEF AcqTypes
    <3>2. PICK b \in BOOLEAN : b = (chip.ovr \/ from # chip.first)
      BY <2>2
    <3>3. chip' = [chip EXCEPT !.next = to, !.first = from, !.ovr = b]
      BY <2>1, <3>2
    <3>4. chip'.start = chip.start /\ chip'.on = chip.on /\ chip'.next = to /\ chip'.first = from /\ chip'.ovr = b
      BY <3>1, <3>3 DEF ChipType
    <3>5. chip' \in ChipType
      BY <2>5, <2>6, <3>1, <3>3 DEF ChipType
    <3> QED BY <2>2, <3>2, <3>4, <3>5
  <2>8. ControlInv'
    <3>1. chip'.on => chip'.next = WordsBy(Counter')
      <4>1. Counter' = c + 1
        BY <1>1, <1>2, <2>2, <2>4, <2>7
      <4> QED BY <2>4, <2>7, <4>1 DEF to
    <3>2. chip'.start <= now'
      BY <1>1, <1>2, <2>2, <2>3, <2>7
    <3>3. chip'.first <= chip'.next /\ chip'.next - chip'.first <= FifoWords
      BY <2>6, <2>7
    <3>4. drain.pc = "words" => (drain.words <= chip'.next - chip'.first /\ drain.before <= now')
      BY <1>1, <1>2, <2>2, <2>3, <2>5, <2>6, <2>7
    <3> QED BY <1>0, <1>1, <1>5, <2>7, <3>1, <3>2, <3>3, <3>4 DEF ControlInv
  <2>9. AnchorInv'
    <3>1. ghost'.stale = ghost.stale /\ Ahead(ghost') = Ahead(ghost)
      <4>1. ghost'.stale = ghost.stale /\ ghost'.late = ghost.late /\ ghost'.bad = ghost.bad
        <5>1. ghost \in GhostType
          BY <1>0 DEF AcqTypes
        <5> QED BY <2>1, <5>1 DEF GhostType
      <4> QED BY <4>1 DEF Ahead
    <3> QED BY <1>0, <1>1, <2>7, <3>1 DEF AnchorInv
  <2>10. CASE from = chip.first
    <3>1. ghost' = ghost
      BY <2>1, <2>10
    <3>2. AcqTypes'
      BY <1>0, <1>1, <1>2, <2>7, <3>1 DEF AcqTypes
    <3>3. StreamInv'
      BY <1>0, <1>1, <2>7, <2>10, <3>1 DEF StreamInv
    <3>4. GuardInv'
      <4>1. Told => Told'
        BY <1>1, <2>2, <2>3, <2>5, <2>6, <2>7, <2>10 DEF Told
      <4>2. Ahead(ghost') = Ahead(ghost) /\ NextSet(drain', chip'.first) = NextSet(drain, chip.first)
        BY <1>1, <2>7, <2>10, <3>1
      <4> QED BY <1>0, <1>1, <2>7, <3>1, <4>1, <4>2 DEF GuardInv
    <3> QED BY <1>3, <2>8, <2>9, <3>2, <3>3, <3>4 DEF AcqInv
  <2>11. CASE from # chip.first
    <3>1. /\ ghost' \in GhostType
          /\ drain.pc = "words" => ghost'.hurt = 3 /\ ghost'.adrift = TRUE
          /\ drain.pc # "words" => ghost'.hurt >= 2 /\ (ghost'.hurt = 3 => ghost.hurt = 3) /\ ghost'.adrift = ghost.adrift
          /\ ghost'.late = ghost.late /\ ghost'.bad = ghost.bad
      <4>1. ghost \in GhostType
        BY <1>0 DEF AcqTypes
      <4>2. PICK h \in 0 .. 3 : h = (IF drain.pc = "words" THEN 3 ELSE Max({ghost.hurt, 2}))
                              /\ (drain.pc # "words" => h >= 2 /\ (h = 3 => ghost.hurt = 3))
        BY <2>2, MaxTwo
      <4>3. PICK a \in BOOLEAN : a = (ghost.adrift \/ drain.pc = "words")
        BY <2>2
      <4>4. ghost' = [ghost EXCEPT !.hurt = h, !.adrift = a]
        BY <2>1, <2>11, <4>2, <4>3
      <4>5. ghost' \in GhostType /\ ghost'.hurt = h /\ ghost'.adrift = a /\ ghost'.late = ghost.late /\ ghost'.bad = ghost.bad
        BY <4>1, <4>4 DEF GhostType
      <4>6. drain.pc = "words" => ghost'.hurt = 3 /\ ghost'.adrift = TRUE
        BY <4>2, <4>3, <4>5
      <4>7. drain.pc # "words" => ghost'.hurt >= 2 /\ (ghost'.hurt = 3 => ghost.hurt = 3)
        BY <4>2, <4>5
      <4>8. drain.pc # "words" => ghost'.adrift = ghost.adrift
        BY <2>2, <4>3, <4>5
      <4> QED BY <4>5, <4>6, <4>7, <4>8
    <3>2. AcqTypes'
      BY <1>0, <1>1, <1>2, <2>7, <3>1 DEF AcqTypes
    <3>3. Passed(chip.first) \in Nat /\ Passed(from) \in Nat /\ Passed(chip.first) <= Passed(from)
      BY <2>2, <2>6, PassedGrows
    <3>4. StreamInv'
      <4>1. ghost'.hurt = 3 => ghost'.adrift
        BY <1>0, <3>1 DEF StreamInv
      <4>2. drain.pc = "words" => Loose(drain, from)
        <5> SUFFICES ASSUME drain.pc = "words" PROVE Loose(drain, from)
          OBVIOUS
        <5>1. drain \in DrainType /\ Loose(drain, chip.first)
          BY <1>0 DEF StreamInv, AcqTypes
        <5>2. drain.gyro \in Nat /\ \A i \in DOMAIN drain.sets : drain.sets[i].gyro \in Nat
          BY <5>1, DrainIs
        <5> QED BY <3>3, <5>1, <5>2 DEF Loose
      <4>3. drain.pc = "words" => ~(ghost'.hurt < 3) /\ ~(ghost'.hurt <= 1)
        BY <3>1
      <4>4. drain.pc # "words" => ~(ghost'.hurt <= 1)
        BY <3>1 DEF GhostType
      <4>5. drain' = drain /\ chip'.first = from
        BY <1>1, <2>7
      <4> QED BY <4>1, <4>2, <4>3, <4>4, <4>5 DEF StreamInv
    <3>5. GuardInv'
      <4> SUFFICES ASSUME chip'.on, guard'.have, ~ghost'.adrift
                   PROVE  /\ guard'.last <= NextSet(drain', chip'.first) - 1 + Ahead(ghost')
                          /\ guard'.last + 2 >= NextSet(drain', chip'.first) \/ Told'
        BY DEF GuardInv
      <4>1. drain.pc # "words" /\ ~ghost.adrift
        BY <3>1
      <4>2. guard.last <= NextSet(drain, chip.first) - 1 + Ahead(ghost)
        BY <1>0, <1>1, <1>5, <4>1 DEF GuardInv
      <4>3. drain.sets = <<>> /\ drain.accel = None /\ drain.gyro = None /\ drain.idx = None
        <5>1. drain = [Idle EXCEPT !.pc = drain.pc] /\ drain.pc \in {"wait", "words", "recover"}
          BY <1>0, <4>1, FieldsAre DEF ControlInv
        <5> QED BY <5>1, IdleFields
      <4>4. NextSet(drain, chip.first) = Passed(chip.first) + 1 /\ NextSet(drain, from) = Passed(from) + 1
        BY <2>2, <2>6, <4>3, EmptyDrain
      <4>5. Ahead(ghost') = Ahead(ghost) /\ Ahead(ghost) \in Nat
        <5>1. ghost.late \in Nat /\ ghost.bad \in Nat
          BY <1>0, FieldsAre
        <5> QED BY <3>1, <5>1, AheadIs DEF Ahead
      <4>6. guard.last \in Int
        BY <1>0, FieldsAre
      <4>7. Told'
        BY <1>1, <2>6, <2>7, <2>11, <4>1, BoundsAre DEF Told
      <4> QED BY <1>1, <2>7, <3>3, <4>2, <4>4, <4>5, <4>6, <4>7
    <3> QED BY <1>3, <2>8, <2>9, <3>2, <3>4, <3>5 DEF AcqInv
  <2> QED BY <2>10, <2>11
<1> QED BY <1>4, <1>5


(* ------------------------------- the drain ------------------------------- *)

\* What the thread, the guard, the part and the ghost have, when a step leaves them.
LEMMA Settles ==
    ASSUME AcqTypes, ghost' = Settled
    PROVE  /\ ghost' \in GhostType /\ ghost'.late = ghost.late /\ ghost'.bad = ghost.bad /\ ghost'.stale = ghost.stale
           /\ ghost'.adrift = ghost.adrift /\ ghost'.hurt < 3
           /\ ghost'.hurt = IF ghost.hurt > 0 THEN ghost.hurt - 1 ELSE 0
<1> DEFINE h == IF ghost.hurt > 0 THEN ghost.hurt - 1 ELSE 0
<1>1. ghost \in GhostType
  BY DEF AcqTypes
<1>2. h \in 0 .. 3 /\ h < 3
  BY FieldsAre
<1>3. ghost' = [ghost EXCEPT !.hurt = h]
  BY DEF Settled
<1> HIDE DEF h
<1> QED BY <1>1, <1>2, <1>3 DEF GhostType, h

LEMMA Counts ==
    ASSUME AcqTypes, NEW ovf \in BOOLEAN
    PROVE  /\ Delivered(ovf) \in ReaderType /\ Delivered(ovf).errs = 0 /\ Delivered(ovf).fails = rd.fails
           /\ Delivered(ovf).stop = rd.stop /\ Delivered(ovf).anchor = rd.anchor
<1>1. rd \in ReaderType /\ rd.counted \in Int
  BY FieldsAre DEF AcqTypes
<1>2. PICK k \in Int : k = IF ovf THEN More(rd.counted) ELSE rd.counted
  BY <1>1 DEF More, CountWrap
<1>3. Delivered(ovf) = [rd EXCEPT !.errs = 0, !.counted = k]
  BY <1>2 DEF Delivered
<1>4. 0 \in 0 .. MaxErrors
  BY BoundsAre
<1>5. Delivered(ovf) \in ReaderType
  BY <1>1, <1>3, <1>4, Zenon DEF ReaderType
<1>6. /\ Delivered(ovf).errs = 0 /\ Delivered(ovf).fails = rd.fails
      /\ Delivered(ovf).stop = rd.stop /\ Delivered(ovf).anchor = rd.anchor
  BY <1>1, <1>3 DEF ReaderType
<1> QED BY <1>5, <1>6

LEMMA WaitingIs ==
    ASSUME AcqTypes, ControlInv, drain.pc # "words"
    PROVE  /\ drain = [Idle EXCEPT !.pc = drain.pc] /\ drain.sets = <<>> /\ drain.accel = None /\ drain.gyro = None /\ drain.idx = None
           /\ drain.words = 0 /\ drain.ovf = FALSE /\ drain.pc \in {"wait", "recover"} /\ (drain.pc = "wait" => drain = Idle)
           /\ NextSet(drain, chip.first) = Passed(chip.first) + 1
<1>1. drain = [Idle EXCEPT !.pc = drain.pc] /\ drain.pc \in {"wait", "words", "recover"} /\ chip.first \in Nat
  BY FieldsAre DEF ControlInv
<1>2. /\ drain.sets = <<>> /\ drain.accel = None /\ drain.gyro = None /\ drain.idx = None
      /\ drain.words = 0 /\ drain.ovf = FALSE /\ (drain.pc = "wait" => drain = Idle)
  BY <1>1, IdleFields
<1> QED BY <1>1, <1>2, EmptyDrain

LEMMA ReadStatusKeeps == ASSUME AcqInv, ReadStatus PROVE AcqInv'
<1>0. AcqTypes /\ ControlInv /\ StreamInv /\ GuardInv /\ AnchorInv
  BY DEF AcqInv
<1>1. /\ drain.pc = "wait" /\ ~rd.stop /\ chip' = [chip EXCEPT !.ovr = FALSE]
      /\ UNCHANGED <<now, bus, guard, out, left, ghost>>
  BY DEF ReadStatus
<1>2. PairsRecover' /\ StampsTrack' /\ WallHonest'
  BY <1>1, OutSame DEF AcqInv
<1>3. /\ chip' \in ChipType /\ chip'.start = chip.start /\ chip'.on = chip.on /\ chip'.first = chip.first /\ chip'.next = chip.next
      /\ chip'.ovr = FALSE
  BY <1>0, <1>1 DEF AcqTypes, ChipType
<1>4. AnchorInv'
  <2>1. rd'.anchor = rd.anchor
    <3>1. rd' = rd \/ rd' = Delivered(chip.ovr)
      BY DEF ReadStatus
    <3> QED BY <1>0, <3>1, Counts, FieldsAre
  <2> QED BY <1>0, <1>1, <1>3, <2>1 DEF AnchorInv, Ahead
<1>5. drain = Idle /\ NextSet(drain, chip.first) = Passed(chip.first) + 1 /\ drain = [Idle EXCEPT !.pc = drain.pc]
  BY <1>0, <1>1, WaitingIs
<1>6. CASE chip.first = chip.next
  <2>1. drain' = drain /\ rd' = Delivered(chip.ovr)
    BY <1>5, <1>6 DEF ReadStatus
  <2>2. rd' \in ReaderType /\ rd'.errs = 0 /\ rd'.fails = rd.fails /\ rd'.stop = rd.stop
    BY <1>0, <2>1, Counts, FieldsAre
  <2>3. AcqTypes'
    BY <1>0, <1>1, <1>3, <2>1, <2>2 DEF AcqTypes
  <2>4. ControlInv'
    BY <1>0, <1>1, <1>3, <2>1, <2>2, BoundsAre DEF ControlInv, Counter
  <2>5. StreamInv'
    BY <1>0, <1>1, <1>3, <2>1 DEF StreamInv
  <2>6. ~Told
    <3>1. chip.first \in Nat
      BY <1>0, FieldsAre
    <3> QED BY <1>1, <1>6, <3>1 DEF Told
  <2>7. Ahead(ghost)' = Ahead(ghost) /\ NextSet(drain', chip'.first) = NextSet(drain, chip.first)
    BY <1>1, <1>3, <2>1 DEF Ahead
  <2>8. GuardInv'
    BY <1>0, <1>1, <1>3, <2>6, <2>7 DEF GuardInv, Ahead
  <2> QED BY <1>2, <1>4, <2>3, <2>4, <2>5, <2>8 DEF AcqInv
<1>7. CASE chip.first # chip.next
  <2> DEFINE n == chip.next - chip.first
  <2>1. drain' = [Idle EXCEPT !.pc = "words", !.before = now, !.words = n, !.ovf = chip.ovr] /\ rd' = rd
    BY <1>7 DEF ReadStatus
  <2>2. /\ chip.first \in Nat /\ chip.next \in Nat /\ chip.first <= chip.next /\ n \in Nat /\ now \in Nat
        /\ chip.start \in Nat /\ chip.start <= now /\ chip.ovr \in BOOLEAN /\ chip.on
        /\ chip.next = WordsBy(Counter)
    BY <1>0, <1>7, FieldsAre DEF ControlInv
  <2>a. chip.first + n = chip.next
    BY <2>2
  <2> HIDE DEF n
  <2>3. /\ drain' \in DrainType /\ drain'.pc = "words" /\ drain'.before = now /\ drain'.words = n /\ drain'.ovf = chip.ovr
        /\ drain'.sets = <<>> /\ drain'.accel = None /\ drain'.gyro = None /\ drain'.idx = None
    <3>1. Idle \in DrainType /\ Idle.sets = <<>> /\ Idle.accel = None /\ Idle.gyro = None /\ Idle.idx = None
      BY <1>0, <1>1, <1>5, WaitingIs DEF AcqTypes
    <3> HIDE DEF Idle
    <3> QED BY <2>1, <2>2, <3>1 DEF DrainType
  <2>4. AcqTypes'
    BY <1>0, <1>1, <1>3, <2>1, <2>3 DEF AcqTypes
  <2>5. ControlInv'
    <3>1. n <= chip'.next - chip'.first
      BY <1>3, <2>2, <2>a
    <3> QED BY <1>0, <1>1, <1>3, <2>1, <2>2, <2>3, <3>1 DEF ControlInv, Counter
  <2>6. Loose(drain', chip.first) /\ Whole(drain', chip.first) /\ NextSet(drain', chip.first) = Passed(chip.first) + 1 /\ Items(drain') = 0
        /\ (Word(chip.first).kind = "gyro" => Paired(drain', chip.first))
    BY <2>2, <2>3, EmptyDrain
  <2>7. StreamInv'
    <3>1. chip.first + n = WordsBy(now - chip.start)
      BY <2>2, <2>a DEF Counter
    <3>2. ghost.hurt <= 1 => Paired(drain', chip.first)
      BY <1>0, <1>1, <2>2, <2>6 DEF StreamInv
    <3>3. ghost.hurt = 3 => ghost.adrift
      BY <1>0 DEF StreamInv
    <3> QED BY <1>1, <1>3, <2>3, <2>6, <3>1, <3>2, <3>3 DEF StreamInv
  <2>8. Told => Told'
    <3>1. Items(drain') + n = chip.next - chip.first
      BY <2>2, <2>6, <2>a
    <3> QED BY <1>1, <2>3, <3>1 DEF Told
  <2>9. Ahead(ghost') = Ahead(ghost) /\ NextSet(drain', chip'.first) = NextSet(drain, chip.first)
    BY <1>1, <1>3, <1>5, <2>6
  <2>10. GuardInv'
    BY <1>0, <1>1, <1>3, <2>2, <2>8, <2>9 DEF GuardInv
  <2> QED BY <1>2, <1>4, <2>4, <2>5, <2>7, <2>10 DEF AcqInv
<1> QED BY <1>6, <1>7

LEMMA ReadBlockKeeps == ASSUME AcqInv, ReadBlock PROVE AcqInv'
<1>0. AcqTypes /\ ControlInv /\ StreamInv /\ GuardInv /\ AnchorInv
  BY DEF AcqInv
<1> DEFINE e == Taken(drain, chip.first, Want)
           q == chip.first + Want
<1>1. /\ drain.pc = "words" /\ drain.words > 0
      /\ drain' = [e EXCEPT !.words = @ - Want] /\ chip' = [chip EXCEPT !.first = @ + Want]
      /\ UNCHANGED <<now, bus, guard, rd, out, left, ghost>>
  BY DEF ReadBlock
<1>2. PairsRecover' /\ StampsTrack' /\ WallHonest'
  BY <1>1, OutSame DEF AcqInv
<1>3. /\ drain.words \in Nat /\ chip.first \in Nat /\ chip.next \in Nat /\ drain \in DrainType /\ chip \in ChipType
      /\ drain.words <= chip.next - chip.first
  BY <1>0, <1>1, FieldsAre DEF ControlInv, AcqTypes
<1>4. Want \in Nat /\ Want <= drain.words
  BY <1>3, BoundsAre DEF Want
<1>5. BlockKeeps(e, drain, chip.first, Want)
  BY <1>3, <1>4, TakenKeeps
<1> HIDE DEF e
<1>6. e \in DrainType /\ SameRead(e, drain)
  BY <1>5 DEF BlockKeeps
<1>7. /\ drain' \in DrainType /\ drain'.words = drain.words - Want
      /\ drain'.pc = "words" /\ drain'.before = drain.before /\ drain'.ovf = drain.ovf
      /\ drain'.sets = e.sets /\ drain'.accel = e.accel /\ drain'.gyro = e.gyro /\ drain'.idx = e.idx /\ drain'.ts = e.ts
  <2>1. drain' = [e EXCEPT !.words = drain.words - Want] /\ drain.words - Want \in Nat
    BY <1>1, <1>3, <1>4, <1>6 DEF SameRead
  <2> QED BY <1>1, <1>6, <2>1 DEF SameRead, DrainType
<1>8. /\ Loose(drain', q) <=> Loose(e, q)
      /\ Whole(drain', q) <=> Whole(e, q)
      /\ Paired(drain', q) <=> Paired(e, q)
      /\ NextSet(drain', q) = NextSet(e, q) /\ Items(drain') = Items(e)
  BY <1>7, SameDrain
<1>9. chip' \in ChipType /\ chip'.start = chip.start /\ chip'.on = chip.on /\ chip'.first = q /\ chip'.next = chip.next
      /\ chip'.ovr = chip.ovr
  BY <1>1, <1>3, <1>4 DEF ChipType
<1>a. q \in Nat /\ q + (drain.words - Want) = chip.first + drain.words
      /\ q <= chip.next /\ chip.next - q <= chip.next - chip.first /\ drain.words - Want <= chip.next - q
  BY <1>3, <1>4
<1> HIDE DEF q
<1>10. AcqTypes'
  BY <1>0, <1>1, <1>7, <1>9 DEF AcqTypes
<1>11. ControlInv'
  <2>1. chip.next - q <= FifoWords
    <3>1. chip.next - chip.first <= FifoWords
      BY <1>0 DEF ControlInv
    <3> QED BY <1>3, <1>a, <3>1, BoundsAre
  <2>2. chip.on
    BY <1>0, <1>1 DEF ControlInv
  <2> QED BY <1>0, <1>1, <1>7, <1>9, <1>a, <2>1, <2>2 DEF ControlInv, Counter
<1>12. StreamInv'
  <2>1. Loose(drain', q)
    BY <1>0, <1>1, <1>5, <1>8 DEF StreamInv, BlockKeeps, q
  <2>2. ghost.hurt < 3 => Whole(drain', q) /\ q + drain'.words = WordsBy(drain'.before - chip'.start)
    BY <1>0, <1>1, <1>5, <1>7, <1>8, <1>9, <1>a DEF StreamInv, BlockKeeps, q
  <2>3. ghost.hurt <= 1 => Paired(drain', q)
    <3> SUFFICES ASSUME ghost.hurt <= 1 PROVE Paired(drain', q)
      OBVIOUS
    <3>1. ghost.hurt < 3
      BY <1>0, FieldsAre
    <3> QED BY <1>0, <1>1, <1>5, <1>8, <3>1 DEF StreamInv, BlockKeeps, q
  <2>4. ghost.hurt = 3 => ghost.adrift
    BY <1>0 DEF StreamInv
  <2> QED BY <1>1, <1>7, <1>9, <2>1, <2>2, <2>3, <2>4 DEF StreamInv
<1>13. GuardInv'
  <2> SUFFICES ASSUME chip'.on, guard'.have, ~ghost'.adrift
               PROVE  /\ guard'.last <= NextSet(drain', chip'.first) - 1 + Ahead(ghost')
                      /\ guard'.last + 2 >= NextSet(drain', chip'.first) \/ Told'
    BY DEF GuardInv
  <2>1. ghost.hurt < 3
    BY <1>0, <1>1, FieldsAre DEF StreamInv
  <2>2. Whole(drain, chip.first)
    BY <1>0, <1>1, <2>1 DEF StreamInv
  <2>3. NextSet(drain', chip'.first) = NextSet(drain, chip.first)
    BY <1>5, <1>8, <1>9, <2>2 DEF BlockKeeps, q
  <2>4. Told => Told'
    <3> SUFFICES ASSUME Told PROVE Told'
      OBVIOUS
    <3>1. drain.ovf /\ (drain.sets # <<>> \/ Items(drain) + drain.words >= 3)
      BY <1>1 DEF Told
    <3>2. e.sets # <<>> \/ (drain.sets = <<>> /\ Items(e) = Items(drain) + Want)
      BY <1>5, <2>2 DEF BlockKeeps
    <3>3. Items(drain) \in Nat
      BY DEF Items
    <3>4. drain'.sets # <<>> \/ Items(drain') + drain'.words >= 3
      <4>1. CASE e.sets # <<>>
        BY <1>7, <4>1
      <4>2. CASE drain.sets = <<>> /\ Items(e) = Items(drain) + Want
        <5>1. Items(drain') + drain'.words = Items(drain) + drain.words
          BY <1>3, <1>4, <1>7, <1>8, <3>3, <4>2
        <5> QED BY <3>1, <4>2, <5>1
      <4> QED BY <3>2, <4>1, <4>2
    <3> QED BY <1>7, <3>1, <3>4 DEF Told
  <2> QED BY <1>0, <1>1, <1>9, <2>3, <2>4 DEF GuardInv
<1>14. AnchorInv'
  BY <1>0, <1>1, <1>9 DEF AnchorInv, Ahead
<1> QED BY <1>2, <1>10, <1>11, <1>12, <1>13, <1>14 DEF AcqInv


(* ------------------------------- the reader ------------------------------ *)

\* A read that failed: what the thread, the ghost and the drain are then.
LEMMA ErroredKeeps ==
    ASSUME AcqTypes, ControlInv, ~rd.stop, drain.pc # "recover", NEW lost \in BOOLEAN, Errored(lost)
    PROVE  /\ drain' \in DrainType /\ drain'.pc \in {"wait", "recover"} /\ drain' = [Idle EXCEPT !.pc = drain'.pc]
           /\ drain'.sets = <<>> /\ drain'.accel = None /\ drain'.gyro = None /\ drain'.idx = None
           /\ rd' \in ReaderType /\ rd'.fails = rd.fails /\ rd'.stop = rd.stop /\ rd'.anchor = rd.anchor
           /\ drain'.pc # "recover" => rd'.errs < MaxErrors
           /\ ghost' \in GhostType /\ ghost'.late = ghost.late /\ ghost'.bad = ghost.bad /\ ghost'.stale = ghost.stale
           /\ ghost'.adrift = (ghost.adrift \/ lost \/ drain.ovf)
           /\ lost => ghost'.hurt >= 2 /\ (ghost'.hurt = 3 => ghost.hurt = 3)
           /\ ~lost => ghost'.hurt = ghost.hurt
<1> DEFINE pc == IF rd.errs + 1 >= MaxErrors THEN "recover" ELSE "wait"
<1>1. drain' = [Idle EXCEPT !.pc = pc] /\ pc \in {"wait", "words", "recover"}
  BY DEF Errored
<1>2. /\ drain' \in DrainType /\ drain'.pc = pc /\ drain' = [Idle EXCEPT !.pc = drain'.pc]
      /\ drain'.sets = <<>> /\ drain'.accel = None /\ drain'.gyro = None /\ drain'.idx = None
  BY <1>1, IdleIs
<1>3. rd \in ReaderType /\ rd.counted \in Int /\ rd.errs \in 0 .. MaxErrors /\ rd.errs < MaxErrors
  BY FieldsAre DEF AcqTypes, ControlInv
<1>4. PICK k \in Int : k = More(rd.counted)
  BY <1>3 DEF More, CountWrap
<1>5. rd' = [rd EXCEPT !.errs = rd.errs + 1, !.counted = k] /\ rd.errs + 1 \in 0 .. MaxErrors
  BY <1>3, <1>4, BoundsAre DEF Errored
<1>6. rd' \in ReaderType
  BY <1>3, <1>5, Zenon DEF ReaderType
<1>7. rd'.fails = rd.fails /\ rd'.stop = rd.stop /\ rd'.anchor = rd.anchor /\ rd'.errs = rd.errs + 1
  BY <1>3, <1>5 DEF ReaderType
<1>8. pc # "recover" => rd'.errs < MaxErrors
  BY <1>3, <1>7, BoundsAre
<1>9. ghost \in GhostType /\ ghost.hurt \in 0 .. 3 /\ ghost.adrift \in BOOLEAN /\ drain.ovf \in BOOLEAN
  BY FieldsAre DEF AcqTypes
<1>a. Max({ghost.hurt, 2}) = IF ghost.hurt >= 2 THEN ghost.hurt ELSE 2
  BY <1>9, MaxTwo
<1>10. PICK h \in 0 .. 3 : (lost => h = Max({ghost.hurt, 2})) /\ (~lost => h = ghost.hurt)
  <2>1. CASE lost
    BY <1>9, <1>a, <2>1
  <2>2. CASE ~lost
    BY <1>9, <2>2
  <2> QED BY <2>1, <2>2
<1>11. PICK a \in BOOLEAN : a = (ghost.adrift \/ lost \/ drain.ovf)
  BY <1>9
<1>12. ghost' = [ghost EXCEPT !.adrift = a, !.hurt = h]
  <2>1. ghost' = [ghost EXCEPT !.adrift = ghost.adrift \/ lost \/ drain.ovf,
                               !.hurt = IF lost THEN Max({ghost.hurt, 2}) ELSE ghost.hurt]
    BY DEF Errored
  <2>2. a = (ghost.adrift \/ lost \/ drain.ovf)
    BY <1>11
  <2>3. h = IF lost THEN Max({ghost.hurt, 2}) ELSE ghost.hurt
    BY <1>10, Zenon
  <2> QED BY <2>1, <2>2, <2>3, Zenon
<1>13. ghost' \in GhostType /\ ghost'.late = ghost.late /\ ghost'.bad = ghost.bad /\ ghost'.stale = ghost.stale
       /\ ghost'.adrift = a /\ ghost'.hurt = h
  BY <1>9, <1>12 DEF GhostType
<1> HIDE DEF pc
<1>14. pc \in {"wait", "recover"}
  BY DEF pc
<1>15. ghost'.adrift = (ghost.adrift \/ lost \/ drain.ovf)
  BY <1>11, <1>13, Zenon
<1>16. /\ lost => ghost'.hurt >= 2 /\ (ghost'.hurt = 3 => ghost.hurt = 3)
       /\ ~lost => ghost'.hurt = ghost.hurt
  <2>1. ghost'.hurt = h
    BY <1>13
  <2>2. ~lost => h = ghost.hurt
    BY <1>10
  <2>3. lost => h >= 2 /\ (h = 3 => ghost.hurt = 3)
    BY <1>9, <1>10, <1>a
  <2> QED BY <2>1, <2>2, <2>3
<1> QED BY <1>2, <1>6, <1>7, <1>8, <1>13, <1>14, <1>15, <1>16

LEMMA StatusFailsKeeps == ASSUME AcqInv, StatusFails PROVE AcqInv'
<1>0. AcqTypes /\ ControlInv /\ StreamInv /\ GuardInv /\ AnchorInv
  BY DEF AcqInv
<1>1. drain.pc = "wait" /\ ~rd.stop /\ Errored(FALSE) /\ UNCHANGED <<now, bus, chip, guard, out>>
  BY DEF StatusFails
<1>2. PairsRecover' /\ StampsTrack' /\ WallHonest'
  BY <1>1, OutSame DEF AcqInv
<1>3. drain.ovf = FALSE /\ NextSet(drain, chip.first) = Passed(chip.first) + 1
  BY <1>0, <1>1, WaitingIs
<1>4. /\ drain' \in DrainType /\ drain'.pc \in {"wait", "recover"} /\ drain' = [Idle EXCEPT !.pc = drain'.pc]
      /\ drain'.sets = <<>> /\ drain'.accel = None /\ drain'.gyro = None /\ drain'.idx = None
      /\ rd' \in ReaderType /\ rd'.fails = rd.fails /\ rd'.stop = rd.stop /\ rd'.anchor = rd.anchor
      /\ drain'.pc # "recover" => rd'.errs < MaxErrors
      /\ ghost' \in GhostType /\ ghost'.late = ghost.late /\ ghost'.bad = ghost.bad /\ ghost'.stale = ghost.stale
      /\ ghost'.adrift = (ghost.adrift \/ FALSE \/ drain.ovf) /\ ghost'.hurt = ghost.hurt
  BY <1>0, <1>1, ErroredKeeps
<1>5. ghost'.adrift = ghost.adrift /\ Ahead(ghost') = Ahead(ghost)
  BY <1>0, <1>3, <1>4, FieldsAre DEF Ahead
<1>6. AcqTypes'
  BY <1>0, <1>1, <1>4 DEF AcqTypes
<1>7. ControlInv'
  BY <1>0, <1>1, <1>4 DEF ControlInv, Counter
<1>8. StreamInv'
  BY <1>0, <1>1, <1>4, <1>5 DEF StreamInv
<1>9. NextSet(drain', chip.first) = Passed(chip.first) + 1
  <2>1. chip.first \in Nat
    BY <1>0, FieldsAre
  <2> QED BY <1>4, <2>1, EmptyDrain
<1>10. GuardInv'
  BY <1>0, <1>1, <1>3, <1>4, <1>5, <1>9 DEF GuardInv, Told
<1>11. AnchorInv'
  BY <1>0, <1>1, <1>4, <1>5 DEF AnchorInv
<1> QED BY <1>2, <1>6, <1>7, <1>8, <1>10, <1>11 DEF AcqInv

LEMMA BlockFailsKeeps == ASSUME AcqInv, BlockFails PROVE AcqInv'
<1>0. AcqTypes /\ ControlInv /\ StreamInv /\ GuardInv /\ AnchorInv
  BY DEF AcqInv
<1>1. PICK taken \in {0, Want} :
         /\ drain.pc = "words" /\ drain.words > 0 /\ UNCHANGED <<now, bus, guard, out>>
         /\ chip' = [chip EXCEPT !.first = @ + taken] /\ Errored(taken > 0 \/ Begun)
  BY DEF BlockFails
<1>2. PairsRecover' /\ StampsTrack' /\ WallHonest'
  BY <1>1, OutSame DEF AcqInv
<1>3. /\ drain.words \in Nat /\ chip.first \in Nat /\ chip.next \in Nat /\ drain \in DrainType /\ chip \in ChipType
      /\ drain.words <= chip.next - chip.first /\ ~rd.stop /\ chip.on /\ chip.next - chip.first <= FifoWords
  BY <1>0, <1>1, FieldsAre DEF ControlInv, AcqTypes
<1>4. taken \in Nat /\ taken <= drain.words
  BY <1>3, BoundsAre DEF Want
<1> DEFINE q == chip.first + taken
<1>5. q \in Nat /\ q <= chip.next /\ chip.next - q <= FifoWords /\ (taken = 0 => q = chip.first)
  BY <1>3, <1>4, BoundsAre
<1>6. chip' \in ChipType /\ chip'.start = chip.start /\ chip'.on = chip.on /\ chip'.first = q /\ chip'.next = chip.next
      /\ chip'.ovr = chip.ovr
  <2>1. chip' = [chip EXCEPT !.first = q]
    BY <1>1, Zenon
  <2> HIDE DEF q
  <2> QED BY <1>3, <1>5, <2>1 DEF ChipType
<1> HIDE DEF q
<1>b. \E b \in BOOLEAN : b = (taken > 0 \/ Begun)
  <2>1. (taken > 0 \/ Begun) \in BOOLEAN
    BY Zenon
  <2> QED BY <2>1, Zenon
<1>7. PICK lost \in BOOLEAN : lost = (taken > 0 \/ Begun)
  BY <1>b, Zenon
<1>8. /\ drain' \in DrainType /\ drain'.pc \in {"wait", "recover"} /\ drain' = [Idle EXCEPT !.pc = drain'.pc]
      /\ drain'.sets = <<>> /\ drain'.accel = None /\ drain'.gyro = None /\ drain'.idx = None
      /\ rd' \in ReaderType /\ rd'.fails = rd.fails /\ rd'.stop = rd.stop /\ rd'.anchor = rd.anchor
      /\ drain'.pc # "recover" => rd'.errs < MaxErrors
      /\ ghost' \in GhostType /\ ghost'.late = ghost.late /\ ghost'.bad = ghost.bad /\ ghost'.stale = ghost.stale
      /\ ghost'.adrift = (ghost.adrift \/ lost \/ drain.ovf)
      /\ lost => ghost'.hurt >= 2 /\ (ghost'.hurt = 3 => ghost.hurt = 3)
      /\ ~lost => ghost'.hurt = ghost.hurt
  BY <1>0, <1>1, <1>3, <1>7, ErroredKeeps
<1>9. Ahead(ghost') = Ahead(ghost)
  BY <1>8 DEF Ahead
<1>10. AcqTypes'
  BY <1>0, <1>1, <1>6, <1>8 DEF AcqTypes
<1>11. ControlInv'
  BY <1>0, <1>1, <1>3, <1>5, <1>6, <1>8 DEF ControlInv, Counter
\* Unless something was lost, the drain had read nothing.
<1>12. ~lost => /\ q = chip.first /\ drain.sets = <<>> /\ drain.accel = None /\ drain.gyro = None /\ drain.idx = None
                /\ NextSet(drain, chip.first) = Passed(chip.first) + 1
  <2> SUFFICES ASSUME ~lost PROVE /\ q = chip.first /\ drain.sets = <<>> /\ drain.accel = None /\ drain.gyro = None /\ drain.idx = None
                /\ NextSet(drain, chip.first) = Passed(chip.first) + 1
    OBVIOUS
  <2>1. ~(taken > 0) /\ ~Begun
    BY <1>7, Zenon
  <2>2. taken = 0
    BY <1>4, <2>1
  <2> QED BY <1>3, <1>5, <2>1, <2>2, EmptyDrain DEF Begun
<1>13. StreamInv'
  <2>1. ghost'.hurt = 3 => ghost'.adrift
    BY <1>0, <1>7, <1>8 DEF StreamInv
  <2>2. ghost'.hurt <= 1 => Word(q).kind = "gyro"
    <3> SUFFICES ASSUME ghost'.hurt <= 1, Word(q).kind # "gyro" PROVE FALSE
      OBVIOUS
    <3>1. ~lost
      BY <1>8 DEF GhostType
    <3>2. ghost.hurt <= 1
      BY <1>8, <3>1
    <3>3. Paired(drain, chip.first)
      BY <1>0, <1>1, <3>2 DEF StreamInv
    <3>4. StreamAt(chip.first)
      BY <1>3, Stream
    <3> QED BY <1>12, <3>1, <3>3, <3>4 DEF Paired, StreamAt
  <2> QED BY <1>6, <1>8, <2>1, <2>2 DEF StreamInv
<1>14. GuardInv'
  <2> SUFFICES ASSUME chip'.on, guard'.have, ~ghost'.adrift
               PROVE  /\ guard'.last <= NextSet(drain', chip'.first) - 1 + Ahead(ghost')
                      /\ guard'.last + 2 >= NextSet(drain', chip'.first) \/ Told'
    BY DEF GuardInv
  <2>1. ~ghost.adrift /\ ~lost /\ ~drain.ovf
    BY <1>8
  <2>2. NextSet(drain', chip'.first) = NextSet(drain, chip.first)
    <3>1. NextSet(drain', q) = Passed(q) + 1
      BY <1>5, <1>8, EmptyDrain
    <3> QED BY <1>6, <1>12, <2>1, <3>1
  <2>3. ~Told
    BY <1>1, <2>1 DEF Told
  <2> QED BY <1>0, <1>1, <1>3, <1>9, <2>1, <2>2, <2>3 DEF GuardInv
<1>15. AnchorInv'
  BY <1>0, <1>1, <1>6, <1>8, <1>9 DEF AnchorInv
<1> QED BY <1>2, <1>10, <1>11, <1>13, <1>14, <1>15 DEF AcqInv

LEMMA RecoverKeeps == ASSUME AcqInv, Recover PROVE AcqInv'
<1>0. AcqTypes /\ ControlInv /\ StreamInv /\ GuardInv /\ AnchorInv
  BY DEF AcqInv
<1>1. PICK how \in {"ok", "untouched", "stopped"} :
         /\ drain.pc = "recover" /\ drain' = Idle /\ UNCHANGED <<now, bus, out>>
         /\ chip' = IF how = "ok" THEN [start |-> now, on |-> TRUE, first |-> 0, next |-> 0, ovr |-> FALSE]
                    ELSE IF how = "stopped" THEN [chip EXCEPT !.on = FALSE, !.first = chip.next, !.ovr = FALSE]
                    ELSE chip
         /\ guard' = IF how = "ok" THEN NoGuard ELSE guard
         /\ rd' = [rd EXCEPT !.errs = 0, !.fails = Failures(how = "ok"), !.stop = Failures(how = "ok") >= MaxFailures]
         /\ ghost' = IF how = "ok" THEN [ghost EXCEPT !.stale = rd.anchor.valid, !.adrift = FALSE, !.hurt = 0] ELSE ghost
  BY DEF Recover
<1>2. PairsRecover' /\ StampsTrack' /\ WallHonest'
  BY <1>1, OutSame DEF AcqInv
<1>3. /\ drain' \in DrainType /\ drain'.pc = "wait" /\ drain' = [Idle EXCEPT !.pc = drain'.pc]
      /\ drain'.sets = <<>> /\ drain'.accel = None /\ drain'.gyro = None /\ drain'.idx = None
  <2>1. Idle = [Idle EXCEPT !.pc = "wait"]
    BY IdleIs
  <2> QED BY <1>1, <2>1, IdleIs
<1>4. /\ rd' \in ReaderType /\ rd'.errs = 0 /\ rd'.anchor = rd.anchor
      /\ ~rd'.stop => rd'.fails < MaxFailures
  <2>1. rd \in ReaderType /\ ~rd.stop /\ rd.fails \in 0 .. MaxFailures /\ rd.fails < MaxFailures
    BY <1>0, <1>1, FieldsAre DEF AcqTypes, ControlInv
  <2>2. PICK f \in 0 .. MaxFailures : f = Failures(how = "ok")
    BY <2>1, BoundsAre DEF Failures
  <2>a. (f >= MaxFailures) \in BOOLEAN
    <3>1. f \in Int /\ MaxFailures \in Int
      BY <2>2, BoundsAre
    <3> QED BY <3>1
  <2>b. \E b \in BOOLEAN : b = (f >= MaxFailures)
    BY <2>a, Zenon
  <2>3. PICK b \in BOOLEAN : b = (f >= MaxFailures)
    BY <2>b, Zenon
  <2>c. 0 \in 0 .. MaxErrors
    BY BoundsAre
  <2>4. rd' = [rd EXCEPT !.errs = 0, !.fails = f, !.stop = b] /\ 0 \in 0 .. MaxErrors
    BY <1>1, <2>2, <2>3, <2>c, Zenon
  <2>5. rd' \in ReaderType
    BY <2>1, <2>4, Zenon DEF ReaderType
  <2>6. rd'.errs = 0 /\ rd'.anchor = rd.anchor /\ rd'.fails = f /\ rd'.stop = b
    BY <2>1, <2>4 DEF ReaderType
  <2>d. ~b => ~(f >= MaxFailures)
    BY <2>3, Zenon
  <2>7. ~b => f < MaxFailures
    BY <2>2, <2>d, BoundsAre
  <2> QED BY <2>5, <2>6, <2>7
<1>5. /\ now \in Nat /\ chip \in ChipType /\ chip.first \in Nat /\ chip.next \in Nat /\ chip.start \in Nat
      /\ ghost \in GhostType /\ rd.anchor.valid \in BOOLEAN
  BY <1>0, FieldsAre DEF AcqTypes
<1>6. WordsBy(0) = 0 /\ Word(0).kind = "gyro"
  <2>1. Slot(0) \in Nat /\ WordsBy(Slot(0)) <= 0 /\ 0 < WordsBy(Slot(0) + 1)
    BY SlotOf
  <2>2. SlotWords(0) /\ SlotWords(Slot(0))
    BY <2>1, Layout
  <2>3. WordsBy(Slot(0)) \in Nat /\ WordsBy(Slot(0)) >= 2 * Slot(0)
    BY <2>2 DEF SlotWords
  <2>4. Slot(0) = 0
    BY <2>1, <2>3
  <2>5. WordsBy(0) = 0
    BY <2>1, <2>3, <2>4
  <2> QED BY <2>5, Boundary
<1>7. CASE how = "ok"
  <2>1. chip' \in ChipType /\ chip'.start = now /\ chip'.on = TRUE /\ chip'.first = 0 /\ chip'.next = 0
    BY <1>1, <1>5, <1>7 DEF ChipType
  <2>2. guard' = NoGuard /\ guard' \in GuardType /\ guard'.have = FALSE
    BY <1>1, <1>7, BoundsAre DEF NoGuard, GuardType
  <2>3. ghost' \in GhostType /\ ghost'.stale = rd.anchor.valid /\ ghost'.adrift = FALSE /\ ghost'.hurt = 0
    <3>1. PICK v \in BOOLEAN : v = rd.anchor.valid
      BY <1>5
    <3>2. ghost' = [ghost EXCEPT !.stale = v, !.adrift = FALSE, !.hurt = 0] /\ 0 \in 0 .. 3
      BY <1>1, <1>7, <3>1
    <3>3. ghost' \in GhostType
      BY <1>5, <3>2, Zenon DEF GhostType
    <3>4. ghost'.stale = v /\ ghost'.adrift = FALSE /\ ghost'.hurt = 0
      BY <1>5, <3>2 DEF GhostType
    <3> QED BY <3>1, <3>3, <3>4
  <2>4. AcqTypes'
    BY <1>0, <1>1, <1>3, <1>4, <2>1, <2>2, <2>3 DEF AcqTypes
  <2>5. ControlInv'
    <3>1. Counter' = 0
      BY <1>1, <1>5, <2>1 DEF Counter
    <3> QED BY <1>1, <1>3, <1>4, <1>5, <1>6, <2>1, <3>1, BoundsAre DEF ControlInv
  <2>6. StreamInv'
    BY <1>3, <1>6, <2>1, <2>3 DEF StreamInv
  <2>7. GuardInv'
    BY <2>2 DEF GuardInv
  <2>8. AnchorInv'
    BY <1>4, <2>3 DEF AnchorInv
  <2> QED BY <1>2, <2>4, <2>5, <2>6, <2>7, <2>8 DEF AcqInv
<1>8. CASE how = "stopped"
  <2>1. chip' \in ChipType /\ chip'.start = chip.start /\ chip'.on = FALSE /\ chip'.first = chip.next /\ chip'.next = chip.next
    BY <1>1, <1>5, <1>8 DEF ChipType
  <2>2. guard' = guard /\ ghost' = ghost
    BY <1>1, <1>8
  <2>3. AcqTypes'
    BY <1>0, <1>1, <1>3, <1>4, <2>1, <2>2 DEF AcqTypes
  <2>4. ControlInv'
    BY <1>0, <1>1, <1>3, <1>4, <1>5, <2>1, BoundsAre DEF ControlInv
  <2>5. StreamInv' /\ GuardInv'
    BY <1>0, <1>3, <2>1, <2>2 DEF StreamInv, GuardInv
  <2>6. AnchorInv'
    BY <1>0, <1>4, <2>1, <2>2 DEF AnchorInv, Ahead
  <2> QED BY <1>2, <2>3, <2>4, <2>5, <2>6 DEF AcqInv
<1>9. CASE how = "untouched"
  <2>1. chip' = chip /\ guard' = guard /\ ghost' = ghost
    BY <1>1, <1>9
  <2>2. AcqTypes'
    BY <1>0, <1>1, <1>3, <1>4, <2>1 DEF AcqTypes
  <2>3. ControlInv'
    <3>1. Counter' = Counter /\ now' = now
      BY <1>1, <2>1 DEF Counter
    <3>2. rd'.errs < MaxErrors /\ ~(drain'.pc = "words") /\ drain'.pc # "recover"
      BY <1>3, <1>4, BoundsAre
    <3>3. /\ chip'.start <= now' /\ chip'.first <= chip'.next /\ chip'.next - chip'.first <= FifoWords
          /\ chip'.on => chip'.next = WordsBy(Counter')
          /\ ~chip'.on => chip'.first = chip'.next
      BY <1>0, <2>1, <3>1 DEF ControlInv
    <3> QED BY <1>3, <1>4, <3>2, <3>3 DEF ControlInv
  <2>4. StreamInv'
    BY <1>0, <1>1, <1>3, <2>1 DEF StreamInv
  <2>5. NextSet(drain', chip.first) = NextSet(drain, chip.first)
    <3>1. NextSet(drain, chip.first) = Passed(chip.first) + 1
      BY <1>0, <1>1, WaitingIs
    <3> QED BY <1>3, <1>5, <3>1, EmptyDrain
  <2>6. GuardInv'
    BY <1>0, <1>1, <1>3, <2>1, <2>5 DEF GuardInv, Told, Ahead
  <2>7. AnchorInv'
    BY <1>0, <1>4, <2>1 DEF AnchorInv, Ahead
  <2> QED BY <1>2, <2>2, <2>3, <2>4, <2>6, <2>7 DEF AcqInv
<1> QED BY <1>7, <1>8, <1>9


(* ---------------------------- the burst's stamp -------------------------- *)

\* The guard g after drain d and a counter read: the batched word, the counter, or one
\* period after what the guard remembers.
GoesOn(g, d, counter) == Known(d, counter).have /\ g.last = Known(d, counter).last + Len(d.sets)
StampIs(g, d, counter) ==
    \/ /\ Anchored(d, counter) /\ ~Unjudged(d, counter)
       /\ g.last = Newest(d) \/ (GoesOn(g, d, counter) /\ g.last >= Newest(d))
    \/ ~Anchored(d, counter) /\ ~Unjudged(d, counter) /\ GoesOn(g, d, counter)
    \/ Unjudged(d, counter) /\ g.last = counter
    \/ /\ ~Anchored(d, counter) /\ ~Unjudged(d, counter) /\ Known(d, counter).have
       /\ g.last = counter
       /\ Known(d, counter).last < First(d, counter) /\ First(d, counter) <= Known(d, counter).last + Slack

LEMMA ShiftIs ==
    ASSUME NEW g \in GuardType, NEW first \in Int
    PROVE  /\ Shift(g, first) \in Nat
           /\ Shift(g, first) = 0 \/ (g.have /\ first <= g.last /\ Shift(g, first) = g.last - first + 1)
           /\ (Shift(g, first) = 0 /\ g.have /\ ~Refused(g, first)) => g.last < first /\ first <= g.last + Slack
<1>1. g.last \in Int
  BY DEF GuardType
<1> QED BY <1>1, BoundsAre DEF Shift, Refused

LEMMA StampedIs ==
    ASSUME guard \in GuardType, NEW d \in DrainType, d.sets # <<>>, NEW counter \in Nat
    PROVE  /\ Stamped(d, counter) \in GuardType /\ Stamped(d, counter).have
           /\ StampIs(Stamped(d, counter), d, counter)
<1> DEFINE k == Known(d, counter)
           s == Stamped(d, counter)
           span == Len(d.sets) - 1
           f == First(d, counter)
<1>1. Len(d.sets) \in Nat /\ d.ts \in Nat /\ d.idx \in Nat
  BY DrainIs
<1>2. span \in Int /\ f \in Int /\ f = counter - span /\ Newest(d) \in Int
  BY <1>1 DEF First, Newest
<1>3. k \in GuardType
  <2>1. NoGuard \in GuardType
    BY BoundsAre DEF NoGuard, GuardType
  <2> QED BY <2>1 DEF Known
<1>4. k.last \in Int /\ k.refusals \in 0 .. MaxRefusals /\ k.have \in BOOLEAN
  BY <1>3 DEF GuardType
<1>5. CASE Anchored(d, counter)
  <2> DEFINE sh == Shift(k, Newest(d) - span)
  <2>1. sh \in Nat /\ (sh = 0 \/ (k.have /\ sh = k.last - (Newest(d) - span) + 1))
    <3> DEFINE x == Newest(d) - span
    <3>1. x \in Int
      BY <1>2
    <3> HIDE DEF x, k
    <3>2. Shift(k, x) \in Nat /\ (Shift(k, x) = 0 \/ (k.have /\ Shift(k, x) = k.last - x + 1))
      BY <1>3, <3>1, ShiftIs
    <3> QED BY <3>2 DEF x
  <2>2. s = [k EXCEPT !.have = TRUE, !.last = Newest(d) + sh]
    BY <1>5 DEF Stamped
  <2> HIDE DEF sh, k, s
  <2>3. s \in GuardType /\ s.have = TRUE /\ s.last = Newest(d) + sh
    <3>1. Newest(d) + sh \in Int
      BY <1>2, <2>1
    <3> QED BY <1>3, <2>2, <3>1 DEF GuardType
  <2>4. s.last = Newest(d) \/ (k.have /\ s.last = k.last + Len(d.sets) /\ s.last >= Newest(d))
    BY <1>1, <1>2, <1>4, <2>1, <2>3
  <2>5. ~Unjudged(d, counter)
    BY <1>5 DEF Unjudged
  <2> QED BY <1>5, <2>3, <2>4, <2>5 DEF StampIs, GoesOn, k, s
<1>6. CASE ~Anchored(d, counter) /\ Refused(k, f) /\ ~Reseed(k)
  <2>1. s = [k EXCEPT !.last = @ + 1 + span, !.refusals = @ + 1]
    BY <1>6 DEF Stamped
  <2>2. k.refusals + 1 \in 0 .. MaxRefusals /\ k.have
    BY <1>4, <1>6, BoundsAre DEF Reseed, Refused
  <2>3. ~Unjudged(d, counter)
    BY <1>6, <2>2 DEF Unjudged
  <2> HIDE DEF k, s
  <2>4. s \in GuardType /\ s.have = k.have /\ s.last = k.last + 1 + span
    <3>1. k.last + 1 + span \in Int
      BY <1>2, <1>4
    <3> QED BY <1>3, <2>1, <2>2, <3>1 DEF GuardType
  <2>5. s.last = k.last + Len(d.sets)
    BY <1>1, <1>4, <2>4
  <2> QED BY <1>6, <2>2, <2>3, <2>4, <2>5 DEF StampIs, GoesOn, k, s
<1>7. CASE ~Anchored(d, counter) /\ ~(Refused(k, f) /\ ~Reseed(k))
  <2> DEFINE sh == IF Refused(k, f) THEN 0 ELSE Shift(k, f)
  <2>1. s = [have |-> TRUE, refusals |-> 0, last |-> counter + sh]
    BY <1>7 DEF Stamped
  <2>2. /\ Shift(k, f) \in Nat /\ (Shift(k, f) = 0 \/ (k.have /\ Shift(k, f) = k.last - f + 1))
        /\ (Shift(k, f) = 0 /\ k.have /\ ~Refused(k, f)) => k.last < f /\ f <= k.last + Slack
    BY <1>2, <1>3, ShiftIs
  <2>3. sh \in Nat
    BY <2>2
  <2>4. Unjudged(d, counter) <=> (~k.have \/ Refused(k, f))
    BY <1>7 DEF Unjudged
  <2>5. Unjudged(d, counter) => sh = 0
    BY <2>2, <2>4
  <2>6. ~Unjudged(d, counter) => k.have /\ (\/ sh = 0 /\ k.last < f /\ f <= k.last + Slack
                                            \/ sh = k.last - f + 1)
    BY <2>2, <2>4
  <2> HIDE DEF sh, s
  <2>7. s \in GuardType /\ s.have = TRUE /\ s.last = counter + sh
    <3>1. counter + sh \in Int /\ 0 \in 0 .. MaxRefusals
      BY <2>3, BoundsAre
    <3> QED BY <2>1, <3>1 DEF GuardType
  <2> HIDE DEF k, f
  <2>8. sh = 0 => s.last = counter
    BY <2>7
  <2>9. sh = k.last - f + 1 => s.last = k.last + Len(d.sets)
    <3>1. \A x, y, n, z \in Int : z = x - (y - (n - 1)) + 1 => y + z = x + n
      OBVIOUS
    <3>2. f = counter - (Len(d.sets) - 1) /\ Len(d.sets) \in Int /\ k.last \in Int /\ counter \in Int /\ sh \in Int
      BY <1>1, <1>2, <1>4, <2>3
    <3>3. s.last = counter + sh
      BY <2>7
    <3> SUFFICES ASSUME sh = k.last - f + 1 PROVE s.last = k.last + Len(d.sets)
      OBVIOUS
    <3>4. sh = k.last - (counter - (Len(d.sets) - 1)) + 1
      BY <3>2
    <3> DEFINE x == k.last
               n == Len(d.sets)
    <3>5. x \in Int /\ n \in Int /\ counter \in Int /\ sh \in Int /\ sh = x - (counter - (n - 1)) + 1
      BY <3>2, <3>4
    <3> HIDE DEF x, n
    <3>6. counter + sh = x + n
      BY <3>5
    <3> QED BY <3>3, <3>6 DEF x, n
  <2>10. CASE Unjudged(d, counter)
    BY <2>5, <2>7, <2>8, <2>10 DEF StampIs, s
  <2>11. CASE ~Unjudged(d, counter)
    BY <1>7, <2>6, <2>7, <2>8, <2>9, <2>11 DEF StampIs, GoesOn, k, s, f
  <2> QED BY <2>10, <2>11
<1> QED BY <1>5, <1>6, <1>7


(* --------------------------- the end of a drain -------------------------- *)

\* What a drain's end leaves, whatever it delivers: the stream stands at a boundary,
\* unless words were lost in this drain.
LEMMA EndedKeeps ==
    ASSUME AcqInv, drain.pc = "words", drain.words = 0, UNCHANGED <<now, bus, chip>>, drain' = Idle,
           rd' \in ReaderType, rd'.errs = 0, rd'.fails = rd.fails, rd'.stop = rd.stop,
           guard' \in GuardType, ghost' \in GhostType, ghost'.hurt = IF ghost.hurt > 0 THEN ghost.hurt - 1 ELSE 0
    PROVE  /\ AcqTypes' /\ ControlInv' /\ StreamInv'
           /\ ghost.hurt < 3 => /\ Whole(drain, chip.first) /\ drain.gyro = None /\ Word(chip.first).kind = "gyro"
                                /\ Passed(chip.first) = drain.before - chip.start
           /\ ghost'.hurt = 0 => Paired(drain, chip.first)
           /\ NextSet(drain', chip'.first) = Passed(chip.first) + 1
<1>0. AcqTypes /\ ControlInv /\ StreamInv
  BY DEF AcqInv
<1>1. /\ drain' \in DrainType /\ drain'.pc = "wait" /\ drain' = [Idle EXCEPT !.pc = drain'.pc]
      /\ drain'.sets = <<>> /\ drain'.accel = None /\ drain'.gyro = None /\ drain'.idx = None
  <2>1. Idle = [Idle EXCEPT !.pc = "wait"]
    BY IdleIs
  <2> QED BY <2>1, IdleIs
<1>2. /\ chip.first \in Nat /\ drain.before \in Nat /\ chip.start \in Nat /\ chip.start <= drain.before
      /\ chip.on /\ ghost.hurt \in 0 .. 3 /\ ~rd.stop
  BY <1>0, FieldsAre DEF ControlInv
<1>3. AcqTypes'
  BY <1>0, <1>1 DEF AcqTypes
<1>4. ControlInv'
  BY <1>0, <1>1, <1>2, BoundsAre DEF ControlInv, Counter
<1>5. ghost.hurt < 3 => /\ Whole(drain, chip.first) /\ drain.gyro = None /\ Word(chip.first).kind = "gyro"
                        /\ Passed(chip.first) = drain.before - chip.start
  <2> SUFFICES ASSUME ghost.hurt < 3
               PROVE  /\ Whole(drain, chip.first) /\ drain.gyro = None /\ Word(chip.first).kind = "gyro"
                      /\ Passed(chip.first) = drain.before - chip.start
    OBVIOUS
  <2>1. Whole(drain, chip.first) /\ chip.first + drain.words = WordsBy(drain.before - chip.start)
    BY <1>0 DEF StreamInv
  <2>2. drain.before - chip.start \in Nat /\ chip.first + drain.words = chip.first
    BY <1>2
  <2>3. Word(chip.first).kind = "gyro" /\ Passed(chip.first) = drain.before - chip.start
    BY <2>1, <2>2, Boundary
  <2>4. drain.gyro = None
    BY <2>1, <2>3 DEF Whole
  <2> QED BY <2>1, <2>3, <2>4
<1>6. StreamInv'
  <2>1. ghost'.hurt <= 1 => Word(chip.first).kind = "gyro"
    BY <1>2, <1>5
  <2>2. ghost'.hurt # 3
    BY <1>2
  <2> QED BY <1>1, <2>1, <2>2 DEF StreamInv
<1>7. ghost'.hurt = 0 => Paired(drain, chip.first)
  <2>1. ghost'.hurt = 0 => ghost.hurt <= 1
    BY <1>2
  <2> QED BY <1>0, <2>1 DEF StreamInv
<1>8. NextSet(drain', chip'.first) = Passed(chip.first) + 1
  BY <1>1, <1>2, EmptyDrain
<1> QED BY <1>3, <1>4, <1>5, <1>6, <1>7, <1>8

LEMMA NothingPairedKeeps == ASSUME AcqInv, NothingPaired PROVE AcqInv'
<1>0. AcqTypes /\ ControlInv /\ StreamInv /\ GuardInv /\ AnchorInv
  BY DEF AcqInv
<1>1. /\ drain.pc = "words" /\ drain.words = 0 /\ drain.sets = <<>>
      /\ drain' = Idle /\ rd' = Delivered(drain.ovf) /\ ghost' = Settled
      /\ UNCHANGED <<now, bus, chip, guard, out, left>>
  BY DEF NothingPaired
<1>2. PairsRecover' /\ StampsTrack' /\ WallHonest'
  BY <1>1, OutSame DEF AcqInv
<1>3. /\ ghost' \in GhostType /\ ghost'.late = ghost.late /\ ghost'.bad = ghost.bad /\ ghost'.stale = ghost.stale
      /\ ghost'.adrift = ghost.adrift /\ ghost'.hurt = IF ghost.hurt > 0 THEN ghost.hurt - 1 ELSE 0
  BY <1>0, <1>1, Settles
<1>4. rd' \in ReaderType /\ rd'.errs = 0 /\ rd'.fails = rd.fails /\ rd'.stop = rd.stop /\ rd'.anchor = rd.anchor
  BY <1>0, <1>1, Counts, FieldsAre
<1>5. guard' \in GuardType /\ ghost.hurt \in 0 .. 3 /\ chip.on
  BY <1>0, <1>1, FieldsAre DEF AcqTypes, ControlInv
<1>6. /\ AcqTypes' /\ ControlInv' /\ StreamInv' /\ NextSet(drain', chip'.first) = Passed(chip.first) + 1
      /\ ghost.hurt < 3 => drain.gyro = None
  BY <1>1, <1>3, <1>4, <1>5, EndedKeeps
<1>7. Ahead(ghost') = Ahead(ghost)
  BY <1>3 DEF Ahead
<1>8. GuardInv'
  <2> SUFFICES ASSUME chip'.on, guard'.have, ~ghost'.adrift
               PROVE  /\ guard'.last <= NextSet(drain', chip'.first) - 1 + Ahead(ghost')
                      /\ guard'.last + 2 >= NextSet(drain', chip'.first) \/ Told'
    BY DEF GuardInv
  <2>1. ~ghost.adrift /\ ghost.hurt < 3
    BY <1>0, <1>3, <1>5 DEF StreamInv
  <2>2. NextSet(drain, chip.first) = Passed(chip.first) + 1
    BY <1>1, <1>6, <2>1 DEF NextSet
  <2>3. ~Told
    BY <1>1, <1>6, <2>1 DEF Told, Items
  <2> QED BY <1>0, <1>1, <1>5, <1>6, <1>7, <2>1, <2>2, <2>3 DEF GuardInv
<1>9. AnchorInv'
  BY <1>0, <1>1, <1>3, <1>4, <1>7 DEF AnchorInv
<1> QED BY <1>2, <1>6, <1>8, <1>9 DEF AcqInv

\* What is pushed.
LEMMA PublishIs ==
    ASSUME AcqTypes, NEW newest \in Int, NEW anchor \in AnchorType, NEW judged, Publish(newest, anchor, judged)
    PROVE  /\ drain' = Idle
           /\ rd' \in ReaderType /\ rd'.errs = 0 /\ rd'.fails = rd.fails /\ rd'.stop = rd.stop /\ rd'.anchor = anchor
           /\ out'.sets = drain.sets /\ out'.newest = newest /\ out'.start = chip.start /\ out'.was = ghost'
           /\ newest # 0 => out'.wall = anchor.wall + ((newest - (Len(drain.sets) - 1)) - anchor.chip)
<1>1. /\ Delivered(drain.ovf) \in ReaderType /\ Delivered(drain.ovf).errs = 0 /\ Delivered(drain.ovf).fails = rd.fails
      /\ Delivered(drain.ovf).stop = rd.stop
  BY Counts, FieldsAre
<1>2. drain' = Idle /\ rd' = [Delivered(drain.ovf) EXCEPT !.anchor = anchor]
  BY DEF Publish
<1>3. rd' \in ReaderType /\ rd'.errs = 0 /\ rd'.fails = rd.fails /\ rd'.stop = rd.stop /\ rd'.anchor = anchor
  BY <1>1, <1>2 DEF ReaderType
<1>4. out' = [sets |-> drain.sets, newest |-> newest, wall |-> ToWall(anchor, IF newest = 0 THEN 0 ELSE newest - (Len(drain.sets) - 1)),
              start |-> chip.start, counted |-> rd'.counted, was |-> ghost', judged |-> judged]
  BY DEF Publish
<1>5. /\ out'.sets = drain.sets /\ out'.newest = newest /\ out'.start = chip.start /\ out'.was = ghost'
      /\ out'.wall = ToWall(anchor, IF newest = 0 THEN 0 ELSE newest - (Len(drain.sets) - 1))
  BY <1>4
<1> QED BY <1>2, <1>3, <1>5 DEF ToWall

LEMMA PairsArePublished ==
    ASSUME out'.sets = drain.sets, out'.was = ghost', ghost'.hurt = 0 => Paired(drain, chip.first)
    PROVE  PairsRecover'
BY DEF PairsRecover, Paired

LEMMA DueIs == ASSUME AcqTypes PROVE \E due \in BOOLEAN : due = AnchorDue
<1>1. AnchorDue \in BOOLEAN
  BY Zenon DEF AnchorDue
<1> QED BY <1>1, Zenon

LEMMA FinishUnstampedKeeps == ASSUME AcqInv, FinishUnstamped PROVE AcqInv'
<1>0. AcqTypes /\ ControlInv /\ StreamInv /\ GuardInv /\ AnchorInv
  BY DEF AcqInv
<1> DEFINE anchor == IF AnchorDue THEN AnchorOn(0) ELSE rd.anchor
<1>1. /\ drain.pc = "words" /\ drain.words = 0 /\ UNCHANGED <<now, bus, chip, guard>>
      /\ ghost' = [Settled EXCEPT !.stale = @ \/ AnchorDue, !.adrift = TRUE]
      /\ Publish(0, anchor, FALSE)
  BY DEF FinishUnstamped
<1>2. PICK due \in BOOLEAN : due = AnchorDue
  BY <1>0, DueIs, Zenon
<1>3. now \in Int /\ drain.before \in Int /\ rd.anchor \in AnchorType
  BY <1>0, FieldsAre
<1>4. anchor \in AnchorType
  BY <1>3 DEF AnchorOn, AnchorType
<1> HIDE DEF anchor
<1>5. /\ drain' = Idle
      /\ rd' \in ReaderType /\ rd'.errs = 0 /\ rd'.fails = rd.fails /\ rd'.stop = rd.stop /\ rd'.anchor = anchor
      /\ out'.sets = drain.sets /\ out'.newest = 0 /\ out'.start = chip.start /\ out'.was = ghost'
  <2>1. PICK judged : Publish(0, anchor, judged)
    BY <1>1, Zenon
  <2>2. 0 \in Int
    OBVIOUS
  <2>3. /\ drain' = Idle
        /\ rd' \in ReaderType /\ rd'.errs = 0 /\ rd'.fails = rd.fails /\ rd'.stop = rd.stop /\ rd'.anchor = anchor
        /\ out'.sets = drain.sets /\ out'.newest = 0 /\ out'.start = chip.start /\ out'.was = ghost'
    BY <1>0, <1>4, <2>1, <2>2, PublishIs, Zenon
  <2> QED BY <2>3
<1>6. /\ ghost' \in GhostType /\ ghost'.late = ghost.late /\ ghost'.bad = ghost.bad /\ ghost'.adrift = TRUE
      /\ (due => ghost'.stale) /\ (~due => ghost'.stale = ghost.stale)
      /\ ghost'.hurt = IF ghost.hurt > 0 THEN ghost.hurt - 1 ELSE 0
  <2> DEFINE h == IF ghost.hurt > 0 THEN ghost.hurt - 1 ELSE 0
  <2>1. ghost \in GhostType /\ ghost.stale \in BOOLEAN
    BY <1>0, FieldsAre DEF AcqTypes
  <2>2. h \in 0 .. 3
    BY <1>0, FieldsAre
  <2>3. Settled = [ghost EXCEPT !.hurt = h]
    BY DEF Settled
  <2> HIDE DEF h
  <2>4. Settled.stale = ghost.stale
    BY <2>1, <2>3 DEF GhostType
  <2>5. PICK v \in BOOLEAN : v = (Settled.stale \/ AnchorDue)
    <3>1. (Settled.stale \/ AnchorDue) \in BOOLEAN
      BY Zenon
    <3> QED BY <3>1, Zenon
  <2>6. (due => v) /\ (~due => v = ghost.stale)
    BY <1>2, <2>1, <2>4, <2>5, Zenon
  <2>7. ghost' = [Settled EXCEPT !.stale = v, !.adrift = TRUE]
    BY <1>1, <2>5, Zenon
  <2>8. Settled \in GhostType
    BY <2>1, <2>2, <2>3 DEF GhostType
  <2>9. Settled.late = ghost.late /\ Settled.bad = ghost.bad /\ Settled.hurt = h
    BY <2>1, <2>3 DEF GhostType
  <2>10. ghost' \in GhostType
    BY <2>7, <2>8, Zenon DEF GhostType
  <2>11. ghost'.late = ghost.late /\ ghost'.bad = ghost.bad /\ ghost'.adrift = TRUE /\ ghost'.stale = v /\ ghost'.hurt = h
    BY <2>7, <2>8, <2>9 DEF GhostType
  <2>12. (due => ghost'.stale) /\ (~due => ghost'.stale = ghost.stale)
    BY <2>6, <2>11, Zenon
  <2> QED BY <2>10, <2>11, <2>12 DEF h
<1>7. guard' \in GuardType
  BY <1>0, <1>1 DEF AcqTypes
<1>8. /\ AcqTypes' /\ ControlInv' /\ StreamInv'
      /\ ghost'.hurt = 0 => Paired(drain, chip.first)
  BY <1>1, <1>5, <1>6, <1>7, EndedKeeps
<1>9. PairsRecover' /\ StampsTrack' /\ WallHonest'
  <2>1. PairsRecover'
    BY <1>5, <1>8, PairsArePublished
  <2>2. StampsTrack' /\ WallHonest'
    BY <1>5 DEF StampsTrack, WallHonest
  <2> QED BY <2>1, <2>2
<1>10. GuardInv'
  BY <1>6 DEF GuardInv
<1>11. AnchorInv'
  <2>1. CASE due
    BY <1>6, <2>1 DEF AnchorInv
  <2>2. CASE ~due
    <3>1. rd'.anchor = rd.anchor
      BY <1>2, <1>5, <2>2 DEF anchor
    <3>2. Ahead(ghost') = Ahead(ghost)
      BY <1>6 DEF Ahead
    <3> QED BY <1>0, <1>1, <1>6, <2>2, <3>1, <3>2 DEF AnchorInv
  <2> QED BY <2>1, <2>2
<1> QED BY <1>8, <1>9, <1>10, <1>11 DEF AcqInv


(* ------------------------- the burst is stamped -------------------------- *)

\* The batched word is that of the newest set, or of the one before.
LEMMA NewestIs ==
    ASSUME NEW d \in DrainType, NEW p \in Nat, Whole(d, p), NEW counter, Anchored(d, counter)
    PROVE  Newest(d) - LastSlot(d) \in {-1, 0}
<1>1. /\ d.idx \in Nat /\ d.ts \in Nat /\ Len(d.sets) \in Nat /\ DOMAIN d.sets = 1 .. Len(d.sets)
      /\ \A i \in DOMAIN d.sets : d.sets[i].gyro \in Nat
      /\ d.sets # <<>> => LastSlot(d) \in Nat
      /\ d.sets = <<>> <=> Len(d.sets) = 0
  BY DrainIs
<1>2. d.idx # None /\ d.idx <= Len(d.sets)
  BY DEF Anchored
<1>3. d.idx \in DOMAIN d.sets /\ d.sets[d.idx].gyro - d.ts \in {0, 1}
  BY <1>1, <1>2 DEF Whole
<1>4. d.sets[d.idx].gyro = LastSlot(d) - (Len(d.sets) - d.idx) /\ LastSlot(d) \in Nat
  BY <1>1, <1>3 DEF Whole
<1> DEFINE g == d.sets[d.idx].gyro
           l == LastSlot(d)
           n == Len(d.sets)
<1>5. g \in Nat /\ g = l - (n - d.idx) /\ l \in Nat /\ n \in Nat /\ d.idx \in Nat /\ d.ts \in Nat /\ g - d.ts \in {0, 1}
  BY <1>1, <1>3, <1>4
<1> HIDE DEF g, l, n
<1>6. (d.ts + (n - d.idx)) - l \in {-1, 0}
  BY <1>5
<1> QED BY <1>6 DEF Newest, l, n

\* A burst's stamp is true within what the ghost allows after it, and does not lag
\* behind the part, nor does it put the drain's start elsewhere than it was.
LEMMA StampBounds ==
    ASSUME AcqInv, drain.pc = "words", drain.words = 0, drain.sets # <<>>, NEW counter \in Nat,
           NEW g, StampIs(g, drain, counter),
           NEW ahead \in Nat, ahead >= Ahead(ghost), ahead >= now - drain.before,
           counter = Counter => ahead >= Counter - LastSlot(drain),
           counter # Counter => ahead >= Ahead(ghost) + Slack,
           IF Unjudged(drain, counter) THEN counter = Counter ELSE ~ghost.adrift
    PROVE  /\ LastSlot(drain) \in Nat /\ LastSlot(drain) <= Passed(chip.first) /\ Passed(chip.first) \in Nat
           /\ g.last \in Int /\ g.last - LastSlot(drain) \in -1 .. ahead
           /\ g.last + 1 >= Passed(chip.first)
           /\ drain.before - chip.start - g.last \in -ahead .. 1
<1> DEFINE L == LastSlot(drain)
           P == Passed(chip.first)
           n == Len(drain.sets)
           A == Ahead(ghost)
           b == drain.before - chip.start
           last == guard.last
<1>0. AcqTypes /\ ControlInv /\ StreamInv /\ GuardInv
  BY DEF AcqInv
<1>1. /\ n \in Nat /\ n >= 1 /\ DOMAIN drain.sets = 1 .. n /\ L \in Nat /\ L = drain.sets[n].gyro /\ drain.sets[1].gyro \in Nat
  <2>1. drain \in DrainType
    BY <1>0 DEF AcqTypes
  <2>2. n \in Nat /\ n # 0 /\ DOMAIN drain.sets = 1 .. n /\ L \in Nat /\ L = drain.sets[n].gyro
    BY <2>1, DrainIs
  <2>3. 1 \in DOMAIN drain.sets /\ n >= 1
    BY <2>2
  <2> QED BY <2>1, <2>2, <2>3, DrainIs
<1>2. /\ chip.first \in Nat /\ chip.next \in Nat /\ chip.first <= chip.next /\ chip.on /\ chip.start \in Nat
      /\ drain.before \in Nat /\ now \in Nat /\ chip.start <= drain.before /\ drain.before <= now
      /\ last \in Int /\ guard.have \in BOOLEAN /\ ghost.hurt \in 0 .. 3 /\ drain.ovf \in BOOLEAN
      /\ Counter \in Nat /\ Counter = now - chip.start /\ chip.next = WordsBy(Counter)
  <2>1. /\ chip.first \in Nat /\ chip.next \in Nat /\ chip.start \in Nat /\ drain.before \in Nat /\ now \in Nat
        /\ guard.last \in Int /\ guard.have \in BOOLEAN /\ ghost.hurt \in 0 .. 3 /\ drain.ovf \in BOOLEAN
    BY <1>0, FieldsAre
  <2>2. chip.first <= chip.next /\ chip.on /\ chip.start <= drain.before /\ drain.before <= now /\ chip.next = WordsBy(Counter)
    BY <1>0, Zenon DEF ControlInv
  <2>3. Counter = now - chip.start
    BY DEF Counter
  <2>4. now - chip.start \in Nat
    BY <2>1, <2>2
  <2> QED BY <2>1, <2>2, <2>3, <2>4
<1>3. A \in Nat /\ Slack \in Nat /\ b \in Nat
  <2>1. ghost.late \in Nat /\ ghost.bad \in Nat
    BY <1>0, FieldsAre
  <2>2. A \in Nat
    BY <2>1, AheadIs
  <2>3. b \in Nat
    BY <1>2
  <2> QED BY <2>2, <2>3, BoundsAre
<1>4. L <= P /\ P \in Nat /\ P <= Counter
  <2>1. L <= P
    BY <1>0, <1>1 DEF StreamInv, Loose
  <2>2. P \in Nat /\ P <= Passed(chip.next)
    BY <1>2, PassedGrows
  <2>3. Passed(chip.next) = Counter
    BY <1>2, Boundary
  <2> QED BY <2>1, <2>2, <2>3
<1>5. CASE Unjudged(drain, counter)
  <2>1. g.last = Counter /\ counter = Counter
    BY <1>5 DEF StampIs
  <2>2. ahead >= Counter - L /\ ahead >= now - drain.before
    BY <2>1
  <2>a. L \in Nat /\ P \in Nat /\ Counter \in Nat /\ L <= P /\ P <= Counter
    BY <1>1, <1>2, <1>4
  <2> HIDE DEF L, P
  <2>3. Counter - L \in -1 .. ahead /\ Counter + 1 >= P
    BY <2>a, <2>2
  <2>4. drain.before - chip.start - Counter \in -ahead .. 1
    BY <1>2, <2>2
  <2> QED BY <1>1, <1>2, <1>4, <2>1, <2>3, <2>4 DEF L, P
<1>6. CASE ~Unjudged(drain, counter)
  <2>1. ~ghost.adrift /\ ghost.hurt < 3
    BY <1>0, <1>2, <1>6 DEF StreamInv
  <2>2. Whole(drain, chip.first) /\ chip.first + drain.words = WordsBy(b)
    BY <1>0, <2>1 DEF StreamInv
  <2>3. P = b /\ Word(chip.first).kind = "gyro"
    <3>1. chip.first = WordsBy(b)
      BY <1>2, <2>2
    <3> QED BY <1>3, <3>1, Boundary
  <2>4. L = P
    <3>1. drain.gyro = None
      BY <2>2, <2>3 DEF Whole
    <3>2. L = P - Back(drain)
      BY <2>2 DEF Whole
    <3> QED BY <1>4, <3>1, <3>2 DEF Back
  <2>5. drain.sets[1].gyro = L - (n - 1)
    BY <1>1, <2>2 DEF Whole
  <2>6. guard.have => last <= L - (n - 1) - 1 + A /\ (last + 2 >= L - (n - 1) \/ drain.ovf)
    <3>1. NextSet(drain, chip.first) = L - (n - 1)
      BY <2>5 DEF NextSet
    <3> QED BY <1>0, <1>2, <2>1, <3>1 DEF GuardInv, Told
  <2>7. Known(drain, counter).have => /\ guard.have /\ Known(drain, counter) = guard
                                      /\ ~Anchored(drain, counter) => ~drain.ovf
    BY DEF Known, NoGuard
  <2> DEFINE m == g.last
  <2>8. m \in Int /\ m - L \in -1 .. ahead
    <3>1. Anchored(drain, counter) => Newest(drain) - L \in {-1, 0} /\ Newest(drain) \in Int
      <4>1. drain \in DrainType
        BY <1>0 DEF AcqTypes
      <4>2. drain.ts \in Nat /\ drain.idx \in Nat
        BY <4>1, DrainIs
      <4>3. Newest(drain) \in Int
        BY <1>1, <4>2 DEF Newest
      <4>4. Anchored(drain, counter) => Newest(drain) - L \in {-1, 0}
        BY <1>2, <2>2, <4>1, NewestIs
      <4> QED BY <4>3, <4>4
    <3> DEFINE N == Newest(drain)
    <3>a. n \in Int /\ n >= 1 /\ L \in Int /\ last \in Int /\ A \in Nat /\ ahead \in Nat /\ ahead >= A /\ Slack \in Nat
      BY <1>1, <1>2, <1>3, SMTT(30)
    <3>2. CASE Anchored(drain, counter) /\ m = N
      <4> HIDE DEF N, L, m
      <4>1. N - L \in {-1, 0} /\ N \in Int
        BY <3>1, <3>2 DEF N
      <4> QED BY <1>1, <3>2, <4>1
    <3>3. CASE Anchored(drain, counter) /\ GoesOn(g, drain, counter) /\ m >= N
      <4>1. m = last + n /\ last <= L - (n - 1) - 1 + A
        BY <2>6, <2>7, <3>3 DEF GoesOn
      <4> HIDE DEF N, L, m, n, last, A
      <4>2. N - L \in {-1, 0} /\ N \in Int
        BY <3>1, <3>3 DEF N
      <4> QED BY <3>a, <3>3, <4>1, <4>2
    <3>4. CASE ~Anchored(drain, counter) /\ GoesOn(g, drain, counter)
      <4>1. m = last + n /\ last <= L - (n - 1) - 1 + A /\ last + 2 >= L - (n - 1)
        BY <2>6, <2>7, <3>4 DEF GoesOn
      <4> HIDE DEF N, L, m, n, last, A
      <4> QED BY <3>a, <4>1
    <3>5. CASE /\ ~Anchored(drain, counter) /\ Known(drain, counter).have /\ m = counter
               /\ Known(drain, counter).last < First(drain, counter)
               /\ First(drain, counter) <= Known(drain, counter).last + Slack
      <4>1. last <= L - (n - 1) - 1 + A /\ last + 2 >= L - (n - 1)
        BY <2>6, <2>7, <3>5
      <4>2. last < counter - (n - 1) /\ counter - (n - 1) <= last + Slack /\ m = counter
        BY <2>7, <3>5 DEF First
      <4>3. ahead >= counter - L \/ ahead >= A + Slack
        OBVIOUS
      <4> HIDE DEF N, L, m, n, last, A
      <4> QED BY <3>a, <4>1, <4>2, <4>3, SMTT(30)
    <3>6. \/ Anchored(drain, counter) /\ m = N
          \/ Anchored(drain, counter) /\ GoesOn(g, drain, counter) /\ m >= N
          \/ ~Anchored(drain, counter) /\ GoesOn(g, drain, counter)
          \/ /\ ~Anchored(drain, counter) /\ Known(drain, counter).have /\ m = counter
             /\ Known(drain, counter).last < First(drain, counter)
             /\ First(drain, counter) <= Known(drain, counter).last + Slack
      BY <1>6 DEF StampIs
    <3> QED BY <3>2, <3>3, <3>4, <3>5, <3>6
  <2> HIDE DEF L, P, m, b
  <2>9. m + 1 >= P /\ b - m \in -ahead .. 1
    BY <1>1, <1>3, <1>4, <2>3, <2>4, <2>8
  <2> QED BY <1>1, <1>4, <2>8, <2>9 DEF L, P, m, b
<1> QED BY <1>5, <1>6


\* What the ghost remembers of a stamped burst.
LEMMA FinishGhost ==
    ASSUME AcqTypes, drain.sets # <<>>, NEW counter, NEW due \in BOOLEAN, due = AnchorDue,
           ghost' = [Settled EXCEPT !.bad = IF counter = Counter THEN @ ELSE @ + 1,
                                    !.adrift = IF Unjudged(drain, counter) THEN counter # Counter ELSE ghost.adrift,
                                    !.stale = IF AnchorDue THEN (IF Unjudged(drain, counter) THEN counter # Counter ELSE ghost.adrift) ELSE @,
                                    !.late = Max({@, now - drain.before, Counter - LastSlot(drain)})]
    PROVE  /\ ghost' \in GhostType
           /\ ghost'.hurt = IF ghost.hurt > 0 THEN ghost.hurt - 1 ELSE 0
           /\ ghost'.bad = IF counter = Counter THEN ghost.bad ELSE ghost.bad + 1
           /\ ghost'.late >= ghost.late /\ ghost'.late >= now - drain.before /\ ghost'.late >= Counter - LastSlot(drain)
           /\ ~ghost'.adrift => IF Unjudged(drain, counter) THEN counter = Counter ELSE ~ghost.adrift
           /\ due => ghost'.stale = ghost'.adrift
           /\ ~due => ghost'.stale = ghost.stale
<1> DEFINE h == IF ghost.hurt > 0 THEN ghost.hurt - 1 ELSE 0
           m == Max({ghost.late, now - drain.before, Counter - LastSlot(drain)})
           k == IF counter = Counter THEN ghost.bad ELSE ghost.bad + 1
           adrift == IF Unjudged(drain, counter) THEN counter # Counter ELSE ghost.adrift
           stale == IF AnchorDue THEN adrift ELSE ghost.stale
<1>1. /\ ghost \in GhostType /\ ghost.late \in Nat /\ ghost.bad \in Nat /\ ghost.hurt \in 0 .. 3
      /\ ghost.adrift \in BOOLEAN /\ ghost.stale \in BOOLEAN
  BY FieldsAre DEF AcqTypes
<1>2. h \in 0 .. 3 /\ k \in Nat
  BY <1>1
<1>3. m \in Nat /\ m >= ghost.late /\ m >= now - drain.before /\ m >= Counter - LastSlot(drain)
  <2> DEFINE x == now - drain.before
             y == Counter - LastSlot(drain)
  <2>1. x \in Int
    BY FieldsAre
  <2>2. y \in Int
    <3>1. LastSlot(drain) \in Nat
      BY DrainIs DEF AcqTypes
    <3>2. Counter \in Int
      BY FieldsAre DEF Counter
    <3> QED BY <3>1, <3>2
  <2> HIDE DEF x, y
  <2>3. /\ Max({ghost.late, x, y}) \in Int /\ Max({ghost.late, x, y}) >= ghost.late
        /\ Max({ghost.late, x, y}) >= x /\ Max({ghost.late, x, y}) >= y
    <3>1. ghost.late \in Int
      BY <1>1
    <3> QED BY <2>1, <2>2, <3>1, MaxThree, Zenon
  <2>4. Max({ghost.late, x, y}) \in Nat
    BY <1>1, <2>3
  <2> QED BY <2>3, <2>4 DEF x, y
<1>4. Settled = [ghost EXCEPT !.hurt = h]
  BY DEF Settled
<1> HIDE DEF h
<1>5. /\ Settled \in GhostType /\ Settled.hurt = h /\ Settled.late = ghost.late /\ Settled.bad = ghost.bad
      /\ Settled.stale = ghost.stale
  BY <1>1, <1>2, <1>4 DEF GhostType
<1>6. PICK a \in BOOLEAN : a = adrift
  <2>1. adrift \in BOOLEAN
    BY <1>1, Zenon
  <2> QED BY <2>1, Zenon
<1>7. PICK s \in BOOLEAN : s = stale
  <2>1. stale \in BOOLEAN
    <3> HIDE DEF adrift
    <3>1. adrift \in BOOLEAN
      BY <1>6, Zenon
    <3> QED BY <1>1, <3>1, Zenon
  <2> QED BY <2>1, Zenon
<1>8. ghost' = [Settled EXCEPT !.bad = k, !.adrift = a, !.stale = s, !.late = m]
  <2>1. ghost' = [Settled EXCEPT !.bad = k, !.adrift = adrift, !.stale = stale, !.late = m]
    BY <1>5, Zenon
  <2> HIDE DEF k, adrift, stale, m
  <2> QED BY <1>6, <1>7, <2>1, Zenon
<1>9. (Unjudged(drain, counter) /\ ~a => counter = Counter) /\ (~Unjudged(drain, counter) /\ ~a => ~ghost.adrift)
  BY <1>6, Zenon
<1>10. (due => s = a) /\ (~due => s = ghost.stale)
  <2> HIDE DEF adrift
  <2> QED BY <1>6, <1>7, Zenon
<1> HIDE DEF k, m, adrift, stale
<1>11. ghost' \in GhostType
  BY <1>2, <1>3, <1>5, <1>8, Zenon DEF GhostType
<1>12. ghost'.hurt = h /\ ghost'.bad = k /\ ghost'.adrift = a /\ ghost'.stale = s /\ ghost'.late = m
  BY <1>5, <1>8 DEF GhostType
<1>13. ~ghost'.adrift => IF Unjudged(drain, counter) THEN counter = Counter ELSE ~ghost.adrift
  BY <1>9, <1>12, Zenon
<1>14. (due => ghost'.stale = ghost'.adrift) /\ (~due => ghost'.stale = ghost.stale)
  BY <1>10, <1>12, Zenon
<1> QED BY <1>3, <1>11, <1>12, <1>13, <1>14 DEF h, k, m

LEMMA FinishKeeps == ASSUME AcqInv, Finish PROVE AcqInv'
<1>0. AcqTypes /\ ControlInv /\ StreamInv /\ GuardInv /\ AnchorInv
  BY DEF AcqInv
<1>1. PICK counter \in BadCounters \union {Counter} :
         /\ drain.pc = "words" /\ drain.words = 0 /\ drain.sets # <<>> /\ UNCHANGED <<now, bus, chip>>
         /\ guard' = Stamped(drain, counter)
         /\ ghost' = [Settled EXCEPT !.bad = IF counter = Counter THEN @ ELSE @ + 1,
                                     !.adrift = IF Unjudged(drain, counter) THEN counter # Counter ELSE ghost.adrift,
                                     !.stale = IF AnchorDue THEN (IF Unjudged(drain, counter) THEN counter # Counter ELSE ghost.adrift) ELSE @,
                                     !.late = Max({@, now - drain.before, Counter - LastSlot(drain)})]
         /\ Publish(Stamped(drain, counter).last, IF AnchorDue THEN AnchorOn(Stamped(drain, counter).last) ELSE rd.anchor,
                    ~Unjudged(drain, counter))
  BY DEF Finish
<1>2. PICK due \in BOOLEAN : due = AnchorDue
  BY <1>0, DueIs, Zenon
<1>3. /\ now \in Nat /\ drain.before \in Nat /\ chip.start \in Nat /\ rd.anchor \in AnchorType /\ chip.on
      /\ guard \in GuardType /\ drain \in DrainType /\ chip.start <= now
      /\ ghost.late \in Nat /\ ghost.bad \in Nat
  BY <1>0, <1>1, FieldsAre DEF AcqTypes, ControlInv
<1>4. counter \in Nat
  <2>1. Counter \in Nat
    BY <1>3 DEF Counter
  <2> QED BY <1>1, <2>1, BoundsAre
<1> DEFINE g == Stamped(drain, counter)
<1>5. g \in GuardType /\ g.have /\ StampIs(g, drain, counter)
  BY <1>1, <1>3, <1>4, StampedIs
<1> HIDE DEF g
<1> DEFINE anchor == IF AnchorDue THEN AnchorOn(g.last) ELSE rd.anchor
<1>6. g.last \in Int
  BY <1>5 DEF GuardType
<1>7. anchor \in AnchorType
  BY <1>3, <1>6 DEF AnchorOn, AnchorType
<1> HIDE DEF anchor
<1>8. /\ drain' = Idle
      /\ rd' \in ReaderType /\ rd'.errs = 0 /\ rd'.fails = rd.fails /\ rd'.stop = rd.stop /\ rd'.anchor = anchor
      /\ out'.sets = drain.sets /\ out'.newest = g.last /\ out'.start = chip.start /\ out'.was = ghost'
      /\ g.last # 0 => out'.wall = anchor.wall + ((g.last - (Len(drain.sets) - 1)) - anchor.chip)
  <2>1. PICK judged : Publish(g.last, anchor, judged)
    BY <1>1, Zenon DEF g, anchor
  <2> QED BY <1>0, <1>6, <1>7, <2>1, PublishIs
<1>9. /\ ghost' \in GhostType
      /\ ghost'.hurt = IF ghost.hurt > 0 THEN ghost.hurt - 1 ELSE 0
      /\ ghost'.bad = IF counter = Counter THEN ghost.bad ELSE ghost.bad + 1
      /\ ghost'.late >= ghost.late /\ ghost'.late >= now - drain.before /\ ghost'.late >= Counter - LastSlot(drain)
      /\ ~ghost'.adrift => IF Unjudged(drain, counter) THEN counter = Counter ELSE ~ghost.adrift
      /\ due => ghost'.stale = ghost'.adrift
      /\ ~due => ghost'.stale = ghost.stale
  BY <1>0, <1>1, <1>2, FinishGhost
<1>10. guard' = g /\ guard' \in GuardType
  BY <1>1, <1>5 DEF g
<1>11. /\ AcqTypes' /\ ControlInv' /\ StreamInv'
       /\ ghost'.hurt = 0 => Paired(drain, chip.first)
       /\ NextSet(drain', chip'.first) = Passed(chip.first) + 1
  BY <1>1, <1>8, <1>9, <1>10, EndedKeeps
\* How far ahead a stamp may now be.
<1> DEFINE ahead == Ahead(ghost')
<1>12. /\ ahead \in Nat /\ ahead >= Ahead(ghost) /\ ahead >= ghost'.late
       /\ counter # Counter => ahead >= Ahead(ghost) + Slack
  <2>1. ghost'.late \in Nat /\ ghost'.bad \in Nat
    BY <1>9 DEF GhostType
  <2>2. ahead >= ghost'.late /\ ahead \in Nat
    <3>1. ghost'.bad * Slack \in Nat
      BY <2>1, BoundsAre
    <3> QED BY <2>1, <3>1 DEF Ahead
  <2>3. Ahead(ghost) \in Nat
    BY <1>3, AheadIs
  <2>4. CASE counter = Counter
    <3>1. ghost'.bad = ghost.bad /\ ghost'.late - ghost.late \in Nat
      BY <1>3, <1>9, <2>1, <2>4
    <3>2. ahead >= Ahead(ghost) + (ghost'.late - ghost.late)
      BY <1>3, <1>9, <2>1, <3>1, AheadIs
    <3> HIDE DEF ahead
    <3> QED BY <2>2, <2>3, <2>4, <3>1, <3>2
  <2>5. CASE counter # Counter
    <3>1. ghost'.bad = ghost.bad + 1
      BY <1>9, <2>5
    <3>2. ahead >= Ahead(ghost) + Slack
      BY <1>3, <1>9, <2>1, <3>1, AheadIs
    <3> HIDE DEF ahead
    <3> QED BY <2>2, <2>3, <3>2, BoundsAre
  <2> QED BY <2>4, <2>5
<1>13. ~ghost'.adrift =>
          /\ LastSlot(drain) \in Nat
          /\ g.last - LastSlot(drain) \in -1 .. ahead
          /\ g.last <= Passed(chip.first) + ahead /\ g.last + 1 >= Passed(chip.first) /\ Passed(chip.first) \in Nat
          /\ drain.before - chip.start - g.last \in -ahead .. 1
  <2> SUFFICES ASSUME ~ghost'.adrift
               PROVE  /\ LastSlot(drain) \in Nat
                      /\ g.last - LastSlot(drain) \in -1 .. ahead
                      /\ g.last <= Passed(chip.first) + ahead /\ g.last + 1 >= Passed(chip.first) /\ Passed(chip.first) \in Nat
                      /\ drain.before - chip.start - g.last \in -ahead .. 1
    OBVIOUS
  <2>1. LastSlot(drain) \in Nat
    BY <1>1, <1>3, DrainIs
  <2>2. ghost'.late \in Nat /\ Counter - LastSlot(drain) \in Int /\ now - drain.before \in Int
    BY <1>3, <1>9, <2>1 DEF GhostType, Counter
  <2>3. ahead >= Counter - LastSlot(drain) /\ ahead >= now - drain.before
    <3> HIDE DEF ahead
    <3> QED BY <1>9, <1>12, <2>2
  <2>4. IF Unjudged(drain, counter) THEN counter = Counter ELSE ~ghost.adrift
    BY <1>9
  <2> HIDE DEF ahead
  <2>5. /\ LastSlot(drain) \in Nat /\ LastSlot(drain) <= Passed(chip.first) /\ Passed(chip.first) \in Nat
        /\ g.last \in Int /\ g.last - LastSlot(drain) \in -1 .. ahead
        /\ g.last + 1 >= Passed(chip.first)
        /\ drain.before - chip.start - g.last \in -ahead .. 1
    BY <1>1, <1>4, <1>5, <1>12, <2>3, <2>4, StampBounds
  <2>6. g.last <= Passed(chip.first) + ahead
    BY <1>12, <2>5
  <2> QED BY <2>5, <2>6
<1>14. GuardInv'
  <2> SUFFICES ASSUME ~ghost'.adrift
               PROVE  /\ guard'.last <= NextSet(drain', chip'.first) - 1 + Ahead(ghost')
                      /\ guard'.last + 2 >= NextSet(drain', chip'.first)
    BY DEF GuardInv
  <2>1. guard'.last = g.last /\ NextSet(drain', chip'.first) = Passed(chip.first) + 1
    BY <1>10, <1>11
  <2>a. Ahead(ghost') = ahead
    OBVIOUS
  <2> HIDE DEF ahead
  <2>2. g.last <= (Passed(chip.first) + 1) - 1 + ahead /\ g.last + 2 >= Passed(chip.first) + 1
    BY <1>6, <1>12, <1>13
  <2> QED BY <2>1, <2>2, <2>a
\* The anchor, new or kept.
<1>15. (~ghost'.adrift /\ ~ghost'.stale /\ anchor.valid) => anchor.wall - chip.start - anchor.chip \in -ahead .. 1
  <2> HIDE DEF ahead
  <2>1. CASE due
    <3>1. anchor.wall = drain.before /\ anchor.chip = g.last
      BY <1>2, <2>1 DEF anchor, AnchorOn
    <3> QED BY <1>13, <3>1
  <2>2. CASE ~due
    <3>1. anchor = rd.anchor /\ ghost'.stale = ghost.stale
      BY <1>2, <1>9, <2>2 DEF anchor
    <3>2. (rd.anchor.valid /\ ~ghost.stale) => rd.anchor.wall - chip.start - rd.anchor.chip \in -Ahead(ghost) .. 1
      BY <1>0 DEF AnchorInv
    <3>3. Ahead(ghost) \in Nat /\ ahead >= Ahead(ghost) /\ ahead \in Nat
      BY <1>3, <1>12, AheadIs
    <3> QED BY <3>1, <3>2, <3>3
  <2> QED BY <2>1, <2>2
<1>16. AnchorInv'
  <2>1. CASE due
    BY <1>1, <1>8, <1>9, <1>15, <2>1 DEF AnchorInv
  <2>2. CASE ~due
    <3>1. anchor = rd.anchor /\ ghost'.stale = ghost.stale
      BY <1>2, <1>9, <2>2 DEF anchor
    <3>2. (rd.anchor.valid /\ ~ghost.stale) => rd.anchor.wall - chip.start - rd.anchor.chip \in -Ahead(ghost) .. 1
      BY <1>0 DEF AnchorInv
    <3>3. Ahead(ghost) \in Nat /\ ahead >= Ahead(ghost) /\ ahead \in Nat
      BY <1>3, <1>12, AheadIs
    <3>4. rd'.anchor = rd.anchor /\ chip' = chip
      BY <1>1, <1>8, <3>1
    <3> HIDE DEF ahead
    <3>5. (rd.anchor.valid /\ ~ghost.stale) => rd.anchor.wall - chip.start - rd.anchor.chip \in -ahead .. 1
      BY <3>2, <3>3
    <3> QED BY <3>1, <3>4, <3>5 DEF AnchorInv, ahead
  <2> QED BY <2>1, <2>2
<1>17. PairsRecover'
  BY <1>8, <1>11, PairsArePublished
<1>18. LastSlot(out') = LastSlot(drain)
  BY <1>8 DEF LastSlot
<1>19. StampsTrack'
  <2> SUFFICES ASSUME ~ghost'.adrift PROVE out'.newest - LastSlot(out') \in -1 .. Ahead(out'.was)
    BY <1>8 DEF StampsTrack
  <2> QED BY <1>8, <1>13, <1>18
<1>20. WallHonest'
  <2> DEFINE n == Len(drain.sets)
             L == LastSlot(drain)
  <2> SUFFICES ASSUME g.last # 0, ~ghost'.adrift, ~ghost'.stale, NEW i \in DOMAIN drain.sets, L - drain.sets[i].gyro = n - i
               PROVE  (out'.wall + i - 1) - (chip.start + drain.sets[i].gyro) \in -(1 + ahead) .. (1 + ahead)
    BY <1>8, <1>18 DEF WallHonest, WallOff
  <2>1. anchor.valid /\ anchor.wall \in Int /\ anchor.chip \in Int
    <3>1. AnchorDue => anchor.valid = TRUE
      BY DEF anchor, AnchorOn
    <3>2. ~AnchorDue => anchor = rd.anchor /\ rd.anchor.valid
      BY DEF anchor, AnchorDue
    <3> QED BY <1>7, <3>1, <3>2 DEF AnchorType
  <2>2. anchor.wall - chip.start - anchor.chip \in -ahead .. 1 /\ g.last - L \in -1 .. ahead /\ L \in Nat
    BY <1>13, <1>15, <2>1
  <2> DEFINE x == drain.sets[i].gyro
  <2>3. x \in Nat /\ n \in Nat /\ i \in Nat
    BY <1>3, DrainIs
  <2>4. out'.wall = anchor.wall + ((g.last - (n - 1)) - anchor.chip)
    BY <1>8
  <2>5. L - x = n - i
    OBVIOUS
  <2> DEFINE a == anchor.wall - chip.start - anchor.chip
             c == g.last - L
  <2> HIDE DEF n, L, x, ahead
  <2>6. (out'.wall + i - 1) - (chip.start + x) = a + c
    <3> DEFINE w == anchor.wall
               k == anchor.chip
               t == chip.start
               l == g.last
    <3>1. w \in Int /\ k \in Int /\ t \in Int /\ l \in Int /\ x \in Int /\ n \in Int /\ i \in Int /\ L \in Int /\ L - x = n - i
      BY <1>3, <1>6, <2>1, <2>2, <2>3, <2>5
    <3>2. out'.wall = w + ((l - (n - 1)) - k)
      BY <2>4
    <3> HIDE DEF w, k, t, l
    <3>3. (out'.wall + (i - 1)) - (t + x) = (w - t - k) + (l - L)
      BY <3>1, <3>2
    <3> QED BY <3>3 DEF w, k, t, l
  <2>7. a \in Int /\ c \in Int /\ a \in -ahead .. 1 /\ c \in -1 .. ahead
    BY <1>3, <1>6, <2>1, <2>2
  <2> HIDE DEF a, c
  <2>8. a + c \in -(1 + ahead) .. (1 + ahead)
    BY <1>12, <2>7
  <2> QED BY <2>6, <2>8 DEF x
<1> QED BY <1>11, <1>14, <1>16, <1>17, <1>19, <1>20 DEF AcqInv


LEMMA AcqNext == AcqInv /\ [Next]_vars => AcqInv'
<1> SUFFICES ASSUME AcqInv, [Next]_vars PROVE AcqInv'
  OBVIOUS
<1>0. bus \in {"ok", "dead"}
  BY DEF AcqInv, AcqTypes
<1>1. CASE Tick
  BY <1>1, TickKeeps
<1>2. CASE Die
  BY <1>2, AcqStutter DEF Die
<1>3. CASE Read
  <2>1. CASE ReadStatus
    BY <2>1, ReadStatusKeeps
  <2>2. CASE ReadBlock
    BY <2>2, ReadBlockKeeps
  <2>3. CASE StatusFails
    BY <2>3, StatusFailsKeeps
  <2>4. CASE BlockFails
    BY <2>4, BlockFailsKeeps
  <2>5. CASE NothingPaired
    BY <2>5, NothingPairedKeeps
  <2>6. CASE Finish
    BY <2>6, FinishKeeps
  <2>7. CASE FinishUnstamped
    BY <2>7, FinishUnstampedKeeps
  <2>8. CASE Recover
    BY <2>8, RecoverKeeps
  <2> QED BY <1>3, <2>1, <2>2, <2>3, <2>4, <2>5, <2>6, <2>7, <2>8 DEF Read
<1>4. CASE UNCHANGED vars
  BY <1>0, <1>4, AcqStutter DEF vars
<1> QED BY <1>1, <1>2, <1>3, <1>4 DEF Next, Stopped

LEMMA AcqImplies == AcqInv => SamplesTrue
<1> SUFFICES ASSUME AcqInv PROVE SamplesTrue
  OBVIOUS
<1>0. AcqTypes /\ ControlInv
  BY DEF AcqInv
<1>1. /\ chip.first <= chip.next /\ chip.next - chip.first <= FifoWords
      /\ chip.first \in Nat /\ chip.next \in Nat /\ drain.words \in Nat
  BY <1>0, FieldsAre DEF ControlInv
<1>2. drain.words \in 0 .. FifoWords
  <2>1. drain.pc = "words" => drain.words <= chip.next - chip.first
    BY <1>0 DEF ControlInv
  <2>2. drain.pc # "words" => drain.words = 0
    BY <1>0, WaitingIs
  <2> QED BY <1>1, <2>1, <2>2, BoundsAre
<1>3. TypeOK
  BY <1>0, <1>1, <1>2, FieldsAre DEF TypeOK, AcqTypes
<1> QED BY <1>3 DEF AcqInv, SamplesTrue

\* A published sample is what it says (ism330dhcx.c ism_read, chip_ts.h, st_fifo_ts.h,
\* imu_math.c anchor_update): for any FIFO of three words or more, any transfer size, batch,
\* limits, faults, bad counter reads and lengths of drain.
THEOREM SamplesTrueHolds == Spec => []SamplesTrue
BY AcqInit, AcqNext, AcqImplies, PTL DEF Spec

(***************************************************************************)
(* The bridges.                                                            *)
(***************************************************************************)


(* ------------------------------- invariants ------------------------------ *)

Cmds == [retune : BOOLEAN, select : BOOLEAN, data : BOOLEAN, reply : Seq(Nat \X Nat), release : BOOLEAN]
Holding == {"build", "write", "reply", "end"}

DevRec == [refs : Nat, match : Matches \cup {""}, proto : {"none", "i2c", "spi"}, hz : Nat, spiHz : Nat, mode : Nat, upset : BOOLEAN]
HandleRec == [used : BOOLEAN, dev : 0 .. MaxDev, cs : Nat, mode : Nat, hz : Nat]
XferRec == [pc : {"rest", "ask"} \cup Holding, kind : {"read", "long", "write"}, cmds : Cmds, owed : Nat, got : Seq(Nat \X Nat),
            toDo : 0 .. 2, last : BOOLEAN, rc : {0, -1}, id : Nat]
UsbRec == [claimed : {0, 1}, clock : Nat, sel : SUBSET Nat, replies : Seq(Nat \X Nat), wrong : BOOLEAN, fast : BOOLEAN]

MainOK == main \in [pc : {"open", "setup", "run", "join", "close", "done"}, at : Sensors]
WantOK == want \in [Sensors -> [node : Nodes, spi : Spi]]
DevOK == dev \in [Slots -> DevRec]
HandleOK == handle \in [Sensors -> HandleRec]
LockOK == lock \in [Slots -> Sensors \cup {Nobody}]
XferOK == xfer \in [Sensors -> XferRec]
UsbOK == usb \in [Matches -> UsbRec]
ToComeOK == toCome \in [transfers : Nat, faults : 0 .. UsbFaults]
UsbTyped == MainOK /\ WantOK /\ DevOK /\ HandleOK /\ LockOK /\ XferOK /\ UsbOK /\ ToComeOK

\* A handle is on the bridge its node names, which is open.
UsedOn(s, d) == handle[s].used /\ handle[s].dev = d
HandlesOnBridges ==
    \A s \in Sensors : handle[s].used =>
        /\ handle[s].dev \in Slots
        /\ On(s).match = want[s].node.match /\ On(s).proto = Proto(want[s].node) /\ handle[s].cs = want[s].node.cs

\* A bridge counts its handles, and no two open ones are the same bridge.
One(b) == IF b THEN 1 ELSE 0
RefsCount == \A d \in Slots : dev[d].refs = One(UsedOn("imu", d)) + One(UsedOn("mag", d))
OpenOnce == \A d, e \in Slots : (dev[d].refs > 0 /\ dev[e].refs > 0 /\ dev[d].match = dev[e].match) => d = e

\* The interfaces claimed are those of the open bridges.
ClaimedAreOpen == \A m \in Matches : (usb[m].claimed = 1) <=> \E d \in Slots : dev[d].refs > 0 /\ dev[d].match = m

\* How far opening and closing have come.
Place ==
    /\ main.pc = "open" /\ main.at = "imu" => ~handle["imu"].used
    /\ main.pc \in {"open", "setup"} /\ main.at = "imu" => ~handle["mag"].used
    /\ main.pc = "open" /\ main.at = "mag" => handle["imu"].used /\ ~handle["mag"].used
    /\ main.pc = "setup" => handle[main.at].used /\ ~IsI2C(main.at)
    /\ main.pc = "setup" /\ main.at = "mag" => handle["imu"].used
    /\ main.pc \in {"run", "join"} => handle["imu"].used /\ handle["mag"].used
    /\ main.pc = "close" /\ main.at = "mag" => ~handle["imu"].used
    /\ main.pc = "done" => ~handle["imu"].used /\ ~handle["mag"].used
    /\ main.pc \notin {"run", "join"} => xfer["imu"].pc = "rest" /\ xfer["mag"].pc = "rest"

BridgesInv == HandlesOnBridges /\ RefsCount /\ OpenOnce /\ ClaimedAreOpen /\ Place

\* A bridge's lock is held by the reader in the middle of a message on it.
LockInv ==
    /\ \A s \in Sensors : xfer[s].pc \in Holding => lock[handle[s].dev] = s
    /\ \A d \in Slots : lock[d] # Nobody => xfer[lock[d]].pc \in Holding /\ handle[lock[d]].dev = d

(* What a message has brought, will bring and has asked for. *)

\* The tags of pieces a to b of a transfer.
Run(id, a, b) == [i \in 1 .. (b - a + 1) |-> <<id, a + i - 1>>]
FirstByte(s) == IF IsI2C(s) THEN 0 ELSE 1
Built(x) == IF x.kind = "write" THEN 0 ELSE Pieces(x.kind) - x.toDo
AskedFor(s, x) == Run(x.id, FirstByte(s), Built(x))

\* A message on a bridge where nothing has gone wrong: the transfer, and the
\* replies in the bridge.
SoundIs(s, x, r) ==
    /\ x.pc \in {"build", "write"} => (r = <<>> /\ x.got \o x.cmds.reply = AskedFor(s, x) /\ x.owed = Len(x.cmds.reply))
    /\ x.pc = "reply" => (x.cmds = NoCmds /\ x.got \o r = AskedFor(s, x) /\ x.owed = Len(r))
    /\ x.pc = "end" => (r = <<>> /\ x.got = AskedFor(s, x) /\ x.toDo = 0)
    /\ x.last => x.toDo = 0
Sound(s) == SoundIs(s, xfer[s], usb[On(s).match].replies)

\* What is true of a transfer whatever went wrong.
Shape(x) ==
    /\ x.toDo <= Pieces(x.kind)
    /\ x.pc \in {"ask"} \cup Holding => x.id # 0
    /\ x.pc = "ask" => (x.cmds = NoCmds /\ x.owed = 0 /\ x.got = <<>> /\ x.toDo = Pieces(x.kind) /\ ~x.last)
    /\ x.pc = "build" => ~x.last
    /\ (x.pc \in {"write", "reply"} /\ ~x.last) => x.toDo > 0
    /\ x.rc = -1 => x.pc \in {"end", "rest"}

BytesInv ==
    /\ main.pc \in {"open", "setup"} => \A s \in Sensors : xfer[s] = Resting
    /\ \A s \in Sensors : Shape(xfer[s])
    /\ \A d \in Slots : (dev[d].refs > 0 /\ ~dev[d].upset /\ lock[d] = Nobody) => usb[dev[d].match].replies = <<>>
    /\ \A s \in Sensors : (handle[s].used /\ ~On(s).upset) => ((xfer[s].pc \in Holding => Sound(s)) /\ Honest(s))

(* The clock. *)
ClockInv ==
    /\ main.pc \in {"open", "setup"} => \A m \in Matches : ~usb[m].fast
    /\ \A s \in Sensors : handle[s].used =>
          LET u == usb[On(s).match]
              x == xfer[s]
          IN /\ ~On(s).upset => ~u.fast
             /\ ~IsI2C(s) /\ x.pc \in Holding => On(s).spiHz = handle[s].hz
             /\ ~IsI2C(s) /\ ~On(s).upset => 
                  \/ u.clock = On(s).spiHz
                  \/ \E t \in Sensors : lock[handle[s].dev] = t /\ xfer[t].pc \in {"build", "write"} /\ xfer[t].cmds.retune

(* What faults can have left behind. *)

\* How far a transfer is.
Flow(x) ==
    /\ x.pc = "reply" => (x.cmds = NoCmds /\ x.owed > 0)
    /\ (x.pc = "write" /\ x.last) => x.cmds.release
    /\ (x.pc = "write" /\ ~x.last) => x.owed > 0
    /\ (x.pc = "build" /\ x.toDo > 0 /\ x.toDo < Pieces(x.kind) /\ x.cmds # NoCmds) => x.owed > 0

\* A part left selected, and replies left behind, each cost a call that goes wrong;
\* with both of them the third lets a message go on clocking although another's part
\* is selected.
Behind(u) == One(u.sel # {}) + One(u.replies # <<>>)
Paid(x, u, cs, w) ==
    LET building == x.pc \in {"build", "write"}
        mine == u.sel \subseteq {cs}
    IN /\ (building /\ x.cmds.select) => Behind(u) <= w
       /\ (building /\ ~x.cmds.select /\ ~mine /\ (x.toDo > 0 \/ x.cmds.data)) => w >= 3
       /\ (building /\ ~x.cmds.select /\ ~mine) => 1 + Behind(u) <= w
       /\ (x.pc = "reply" /\ ~mine) => 1 + Behind(u) <= w
       /\ (x.pc = "reply" /\ x.last /\ u.sel # {}) => Behind(u) <= w
       /\ x.pc = "end" => Behind(u) <= w

SelectInv ==
    /\ main.pc \in {"open", "setup"} => \A m \in Matches : ~usb[m].wrong
    /\ OnlyMine
    /\ \A d \in Slots : dev[d].upset => Wronged >= 1
    /\ \A s \in Sensors : (handle[s].used /\ ~IsI2C(s)) =>
          /\ lock[handle[s].dev] = Nobody => Behind(usb[On(s).match]) <= Wronged
          /\ Paid(xfer[s], usb[On(s).match], handle[s].cs, Wronged)

FlowInv == \A s \in Sensors : Flow(xfer[s])

(* -------------------------------- typing --------------------------------- *)

LEMMA MaxDevPositive == MaxDev \in Nat /\ MaxDev >= 1 /\ Slots = 1 .. MaxDev /\ Transfers \in Nat /\ UsbFaults \in Nat
BY BusBoundsAssumption DEF Slots

LEMMA WantTyped ==
    ASSUME WantOK, NEW s \in Sensors
    PROVE  /\ want[s].node.match \in Matches
           /\ want[s].node.cs \in Nat /\ want[s].node.hz \in Nat
           /\ want[s].spi.mode \in Nat /\ want[s].spi.hz \in Nat \ {0}
BY NodesAssumption DEF WantOK, Matches

LEMMA RecordsTyped ==
    /\ NoDev \in DevRec /\ NoHandle \in HandleRec /\ Unplugged \in UsbRec
    /\ NoCmds \in Cmds /\ Resting \in XferRec /\ Nobody \notin Sensors
<1>1. NoDev \in DevRec
  BY DEF NoDev, DevRec
<1>2. NoHandle \in HandleRec
  BY MaxDevPositive DEF NoHandle, HandleRec, I2C
<1>3. Unplugged \in UsbRec
  BY DEF Unplugged, UsbRec
<1>4. NoCmds \in Cmds
  BY DEF NoCmds, Cmds
<1>5. Resting \in XferRec
  BY <1>4 DEF Resting, XferRec
<1>. QED
  BY <1>1, <1>2, <1>3, <1>4, <1>5 DEF Nobody, Sensors

LEMMA Put == ASSUME NEW S, NEW T, NEW f \in [S -> T], NEW x \in S, NEW v \in T PROVE [f EXCEPT ![x] = v] \in [S -> T]
OBVIOUS

LEMMA TypingInit == BusInit => UsbTyped
<1> SUFFICES ASSUME BusInit PROVE UsbTyped
  OBVIOUS
<1> USE RecordsTyped DEF BusInit
<1>1. MainOK
  BY DEF MainOK, Sensors
<1>2. WantOK
  BY DEF WantOK
<1>3. DevOK
  BY DEF DevOK
<1>4. HandleOK
  BY DEF HandleOK
<1>5. LockOK
  BY DEF LockOK
<1>6. XferOK
  BY DEF XferOK
<1>7. UsbOK
  BY DEF UsbOK
<1>8. ToComeOK
  BY MaxDevPositive DEF ToComeOK
<1>. QED
  BY <1>1, <1>2, <1>3, <1>4, <1>5, <1>6, <1>7, <1>8 DEF UsbTyped

LEMMA FaultTyped == ASSUME ToComeOK, NEW k, Fault(k) \/ Fine PROVE ToComeOK'
BY MaxDevPositive DEF ToComeOK, Fault, Fine

\* The table is searched from its start.
LEMMA FirstFreeIsFree == ASSUME Free # {} PROVE FirstFree \in Slots /\ dev[FirstFree].refs = 0
<1> DEFINE R == OpToRel(<, Nat)
<1>1. IsWellFoundedOn(R, Nat)
  BY NatLessThanWellFounded
<1>2. Free \subseteq Nat
  BY MaxDevPositive DEF Free
<1>3. \E n \in Free : \A m \in Free : ~(<<m, n>> \in R)
  <2> HIDE DEF R
  <2> QED BY <1>1, <1>2, WFMin
<1>4. \A m, n \in Nat : <<m, n>> \in R <=> m < n
  BY DEF OpToRel
<1> HIDE DEF R
<1>4a. PICK n \in Free : \A m \in Free : ~(<<m, n>> \in R)
  BY <1>3
<1>5. \A m \in Free : n <= m
  <2> SUFFICES ASSUME NEW m \in Free PROVE n <= m
    OBVIOUS
  <2>1. m \in Nat /\ n \in Nat /\ ~(m < n)
    BY <1>2, <1>4a, <1>4
  <2>. QED
    BY <2>1
<1>6. FirstFree \in Free
  BY <1>5 DEF FirstFree
<1>. QED
  BY <1>6 DEF Free

LEMMA Fields ==
    /\ \A r \in DevRec : r.refs \in Nat /\ r.spiHz \in Nat /\ r.upset \in BOOLEAN /\ r.match \in Matches \cup {""}
    /\ \A r \in DevRec, n \in Nat : [r EXCEPT !.refs = n] \in DevRec
    /\ \A r \in DevRec, n \in Nat : [r EXCEPT !.spiHz = n] \in DevRec
    /\ \A r \in DevRec, n \in Nat, m \in Nat : [r EXCEPT !.spiHz = n, !.mode = m] \in DevRec
    /\ \A r \in DevRec : [r EXCEPT !.upset = TRUE] \in DevRec
    /\ \A r \in HandleRec : r.used \in BOOLEAN /\ r.dev \in 0 .. MaxDev /\ r.cs \in Nat /\ r.hz \in Nat
    /\ \A r \in HandleRec, n \in Nat, m \in Nat : [r EXCEPT !.hz = n, !.mode = m] \in HandleRec
    /\ \A r \in UsbRec, n \in Nat : [r EXCEPT !.clock = n, !.sel = {}] \in UsbRec
<1>1. /\ \A r \in DevRec : r.refs \in Nat /\ r.spiHz \in Nat /\ r.upset \in BOOLEAN /\ r.match \in Matches \cup {""}
      /\ \A r \in HandleRec : r.used \in BOOLEAN /\ r.dev \in 0 .. MaxDev /\ r.cs \in Nat /\ r.hz \in Nat
  BY DEF DevRec, HandleRec
<1>2. \A r \in DevRec, n \in Nat : [r EXCEPT !.refs = n] \in DevRec
  BY DEF DevRec
<1>3. \A r \in DevRec, n \in Nat : [r EXCEPT !.spiHz = n] \in DevRec
  BY DEF DevRec
<1>4. \A r \in DevRec, n \in Nat, m \in Nat : [r EXCEPT !.spiHz = n, !.mode = m] \in DevRec
  BY DEF DevRec
<1>5. \A r \in DevRec : [r EXCEPT !.upset = TRUE] \in DevRec
  BY DEF DevRec
<1>6. \A r \in HandleRec, n \in Nat, m \in Nat : [r EXCEPT !.hz = n, !.mode = m] \in HandleRec
  BY DEF HandleRec
<1>7. \A r \in UsbRec, n \in Nat : [r EXCEPT !.clock = n, !.sel = {}] \in UsbRec
  BY DEF UsbRec
<1>. QED
  BY <1>1, <1>2, <1>3, <1>4, <1>5, <1>6, <1>7

\* The parts of opening.
LEMMA OpenCases ==
    ASSUME Open
    PROVE  /\ main.pc = "open" /\ UNCHANGED <<want, lock, xfer>>
           /\ \/ \E d \in Slots : d \in Named(Asked) /\ Share(d)
              \/ \E d \in Slots : Named(Asked) = {} /\ dev[d].refs = 0 /\ TakeOver(d)
              \/ \E d \in Slots : Named(Asked) = {} /\ dev[d].refs = 0 /\ Untaken(d)
              \/ Unfit
<1>1. \A d \in Named(Asked) : d \in Slots
  BY DEF Named
<1>. QED
  BY <1>1, FirstFreeIsFree DEF Open

LEMMA AskedTyped ==
    ASSUME UsbTyped
    PROVE  /\ main.at \in Sensors /\ Asked.match \in Matches /\ Asked.cs \in Nat /\ Asked.hz \in Nat /\ Proto(Asked) \in {"i2c", "spi"}
           /\ New \in DevRec /\ [New EXCEPT !.refs = 1] \in DevRec
           /\ \A d \in Slots : [NoHandle EXCEPT !.used = TRUE, !.dev = d, !.cs = Asked.cs] \in HandleRec
           /\ usb[Asked.match] \in UsbRec /\ Configured(Claimed(usb[Asked.match]), Asked) \in UsbRec
<1>1. main.at \in Sensors
  BY DEF UsbTyped, MainOK
<1>2. Asked.match \in Matches /\ Asked.cs \in Nat /\ Asked.hz \in Nat /\ Proto(Asked) \in {"i2c", "spi"}
  BY <1>1, WantTyped DEF UsbTyped, Asked, Proto
<1>3. New \in DevRec
  BY <1>2 DEF DevRec, NoDev, New
<1>4. [New EXCEPT !.refs = 1] \in DevRec
  BY <1>3, Fields
<1>5. ASSUME NEW d \in Slots PROVE [NoHandle EXCEPT !.used = TRUE, !.dev = d, !.cs = Asked.cs] \in HandleRec
  <2>1. d \in 0 .. MaxDev
    BY MaxDevPositive
  <2>2. \A h \in HandleRec, n \in Nat : [h EXCEPT !.used = TRUE, !.dev = d, !.cs = n] \in HandleRec
    BY <2>1, Zenon DEF HandleRec
  <2>. QED
    BY <1>2, <2>2, RecordsTyped
<1>6. usb[Asked.match] \in UsbRec
  BY <1>2 DEF UsbTyped, UsbOK
<1>7. ASSUME NEW u \in UsbRec, NEW n \in Nat PROVE [[u EXCEPT !.claimed = 1] EXCEPT !.replies = <<>>, !.sel = {}, !.clock = n] \in UsbRec
  <2>1. <<>> \in Seq(Nat \X Nat)
    OBVIOUS
  <2>2. PICK v : v = [u EXCEPT !.claimed = 1]
    OBVIOUS
  <2>3. v \in UsbRec
    BY <1>7, <2>2 DEF UsbRec
  <2>4. [v EXCEPT !.replies = <<>>, !.sel = {}, !.clock = n] \in UsbRec
    BY <1>7, <2>1, <2>3, Zenon DEF UsbRec
  <2>. QED
    BY <2>2, <2>4
<1>8. Configured(Claimed(usb[Asked.match]), Asked) \in UsbRec
  BY <1>2, <1>6, <1>7 DEF Configured, Claimed
<1>. QED
  BY <1>1, <1>2, <1>3, <1>4, <1>5, <1>6, <1>8

LEMMA TypingOpen == ASSUME UsbTyped, Open PROVE UsbTyped'
<1> USE DEF UsbTyped
<1>0. main.at \in Sensors /\ WantOK' /\ LockOK' /\ XferOK'
  BY AskedTyped, OpenCases DEF WantOK, LockOK, XferOK
<1>1. After(main.at) \in [pc : {"open", "setup", "run", "join", "close", "done"}, at : Sensors]
  BY <1>0 DEF After, Sensors
<1>2. GiveUp \in [pc : {"open", "setup", "run", "join", "close", "done"}, at : Sensors] 
  BY DEF GiveUp, Sensors
<1>3. [main EXCEPT !.pc = "setup"] \in [pc : {"open", "setup", "run", "join", "close", "done"}, at : Sensors]
  BY DEF MainOK
<1>4. ASSUME NEW d \in Slots, Share(d) PROVE UsbTyped'
  <2>1. MainOK' /\ HandleOK'
    BY <1>0, <1>1, <1>3, <1>4, AskedTyped, Put DEF Share, Opened, MainOK, HandleOK
  <2>2. UsbOK' /\ ToComeOK'
    BY <1>4, FaultTyped DEF Share, UsbOK
  <2>3. DevOK'
    <3>1. dev[d] \in DevRec
      BY DEF DevOK
    <3>2. dev[d].refs + 1 \in Nat
      <4>1. dev[d].refs \in Nat
        BY <3>1 DEF DevRec
      <4>. QED
        BY <4>1
    <3>3. dev' = [dev EXCEPT ![d] = [dev[d] EXCEPT !.refs = dev[d].refs + 1]]
      BY <1>4 DEF Share
    <3>4. [dev[d] EXCEPT !.refs = dev[d].refs + 1] \in DevRec
      BY <3>1, <3>2, Fields
    <3>. QED
      BY <3>3, <3>4 DEF DevOK
  <2>. QED
    BY <1>0, <2>1, <2>2, <2>3
<1>5. ASSUME NEW d \in Slots, TakeOver(d) PROVE UsbTyped'
  <2>1. MainOK' /\ HandleOK'
    BY <1>0, <1>1, <1>3, <1>5, AskedTyped, Put DEF TakeOver, Opened, MainOK, HandleOK
  <2>2. UsbOK' /\ ToComeOK'
    BY <1>5, FaultTyped, AskedTyped, Put DEF TakeOver, UsbOK
  <2>3. DevOK'
    BY <1>5, AskedTyped, Put DEF TakeOver, DevOK
  <2>. QED
    BY <1>0, <2>1, <2>2, <2>3
<1>6. ASSUME NEW d \in Slots, Untaken(d) PROVE UsbTyped'
  <2>1. MainOK' /\ HandleOK' /\ UsbOK' /\ ToComeOK'
    BY <1>2, <1>6, FaultTyped DEF Untaken, MainOK, HandleOK, UsbOK
  <2>2. DevOK'
    BY <1>6, AskedTyped, Put DEF Untaken, DevOK
  <2>. QED
    BY <1>0, <2>1, <2>2
<1>7. CASE Unfit
  <2>1. MainOK' /\ HandleOK' /\ UsbOK' /\ ToComeOK' /\ DevOK'
    BY <1>2, <1>7, FaultTyped DEF Unfit, MainOK, HandleOK, UsbOK, DevOK
  <2>. QED
    BY <1>0, <2>1
<1>. QED
  BY <1>4, <1>5, <1>6, <1>7, OpenCases

LEMMA TypingMain == ASSUME UsbTyped, RefsCount, Setup \/ Close \/ Stop \/ Joined PROVE UsbTyped'
<1> USE DEF UsbTyped
<1>0. main.at \in Sensors
  BY DEF MainOK
<1> DEFINE s == main.at
           d == handle[s].dev
<1>a. dev \in [Slots -> DevRec] /\ handle \in [Sensors -> HandleRec] /\ usb \in [Matches -> UsbRec]
  BY DEF DevOK, HandleOK, UsbOK
<1>1. CASE Setup
  <2> DEFINE spi == want[main.at].spi
  <2>0. WantOK' /\ LockOK' /\ XferOK' /\ spi.hz \in Nat /\ spi.mode \in Nat
    BY <1>0, <1>1, WantTyped DEF Setup, WantOK, LockOK, XferOK
  <2>1. \/ Tuned(s, d, spi) \/ Believed(s, d, spi)
        \/ (Fault("refused") /\ main' = GiveUp /\ UNCHANGED <<dev, handle, usb>>) \/ Unfit
    BY <1>1 DEF Setup
  <2>2. CASE Tuned(s, d, spi) \/ Believed(s, d, spi)
    <3>1. MainOK'
      <4>1. main' = After(s)
        BY <2>2 DEF Tuned, Believed
      <4>. QED
        BY <1>0, <4>1 DEF After, MainOK, Sensors
    <3>2. ToComeOK'
      BY <2>2, FaultTyped DEF Tuned, Believed
    <3>3. DevOK'
      <4>1. CASE d \in Slots
        <5>1. PICK r \in DevRec : r = [dev[d] EXCEPT !.spiHz = spi.hz, !.mode = spi.mode]
          BY <1>a, <2>0, <4>1, Fields
        <5>2. [r EXCEPT !.upset = TRUE] \in DevRec
          BY <5>1, Fields
        <5>3. dev' = [dev EXCEPT ![d] = r] \/ dev' = [dev EXCEPT ![d] = [r EXCEPT !.upset = TRUE]]
          BY <1>a, <2>2, <4>1, <5>1 DEF Tuned, Believed
        <5>. QED
          BY <1>a, <4>1, <5>1, <5>2, <5>3, Put DEF DevOK
      <4>2. CASE d \notin Slots
        BY <1>a, <2>2, <4>2 DEF Tuned, Believed, DevOK
      <4>. QED
        BY <4>1, <4>2
    <3>4. HandleOK'
      <4>1. [handle[s] EXCEPT !.hz = spi.hz, !.mode = spi.mode] \in HandleRec
        BY <1>0, <1>a, <2>0, Fields
      <4>2. handle' = [handle EXCEPT ![s] = [handle[s] EXCEPT !.hz = spi.hz, !.mode = spi.mode]]
        BY <1>0, <1>a, <2>2 DEF Tuned, Believed
      <4>. QED
        BY <1>0, <1>a, <4>1, <4>2, Put DEF HandleOK
    <3>5. CASE Tuned(s, d, spi)
      <4>1. PICK m : m = dev[d].match
        OBVIOUS
      <4>2. ASSUME m \in Matches PROVE UsbOK'
        <5>1. [usb[m] EXCEPT !.clock = spi.hz, !.sel = {}] \in UsbRec
          BY <1>a, <2>0, <4>2, Fields
        <5>2. usb' = [usb EXCEPT ![m] = [usb[m] EXCEPT !.clock = spi.hz, !.sel = {}]]
          BY <1>a, <3>5, <4>1, <4>2 DEF Tuned
        <5>3. usb' \in [Matches -> UsbRec]
          BY <1>a, <4>2, <5>1, <5>2, Put
        <5>. QED
          BY <5>3 DEF UsbOK
      <4>3. ASSUME m \notin Matches PROVE UsbOK'
        <5>1. usb' = usb
          BY <1>a, <3>5, <4>1, <4>3 DEF Tuned
        <5>. QED
          BY <1>a, <5>1 DEF UsbOK
      <4>4. UsbOK'
        BY <4>2, <4>3
      <4>. QED
        BY <2>0, <3>1, <3>2, <3>3, <3>4, <4>4
    <3>6. CASE Believed(s, d, spi)
      <4>1. UsbOK'
        BY <3>6 DEF Believed, UsbOK
      <4>. QED
        BY <2>0, <3>1, <3>2, <3>3, <3>4, <4>1
    <3>. QED
      BY <2>2, <3>5, <3>6
  <2>3. CASE ~(Tuned(s, d, spi) \/ Believed(s, d, spi))
    <3>1. MainOK' /\ HandleOK' /\ UsbOK' /\ DevOK'
      BY <2>1, <2>3 DEF Unfit, GiveUp, Sensors, MainOK, HandleOK, UsbOK, DevOK
    <3>2. ToComeOK'
      BY <2>1, <2>3, FaultTyped DEF Unfit
    <3>. QED
      BY <2>0, <3>1, <3>2
  <2>. QED
    BY <2>2, <2>3
<1>2. CASE Close
  <2>0. WantOK' /\ LockOK' /\ XferOK' /\ ToComeOK'
    BY <1>2 DEF Close, WantOK, LockOK, XferOK, ToComeOK
  <2>1. MainOK'
    BY <1>0, <1>2 DEF Close, MainOK, Sensors
  <2>2. HandleOK'
    BY <1>0, <1>2, <1>a, RecordsTyped, Put DEF Close, HandleOK
  <2>3. UsbOK'
    <3>1. PICK m : m = dev[d].match
      OBVIOUS
    <3>2. ASSUME m \in Matches PROVE [Unplugged EXCEPT !.wrong = usb[m].wrong, !.fast = usb[m].fast] \in UsbRec
      <4>1. usb[m].wrong \in BOOLEAN /\ usb[m].fast \in BOOLEAN
        BY <1>a, <3>2 DEF UsbRec
      <4>2. \A u \in UsbRec, b \in BOOLEAN, c \in BOOLEAN : [u EXCEPT !.wrong = b, !.fast = c] \in UsbRec
        BY Zenon DEF UsbRec
      <4>. QED
        BY <4>1, <4>2, RecordsTyped
    <3>3. usb' = usb \/ usb' = [usb EXCEPT ![m] = [Unplugged EXCEPT !.wrong = usb[m].wrong, !.fast = usb[m].fast]]
      BY <1>2, <3>1 DEF Close, LetGo
    <3>4. CASE m \in Matches
      BY <1>a, <3>2, <3>3, <3>4, Put DEF UsbOK
    <3>5. CASE m \notin Matches
      BY <1>a, <3>3, <3>5 DEF UsbOK
    <3>. QED
      BY <3>4, <3>5
  <2>4. DevOK'
    <3>1. CASE ~(handle[s].used /\ d \in Slots)
      BY <1>2, <1>a, <3>1, RecordsTyped DEF Close, DevOK
    <3>2. CASE handle[s].used /\ d \in Slots
      <4>1. CASE dev[d].refs = 1
        BY <1>2, <1>a, <3>2, <4>1, RecordsTyped, Put DEF Close, DevOK
      <4>2. CASE dev[d].refs # 1
        <5>1. dev[d] \in DevRec
          BY <1>a, <3>2
        <5>2. dev[d].refs - 1 \in Nat
          <6>1. dev[d].refs \in Nat
            BY <5>1 DEF DevRec
          <6>2. UsedOn(s, d)
            BY <3>2 DEF UsedOn
          <6>3. dev[d].refs = One(UsedOn("imu", d)) + One(UsedOn("mag", d))
            BY <3>2 DEF RefsCount
          <6>4. One(UsedOn("imu", d)) \in {0, 1} /\ One(UsedOn("mag", d)) \in {0, 1} /\ One(UsedOn(s, d)) = 1
            BY <6>2 DEF One
          <6>. QED
            BY <1>0, <6>1, <6>3, <6>4 DEF Sensors
        <5>3. [dev[d] EXCEPT !.refs = dev[d].refs - 1] \in DevRec
          BY <5>1, <5>2, Fields
        <5>4. dev' = [dev EXCEPT ![d] = [dev[d] EXCEPT !.refs = dev[d].refs - 1]]
          BY <1>2, <1>a, <3>2, <4>2 DEF Close
        <5>. QED
          BY <1>a, <3>2, <5>3, <5>4, Put DEF DevOK
      <4>. QED
        BY <4>1, <4>2
    <3>. QED
      BY <3>1, <3>2
  <2>. QED
    BY <2>0, <2>1, <2>2, <2>3, <2>4
<1>3. CASE Stop \/ Joined
  <2>1. MainOK'
    BY <1>3 DEF Stop, Joined, MainOK, Sensors
  <2>2. WantOK' /\ DevOK' /\ HandleOK' /\ LockOK' /\ XferOK' /\ UsbOK' /\ ToComeOK'
    BY <1>3 DEF Stop, Joined, WantOK, DevOK, HandleOK, LockOK, XferOK, UsbOK, ToComeOK
  <2>. QED
    BY <2>1, <2>2
<1>. QED
  BY <1>1, <1>2, <1>3

LEMMA SequencesTyped ==
    /\ <<>> \in Seq(Nat \X Nat)
    /\ \A p, q \in Seq(Nat \X Nat) : p \o q \in Seq(Nat \X Nat)
    /\ \A p \in Seq(Nat \X Nat), e \in Nat \X Nat : Append(p, e) \in Seq(Nat \X Nat)
    /\ \A p \in Seq(Nat \X Nat), m \in Nat, n \in Nat : n <= Len(p) => SubSeq(p, m + 1, n) \in Seq(Nat \X Nat)
OBVIOUS

LEMMA XferFields ==
    ASSUME NEW x \in XferRec
    PROVE  /\ x.pc \in {"rest", "ask"} \cup Holding /\ x.kind \in {"read", "long", "write"} /\ x.cmds \in Cmds /\ x.owed \in Nat
           /\ x.got \in Seq(Nat \X Nat) /\ x.toDo \in 0 .. 2 /\ x.last \in BOOLEAN /\ x.rc \in {0, -1} /\ x.id \in Nat
           /\ x.cmds.reply \in Seq(Nat \X Nat) /\ x.cmds.retune \in BOOLEAN /\ x.cmds.select \in BOOLEAN
           /\ x.cmds.data \in BOOLEAN /\ x.cmds.release \in BOOLEAN
BY DEF XferRec, Cmds

LEMMA FlushTyped ==
    ASSUME NEW x \in XferRec
    PROVE  Broken(x) \in XferRec /\ Flushed(x) \in XferRec /\ Sent(x) \in XferRec
<1>1. ASSUME NEW y \in XferRec PROVE Broken(y) \in XferRec /\ Flushed(y) \in XferRec
  <2>1. [y EXCEPT !.pc = "end", !.rc = -1] \in XferRec
    BY <1>1, Zenon DEF XferRec, Holding
  <2>2. 0 \in 0 .. 2
    OBVIOUS
  <2>3. [y EXCEPT !.pc = "build", !.toDo = 0] \in XferRec
    BY <1>1, <2>2, Zenon DEF XferRec, Holding
  <2>4. [y EXCEPT !.pc = "end"] \in XferRec /\ [y EXCEPT !.pc = "build"] \in XferRec
    BY <1>1, Zenon DEF XferRec, Holding
  <2>. QED
    BY <2>1, <2>3, <2>4 DEF Broken, Flushed
<1>2. [x EXCEPT !.cmds = NoCmds, !.pc = "reply"] \in XferRec /\ [x EXCEPT !.cmds = NoCmds] \in XferRec
  BY RecordsTyped, Zenon DEF XferRec, Holding
<1>. QED
  BY <1>1, <1>2 DEF Sent

LEMMA TypingStep ==
    ASSUME UsbTyped, NEW s \in Sensors, NEW new \in XferRec, xfer' = [xfer EXCEPT ![s] = new]
    PROVE  XferOK'
BY DEF UsbTyped, XferOK

LEMMA TypingUpset == ASSUME DevOK, NEW s, Upset(s) PROVE DevOK'
<1> DEFINE d == handle[s].dev
<1>1. CASE d \in Slots
  <2>1. dev[d] \in DevRec
    BY <1>1 DEF DevOK
  <2>2. [dev[d] EXCEPT !.upset = TRUE] \in DevRec
    BY <2>1, Fields
  <2>3. dev' = [dev EXCEPT ![d] = [dev[d] EXCEPT !.upset = TRUE]]
    BY <1>1 DEF Upset, DevOK
  <2>. QED
    BY <2>2, <2>3 DEF DevOK
<1>2. CASE d \notin Slots
  BY <1>2 DEF Upset, DevOK
<1>. QED
  BY <1>1, <1>2

LEMMA TypingAsk == ASSUME UsbTyped, NEW s \in Sensors, Ask(s) PROVE UsbTyped'
<1> USE DEF UsbTyped
<1>1. PICK kind \in {"read", "long", "write"} :
          xfer' = [xfer EXCEPT ![s] = [Resting EXCEPT !.pc = "ask", !.kind = kind, !.toDo = Pieces(kind), !.id = toCome.transfers]]
  BY DEF Ask
<1>2. Pieces(kind) \in 0 .. 2 /\ toCome.transfers \in Nat
  BY DEF Pieces, ToComeOK
<1>3. [Resting EXCEPT !.pc = "ask", !.kind = kind, !.toDo = Pieces(kind), !.id = toCome.transfers] \in XferRec
  BY <1>2, RecordsTyped, Zenon DEF XferRec
<1>4. XferOK'
  BY <1>1, <1>3, TypingStep
<1>5. ToComeOK'
  BY DEF Ask, ToComeOK
<1>6. MainOK' /\ WantOK' /\ DevOK' /\ HandleOK' /\ LockOK' /\ UsbOK'
  BY DEF Ask, MainOK, WantOK, DevOK, HandleOK, LockOK, UsbOK
<1>. QED
  BY <1>4, <1>5, <1>6

LEMMA TagTyped == ASSUME UsbTyped, NEW s \in Sensors, NEW k \in Nat PROVE Tag(s, k) \in Nat \X Nat /\ xfer[s] \in XferRec
BY XferFields DEF UsbTyped, XferOK, Tag

LEMMA TypingBegin == ASSUME UsbTyped, NEW s \in Sensors, Begin(s) PROVE UsbTyped'
<1> USE DEF UsbTyped
<1> DEFINE cmds == IF IsI2C(s) THEN [NoCmds EXCEPT !.data = TRUE, !.reply = <<Tag(s, 0)>>]
                   ELSE [NoCmds EXCEPT !.retune = Retuned(s), !.select = TRUE]
           owed == IF IsI2C(s) THEN 1 ELSE 0
<1>1. xfer[s] \in XferRec /\ <<Tag(s, 0)>> \in Seq(Nat \X Nat)
  BY TagTyped
<1>2. Retuned(s) \in BOOLEAN
  BY DEF Retuned
<1>3. cmds \in Cmds
  <2>1. [NoCmds EXCEPT !.data = TRUE, !.reply = <<Tag(s, 0)>>] \in Cmds
    BY <1>1, RecordsTyped, Zenon DEF Cmds
  <2>2. [NoCmds EXCEPT !.retune = Retuned(s), !.select = TRUE] \in Cmds
    BY <1>2, RecordsTyped, Zenon DEF Cmds
  <2>. QED
    BY <2>1, <2>2
<1>4. owed \in Nat
  OBVIOUS
<1>5. xfer' = [xfer EXCEPT ![s] = [xfer[s] EXCEPT !.pc = "build", !.owed = owed, !.cmds = cmds]]
  BY DEF Begin, XferOK
<1> HIDE DEF cmds, owed
<1>6. [xfer[s] EXCEPT !.pc = "build", !.owed = owed, !.cmds = cmds] \in XferRec
  BY <1>1, <1>3, <1>4, Zenon DEF XferRec, Holding
<1>7. XferOK'
  BY <1>5, <1>6, TypingStep
<1>8. LockOK'
  BY DEF Begin, LockOK
<1>9. DevOK'
  <2> DEFINE d == handle[s].dev
  <2>1. handle[s].hz \in Nat
    BY Fields DEF HandleOK
  <2>2. dev' = dev \/ (d \in Slots /\ dev' = [dev EXCEPT ![d] = [dev[d] EXCEPT !.spiHz = handle[s].hz]])
    BY DEF Begin, DevOK
  <2>3. d \in Slots => [dev[d] EXCEPT !.spiHz = handle[s].hz] \in DevRec
    BY <2>1, Fields DEF DevOK
  <2>. QED
    BY <2>2, <2>3, Put DEF DevOK
<1>10. MainOK' /\ WantOK' /\ HandleOK' /\ UsbOK' /\ ToComeOK'
  BY DEF Begin, MainOK, WantOK, HandleOK, UsbOK, ToComeOK
<1>. QED
  BY <1>7, <1>8, <1>9, <1>10

LEMMA TypingBuild == ASSUME UsbTyped, NEW s \in Sensors, Build(s) PROVE UsbTyped'
<1> USE DEF UsbTyped
<1> DEFINE x == xfer[s]
           k == Pieces(x.kind) - x.toDo + 1
           reads == x.kind # "write"
           reply == IF reads THEN Append(x.cmds.reply, Tag(s, k)) ELSE x.cmds.reply
           owed == IF reads THEN x.owed + 1 ELSE x.owed
           last == [x EXCEPT !.cmds = [x.cmds EXCEPT !.release = TRUE], !.last = TRUE, !.pc = "write"]
           flush == [x EXCEPT !.pc = "write"]
           more == [x EXCEPT !.cmds = [x.cmds EXCEPT !.data = TRUE, !.reply = reply], !.toDo = x.toDo - 1, !.owed = owed]
<1>1. x \in XferRec
  BY DEF XferOK
<1>2. \/ x.toDo = 0 /\ xfer' = [xfer EXCEPT ![s] = last]
      \/ x.toDo # 0 /\ xfer' = [xfer EXCEPT ![s] = flush]
      \/ x.toDo # 0 /\ (~(k > 1) \/ x.cmds = NoCmds) /\ xfer' = [xfer EXCEPT ![s] = more]
  BY DEF Build
<1>3. last \in XferRec
  <2>1. [x.cmds EXCEPT !.release = TRUE] \in Cmds
    BY <1>1, XferFields, Zenon DEF Cmds
  <2>. QED
    BY <1>1, <2>1, Zenon DEF XferRec, Holding
<1>4. flush \in XferRec
  BY <1>1, Zenon DEF XferRec, Holding
<1>5. ASSUME x.toDo # 0, ~(k > 1) \/ x.cmds = NoCmds PROVE more \in XferRec
  <2>1. x.toDo \in 1 .. 2 /\ x.toDo - 1 \in 0 .. 2 /\ owed \in Nat
    BY <1>1, <1>5, XferFields
  <2>2. k \in Int
    BY <2>1 DEF Pieces
  <2>3. CASE k \in Nat
    <3>1. Tag(s, k) \in Nat \X Nat
      BY <2>3, TagTyped
    <3>2. reply \in Seq(Nat \X Nat)
      BY <1>1, <3>1, XferFields, SequencesTyped
    <3> HIDE DEF reply, owed
    <3>3. [x.cmds EXCEPT !.data = TRUE, !.reply = reply] \in Cmds
      BY <1>1, <3>2, XferFields, Zenon DEF Cmds
    <3>. QED
      BY <1>1, <2>1, <3>3, Zenon DEF XferRec, Holding
  <2>4. CASE k \notin Nat
    BY <1>1, <2>1, <2>2, <2>4 DEF Pieces
  <2>. QED
    BY <2>3, <2>4
<1> HIDE DEF last, flush, more
<1>6. XferOK'
  BY <1>2, <1>3, <1>4, <1>5, TypingStep
<1>7. MainOK' /\ WantOK' /\ DevOK' /\ HandleOK' /\ LockOK' /\ UsbOK' /\ ToComeOK'
  BY DEF Build, MainOK, WantOK, DevOK, HandleOK, LockOK, UsbOK, ToComeOK
<1>. QED
  BY <1>6, <1>7

LEMMA CarryTyped ==
    ASSUME UsbTyped, NEW s \in Sensors, NEW c \in Cmds, On(s).match \in Matches
    PROVE  Carry(s, c) \in UsbRec
<1> DEFINE u == usb[On(s).match]
           clock == IF c.retune THEN handle[s].hz ELSE u.clock
           sel == IF c.select THEN {handle[s].cs} ELSE u.sel
           spiData == c.data /\ ~IsI2C(s)
           kept == IF c.release THEN {} ELSE sel
           replies == u.replies \o c.reply
           wrong == u.wrong \/ (spiData /\ ~(sel \subseteq {handle[s].cs}))
           fast == u.fast \/ (spiData /\ clock > handle[s].hz)
<1>1. u \in UsbRec
  BY DEF UsbTyped, UsbOK
<1>2. handle[s].hz \in Nat /\ handle[s].cs \in Nat
  BY Fields DEF UsbTyped, HandleOK
<1>3. clock \in Nat /\ sel \in SUBSET Nat
  BY <1>1, <1>2 DEF UsbRec
<1>4. kept \in SUBSET Nat /\ wrong \in BOOLEAN /\ fast \in BOOLEAN
  BY <1>1, <1>3 DEF UsbRec
<1>5. replies \in Seq(Nat \X Nat)
  BY <1>1, SequencesTyped DEF UsbRec, Cmds
<1>6. Carry(s, c) = [u EXCEPT !.clock = clock, !.sel = kept, !.replies = replies, !.wrong = wrong, !.fast = fast]
  BY DEF Carry
<1> HIDE DEF u, clock, kept, replies, wrong, fast
<1>. QED
  BY <1>1, <1>3, <1>4, <1>5, <1>6, Zenon DEF UsbRec

LEMMA TypingWrite == ASSUME UsbTyped, NEW s \in Sensors, Write(s) PROVE UsbTyped'
<1> USE DEF UsbTyped
<1>1. xfer[s] \in XferRec /\ xfer[s].cmds \in Cmds
  BY XferFields DEF XferOK
<1>2. XferOK'
  <2>1. xfer' = [xfer EXCEPT ![s] = Sent(xfer[s])] \/ xfer' = [xfer EXCEPT ![s] = Broken(xfer[s])]
    BY DEF Write, WriteFine, WriteRefused, WriteLost, XferOK
  <2>. QED
    BY <1>1, <2>1, FlushTyped, TypingStep
<1>3. ToComeOK'
  BY FaultTyped DEF Write, WriteFine, WriteRefused, WriteLost
<1>4. DevOK'
  <2>1. UNCHANGED dev \/ Upset(s)
    BY DEF Write, WriteFine, WriteRefused, WriteLost
  <2>. QED
    BY <2>1, TypingUpset DEF DevOK
<1>5. UsbOK'
  <2>1. UNCHANGED usb \/ usb' = [usb EXCEPT ![On(s).match] = Carry(s, xfer[s].cmds)]
    BY DEF Write, WriteFine, WriteRefused, WriteLost
  <2>2. On(s).match \in Matches => Carry(s, xfer[s].cmds) \in UsbRec
    BY <1>1, CarryTyped
  <2>. QED
    BY <2>1, <2>2, Put DEF UsbOK
<1>6. MainOK' /\ WantOK' /\ HandleOK' /\ LockOK'
  BY DEF Write, MainOK, WantOK, HandleOK, LockOK
<1>. QED
  BY <1>2, <1>3, <1>4, <1>5, <1>6

LEMMA DropTyped == ASSUME UsbOK, NEW s, NEW n \in Nat, Drop(s, n) PROVE UsbOK'
<1> DEFINE m == On(s).match
<1>1. CASE m \in Matches
  <2>1. usb[m] \in UsbRec
    BY <1>1 DEF UsbOK
  <2>2. usb[m].replies \in Seq(Nat \X Nat) /\ Len(usb[m].replies) \in Nat
    BY <2>1 DEF UsbRec
  <2>3. SubSeq(usb[m].replies, n + 1, Len(usb[m].replies)) \in Seq(Nat \X Nat)
    BY <2>2, SequencesTyped
  <2>4. \A r \in Seq(Nat \X Nat) : [usb[m] EXCEPT !.replies = r] \in UsbRec
    BY <2>1, Zenon DEF UsbRec
  <2>5. usb' = [usb EXCEPT ![m] = [usb[m] EXCEPT !.replies = SubSeq(usb[m].replies, n + 1, Len(usb[m].replies))]]
    BY <1>1 DEF Drop, UsbOK
  <2>. QED
    BY <1>1, <2>3, <2>4, <2>5, Put DEF UsbOK
<1>2. CASE m \notin Matches
  BY <1>2 DEF Drop, UsbOK
<1>. QED
  BY <1>1, <1>2

LEMMA TypingReply == ASSUME UsbTyped, NEW s \in Sensors, On(s).match \in Matches, Reply(s) PROVE UsbTyped'
<1> USE DEF UsbTyped
<1> DEFINE x == xfer[s]
           got == x.got \o SubSeq(Replies(s), 1, x.owed)
<1>1. x \in XferRec /\ x.got \in Seq(Nat \X Nat) /\ x.owed \in Nat
  BY XferFields DEF XferOK
<1>2. Replies(s) \in Seq(Nat \X Nat)
  BY DEF Replies, UsbOK, UsbRec
<1>3. XferOK'
  <2>1. CASE Collect(s)
    <3>1. x.owed <= Len(Replies(s))
      BY <1>1, <1>2, <2>1 DEF Collect
    <3>2. got \in Seq(Nat \X Nat)
      BY <1>1, <1>2, <3>1
    <3>3. xfer' = [xfer EXCEPT ![s] = Flushed([x EXCEPT !.got = got, !.owed = 0])]
      BY <2>1 DEF Collect, XferOK
    <3> HIDE DEF got
    <3>4. [x EXCEPT !.got = got, !.owed = 0] \in XferRec
      <4>1. 0 \in Nat
        OBVIOUS
      <4>. QED
        BY <1>1, <3>2, <4>1, Zenon DEF XferRec
    <3>. QED
      BY <3>3, <3>4, FlushTyped, TypingStep
  <2>2. CASE TimeOut(s)
    <3>1. xfer' = [xfer EXCEPT ![s] = Broken(x)]
      BY <2>2 DEF TimeOut, XferOK
    <3>. QED
      BY <1>1, <3>1, FlushTyped, TypingStep
  <2>. QED
    BY <2>1, <2>2 DEF Reply
<1>4. ToComeOK'
  <2>1. Fine \/ Fault("late")
    BY DEF Reply, Collect, TimeOut
  <2>. QED
    BY <2>1, FaultTyped
<1>5. DevOK'
  <2>1. UNCHANGED dev \/ Upset(s)
    BY DEF Reply, Collect, TimeOut
  <2>. QED
    BY <2>1, TypingUpset DEF DevOK
<1>6. UsbOK'
  <2>1. \E n \in Nat : Drop(s, n)
    BY <1>1 DEF Reply, Collect, TimeOut
  <2>. QED
    BY <2>1, DropTyped
<1>7. MainOK' /\ WantOK' /\ HandleOK' /\ LockOK'
  BY DEF Reply, MainOK, WantOK, HandleOK, LockOK
<1>. QED
  BY <1>3, <1>4, <1>5, <1>6, <1>7

LEMMA TypingEnd == ASSUME UsbTyped, NEW s \in Sensors, End(s) PROVE UsbTyped'
<1> USE DEF UsbTyped
<1>1. xfer[s] \in XferRec
  BY DEF XferOK
<1>2. [xfer[s] EXCEPT !.pc = "rest"] \in XferRec /\ [xfer[s] EXCEPT !.pc = "rest", !.rc = -1] \in XferRec
  BY <1>1, Zenon DEF XferRec, Holding
<1>3. xfer' = [xfer EXCEPT ![s] = [xfer[s] EXCEPT !.pc = "rest"]] \/ xfer' = [xfer EXCEPT ![s] = [xfer[s] EXCEPT !.pc = "rest", !.rc = -1]]
  BY DEF End, XferOK
<1>4. XferOK'
  BY <1>2, <1>3, TypingStep
<1>5. LockOK'
  BY DEF End, LockOK
<1>6. MainOK' /\ WantOK' /\ DevOK' /\ HandleOK' /\ UsbOK' /\ ToComeOK'
  BY DEF End, MainOK, WantOK, DevOK, HandleOK, UsbOK, ToComeOK
<1>. QED
  BY <1>4, <1>5, <1>6

(* ------------------------- handles and bridges --------------------------- *)

LEMMA BridgesInit == BusInit => BridgesInv
<1> SUFFICES ASSUME BusInit PROVE BridgesInv
  OBVIOUS
<1>1. \A s \in Sensors : ~handle[s].used /\ xfer[s].pc = "rest"
  BY DEF BusInit, NoHandle, Resting
<1>2. \A d \in Slots : dev[d].refs = 0
  BY DEF BusInit, NoDev
<1>3. \A m \in Matches : usb[m].claimed = 0
  BY DEF BusInit, Unplugged
<1>4. HandlesOnBridges /\ RefsCount
  BY <1>1, <1>2 DEF HandlesOnBridges, RefsCount, UsedOn, One, Sensors
<1>5. OpenOnce /\ ClaimedAreOpen
  BY <1>2, <1>3 DEF OpenOnce, ClaimedAreOpen
<1>6. Place
  BY <1>1 DEF BusInit, Place, Sensors
<1>. QED
  BY <1>4, <1>5, <1>6 DEF BridgesInv

\* A reader that is not at rest has its handle.
LEMMA Serving ==
    ASSUME UsbTyped, BridgesInv, NEW s \in Sensors, xfer[s].pc # "rest" \/ main.pc \in {"run", "join"}
    PROVE  /\ main.pc \in {"run", "join"} /\ handle["imu"].used /\ handle["mag"].used /\ handle[s].used
           /\ handle[s].dev \in Slots /\ On(s).match \in Matches /\ On(s) \in DevRec /\ usb[On(s).match] \in UsbRec
<1>1. main.pc \in {"run", "join"} /\ handle["imu"].used /\ handle["mag"].used
  BY DEF BridgesInv, Place, Sensors
<1>2. handle[s].used
  BY <1>1 DEF Sensors
<1>3. handle[s].dev \in Slots /\ On(s).match = want[s].node.match
  BY <1>2 DEF BridgesInv, HandlesOnBridges
<1>4. On(s).match \in Matches
  BY <1>3, WantTyped DEF UsbTyped
<1>. QED
  BY <1>1, <1>2, <1>3, <1>4 DEF UsbTyped, DevOK, UsbOK, On

\* A step of a reader opens nothing, closes nothing and claims nothing.
LEMMA BridgesKept ==
    ASSUME BridgesInv, UNCHANGED <<want, main, handle>>,
           \A d \in Slots : dev'[d].refs = dev[d].refs /\ dev'[d].match = dev[d].match /\ dev'[d].proto = dev[d].proto,
           \A m \in Matches : usb'[m].claimed = usb[m].claimed,
           main.pc \notin {"run", "join"} => xfer' = xfer
    PROVE  BridgesInv'
<1>1. HandlesOnBridges'
  BY DEF BridgesInv, HandlesOnBridges, On
<1>2. RefsCount'
  BY DEF BridgesInv, RefsCount, UsedOn
<1>3. OpenOnce'
  BY DEF BridgesInv, OpenOnce
<1>4. ClaimedAreOpen'
  BY DEF BridgesInv, ClaimedAreOpen
<1>5. Place'
  BY DEF BridgesInv, Place, IsI2C
<1>. QED
  BY <1>1, <1>2, <1>3, <1>4, <1>5 DEF BridgesInv

LEMMA ReaderKeeps ==
    ASSUME UsbTyped, BridgesInv, NEW s \in Sensors, Transfer(s)
    PROVE  /\ UNCHANGED <<want, main, handle>>
           /\ \A d \in Slots : dev'[d].refs = dev[d].refs /\ dev'[d].match = dev[d].match /\ dev'[d].proto = dev[d].proto
                               /\ (dev[d].upset => dev'[d].upset)
           /\ \A m \in Matches : usb'[m].claimed = usb[m].claimed
           /\ main.pc \in {"run", "join"} /\ handle[s].used
<1>1. UNCHANGED <<want, main, handle>>
  BY DEF Transfer, Ask, Begin, Build, Write, Reply, End
<1>2. main.pc \in {"run", "join"} /\ handle[s].used
  <2>1. main.pc = "run" \/ xfer[s].pc # "rest"
    BY DEF Transfer, Ask, Begin, Build, Write, Reply, End
  <2>. QED
    BY <2>1, Serving
<1>3. \A d \in Slots : dev'[d].refs = dev[d].refs /\ dev'[d].match = dev[d].match /\ dev'[d].proto = dev[d].proto
                       /\ (dev[d].upset => dev'[d].upset)
  <2>1. \/ dev' = dev \/ dev' = [dev EXCEPT ![handle[s].dev].spiHz = handle[s].hz] \/ Upset(s)
    BY DEF Transfer, Ask, Begin, Build, Write, WriteFine, WriteRefused, WriteLost, Reply, Collect, TimeOut, End
  <2>2. dev \in [Slots -> DevRec]
    BY DEF UsbTyped, DevOK
  <2>3. \A r \in DevRec : /\ DOMAIN r = {"refs", "match", "proto", "hz", "spiHz", "mode", "upset"}
    BY DEF DevRec
  <2>. QED
    BY <2>1, <2>2, <2>3 DEF Upset
<1>4. \A m \in Matches : usb'[m].claimed = usb[m].claimed
  <2>0. usb \in [Matches -> UsbRec] /\ \A r \in UsbRec : DOMAIN r = {"claimed", "clock", "sel", "replies", "wrong", "fast"}
    BY DEF UsbTyped, UsbOK, UsbRec
  <2>1. ASSUME NEW c PROVE On(s).match \in Matches => Carry(s, c).claimed = usb[On(s).match].claimed
    BY <2>0 DEF Carry
  <2>2. \/ usb' = usb \/ usb' = [usb EXCEPT ![On(s).match] = Carry(s, xfer[s].cmds)] \/ \E n : Drop(s, n)
    BY DEF Transfer, Ask, Begin, Build, Write, WriteFine, WriteRefused, WriteLost, Reply, Collect, TimeOut, End
  <2>3. CASE usb' = usb \/ usb' = [usb EXCEPT ![On(s).match] = Carry(s, xfer[s].cmds)]
    BY <2>0, <2>1, <2>3
  <2>4. CASE \E n : Drop(s, n)
    BY <2>0, <2>4 DEF Drop
  <2>. QED
    BY <2>2, <2>3, <2>4
<1>. QED
  BY <1>1, <1>2, <1>3, <1>4

LEMMA BridgesReader == ASSUME UsbTyped, BridgesInv, NEW s \in Sensors, Transfer(s) PROVE BridgesInv'
<1>1. \A d \in Slots : dev'[d].refs = dev[d].refs /\ dev'[d].match = dev[d].match /\ dev'[d].proto = dev[d].proto
  BY ReaderKeeps
<1>. QED
  BY <1>1, ReaderKeeps, BridgesKept

LEMMA BridgesWaiting == ASSUME UsbTyped, BridgesInv, Stop \/ Joined \/ UNCHANGED busVars PROVE BridgesInv'
<1>1. HandlesOnBridges' /\ RefsCount' /\ OpenOnce' /\ ClaimedAreOpen'
  BY DEF Stop, Joined, busVars, BridgesInv, HandlesOnBridges, RefsCount, OpenOnce, ClaimedAreOpen, On, UsedOn
<1>2. Place'
  <2>1. CASE Stop
    <3>1. main.pc = "run" /\ main'.pc = "join" /\ UNCHANGED <<handle, xfer>>
      BY <2>1 DEF Stop, UsbTyped, MainOK
    <3>. QED
      BY <3>1 DEF BridgesInv, Place
  <2>2. CASE Joined
    BY <2>2 DEF Joined, Place, Sensors
  <2>3. CASE UNCHANGED busVars
    BY <2>3 DEF busVars, BridgesInv, Place, IsI2C
  <2>. QED
    BY <2>1, <2>2, <2>3
<1>. QED
  BY <1>1, <1>2 DEF BridgesInv

LEMMA BridgesUnfit == ASSUME UsbTyped, BridgesInv, main.pc \in {"open", "setup"}, Unfit, UNCHANGED <<want, lock, xfer>> PROVE BridgesInv'
<1>1. HandlesOnBridges' /\ RefsCount' /\ OpenOnce' /\ ClaimedAreOpen'
  BY DEF Unfit, BridgesInv, HandlesOnBridges, RefsCount, OpenOnce, ClaimedAreOpen, On, UsedOn
<1>2. Place'
  BY DEF Unfit, GiveUp, BridgesInv, Place
<1>. QED
  BY <1>1, <1>2 DEF BridgesInv

\* Main has the next sensor, or its SPI, to see to.
LEMMA PlaceOpened ==
    ASSUME UsbTyped, BridgesInv, main.pc = "open", NEW d \in Slots, Opened(main.at, d), UNCHANGED xfer
    PROVE  Place'
<1>1. main.at \in Sensors /\ handle \in [Sensors -> HandleRec]
  BY DEF UsbTyped, MainOK, HandleOK
<1>2. /\ handle'[main.at].used /\ handle'[main.at].cs = Asked.cs
      /\ \A s \in Sensors : s # main.at => handle'[s] = handle[s]
  BY <1>1 DEF Opened, NoHandle
<1>3. \/ Asked.cs = I2C /\ main' = After(main.at)
      \/ Asked.cs # I2C /\ main' = [main EXCEPT !.pc = "setup"]
  BY DEF Opened
<1>4. xfer["imu"].pc = "rest" /\ xfer["mag"].pc = "rest"
  BY DEF BridgesInv, Place
<1>5. CASE main.at = "imu"
  <2>1. ~handle["mag"].used
    BY <1>5 DEF BridgesInv, Place
  <2>2. \/ main'.pc = "open" /\ main'.at = "mag"
        \/ main'.pc = "setup" /\ main'.at = "imu" /\ Asked.cs # I2C
    BY <1>3, <1>5 DEF After, UsbTyped, MainOK
  <2>. QED
    BY <1>2, <1>4, <1>5, <2>1, <2>2 DEF Place, IsI2C, Sensors
<1>6. CASE main.at = "mag"
  <2>1. handle["imu"].used
    BY <1>6 DEF BridgesInv, Place
  <2>2. \/ main'.pc = "run" /\ main'.at = "mag"
        \/ main'.pc = "setup" /\ main'.at = "mag" /\ Asked.cs # I2C
    BY <1>3, <1>6 DEF After, UsbTyped, MainOK
  <2>. QED
    BY <1>2, <1>4, <1>6, <2>1, <2>2 DEF Place, IsI2C, Sensors
<1>. QED
  BY <1>1, <1>5, <1>6 DEF Sensors

\* A sensor gets its handle, on a bridge that now has one more.
LEMMA HandleGiven ==
    ASSUME UsbTyped, BridgesInv, main.pc = "open", NEW d \in Slots, Opened(main.at, d), UNCHANGED want,
           \A e \in Slots : e # d => dev'[e] = dev[e],
           dev'[d].refs = dev[d].refs + 1, dev'[d].match = Asked.match, dev'[d].proto = Proto(Asked),
           dev[d].refs = 0 \/ (dev[d].match = Asked.match /\ dev[d].proto = Proto(Asked))
    PROVE  HandlesOnBridges' /\ RefsCount'
<1>0. PICK o : o = main.at
  OBVIOUS
<1>1. o \in Sensors /\ handle \in [Sensors -> HandleRec] /\ dev \in [Slots -> DevRec]
  BY <1>0 DEF UsbTyped, MainOK, HandleOK, DevOK
<1>2. /\ handle'[o].used /\ handle'[o].cs = Asked.cs /\ handle'[o].dev = d
      /\ \A s \in Sensors : s # o => handle'[s] = handle[s]
  BY <1>0, <1>1 DEF Opened, NoHandle
<1>3. ~handle[o].used
  BY <1>0, <1>1 DEF BridgesInv, Place, Sensors
<1>4. \A e \in Slots : dev[e].refs \in Nat
  BY <1>1, Fields
<1>5. HandlesOnBridges'
  <2> SUFFICES ASSUME NEW s \in Sensors, handle'[s].used
               PROVE  /\ handle'[s].dev \in Slots
                      /\ On(s)'.match = want[s].node.match /\ On(s)'.proto = Proto(want[s].node) /\ handle'[s].cs = want[s].node.cs
    BY DEF HandlesOnBridges
  <2>1. CASE s = o
    BY <1>0, <1>2, <2>1 DEF On, Asked
  <2>2. CASE s # o
    <3>1. handle[s].used /\ handle'[s] = handle[s]
      BY <1>2, <2>2
    <3>2. /\ handle[s].dev \in Slots
          /\ On(s).match = want[s].node.match /\ On(s).proto = Proto(want[s].node) /\ handle[s].cs = want[s].node.cs
      BY <3>1 DEF BridgesInv, HandlesOnBridges
    <3>3. dev[handle[s].dev].refs > 0
      <4>1. UsedOn(s, handle[s].dev)
        BY <3>1 DEF UsedOn
      <4>. QED
        BY <3>2, <4>1 DEF BridgesInv, RefsCount, One, Sensors
    <3>4. CASE handle[s].dev = d
      BY <3>1, <3>2, <3>3, <3>4 DEF On
    <3>5. CASE handle[s].dev # d
      BY <3>1, <3>2, <3>5 DEF On
    <3>. QED
      BY <3>4, <3>5
  <2>. QED
    BY <2>1, <2>2
<1>6. RefsCount'
  <2> SUFFICES ASSUME NEW e \in Slots PROVE dev'[e].refs = One(UsedOn("imu", e)') + One(UsedOn("mag", e)')
    BY DEF RefsCount, One, UsedOn
  <2>1. dev[e].refs = One(UsedOn("imu", e)) + One(UsedOn("mag", e))
    BY DEF BridgesInv, RefsCount
  <2>2. One(UsedOn(o, e)) = 0
    BY <1>3 DEF UsedOn, One
  <2>3. One(UsedOn(o, e)') = One(e = d)
    <3>1. UsedOn(o, e)' <=> e = d
      BY <1>2, Zenon DEF UsedOn
    <3>. QED
      BY <3>1 DEF One
  <2>4. \A s \in Sensors : s # o => One(UsedOn(s, e)') = One(UsedOn(s, e))
    BY <1>2, Zenon DEF UsedOn
  <2>5. dev'[e].refs = dev[e].refs + One(e = d)
    BY <1>4 DEF One
  <2>6. \A b : One(b) \in {0, 1}
    BY DEF One
  <2>7. CASE o = "imu"
    <3>1. One(UsedOn("mag", e)') = One(UsedOn("mag", e))
      BY <2>4, <2>7 DEF Sensors
    <3>. QED
      BY <1>4, <2>1, <2>2, <2>3, <2>5, <2>6, <2>7, <3>1
  <2>8. CASE o = "mag"
    <3>1. One(UsedOn("imu", e)') = One(UsedOn("imu", e))
      BY <2>4, <2>8 DEF Sensors
    <3>. QED
      BY <1>4, <2>1, <2>2, <2>3, <2>5, <2>6, <2>8, <3>1
  <2>. QED
    BY <1>1, <2>7, <2>8 DEF Sensors
<1>. QED
  BY <1>5, <1>6

LEMMA BridgesShare ==
    ASSUME UsbTyped, BridgesInv, main.pc = "open", NEW d \in Slots, d \in Named(Asked), Share(d), UNCHANGED <<want, lock, xfer>>
    PROVE  BridgesInv'
<1>1. dev \in [Slots -> DevRec] /\ dev[d] \in DevRec
  BY DEF UsbTyped, DevOK
<1>2. dev[d].refs > 0 /\ dev[d].match = Asked.match /\ dev[d].proto = Proto(Asked)
  BY DEF Named, Share, Agrees
<1>3. /\ \A e \in Slots : e # d => dev'[e] = dev[e]
      /\ dev'[d].refs = dev[d].refs + 1 /\ dev'[d].match = dev[d].match /\ dev'[d].proto = dev[d].proto
  BY <1>1 DEF Share, DevRec
<1>4. Opened(main.at, d) /\ usb' = usb /\ \A e \in Slots : dev[e].refs \in Nat
  BY <1>1, Fields DEF Share
<1>5. HandlesOnBridges' /\ RefsCount'
  BY <1>2, <1>3, <1>4, HandleGiven
<1>6. Place'
  BY <1>4, PlaceOpened
<1>7. \A e \in Slots : (dev'[e].refs > 0 <=> dev[e].refs > 0) /\ dev'[e].match = dev[e].match
  BY <1>2, <1>3, <1>4
<1>8. OpenOnce' /\ ClaimedAreOpen'
  BY <1>4, <1>7 DEF BridgesInv, OpenOnce, ClaimedAreOpen
<1>. QED
  BY <1>5, <1>6, <1>8 DEF BridgesInv

LEMMA BridgesTakeOver ==
    ASSUME UsbTyped, BridgesInv, main.pc = "open", NEW d \in Slots, Named(Asked) = {}, dev[d].refs = 0, TakeOver(d),
           UNCHANGED <<want, lock, xfer>>
    PROVE  BridgesInv'
<1>0. PICK m : m = Asked.match
  OBVIOUS
<1>1. dev \in [Slots -> DevRec] /\ usb \in [Matches -> UsbRec] /\ m \in Matches
  BY <1>0, AskedTyped DEF UsbTyped, DevOK, UsbOK
<1>2. /\ \A e \in Slots : e # d => dev'[e] = dev[e]
      /\ dev'[d].refs = 1 /\ dev'[d].match = m /\ dev'[d].proto = Proto(Asked)
  BY <1>0, <1>1 DEF TakeOver, New, NoDev
<1>3. Opened(main.at, d) /\ \A e \in Slots : dev[e].refs \in Nat
  BY <1>1, Fields DEF TakeOver
<1>4. HandlesOnBridges' /\ RefsCount'
  BY <1>0, <1>2, <1>3, HandleGiven
<1>5. Place'
  BY <1>3, PlaceOpened
<1>6. \A e \in Slots : dev[e].refs > 0 => dev[e].match # m
  BY <1>0, <1>3 DEF Named
<1>7. OpenOnce'
  BY <1>2, <1>6 DEF BridgesInv, OpenOnce
<1>8. usb'[m].claimed = 1 /\ \A n \in Matches : n # m => usb'[n] = usb[n]
  <2>1. usb' = [usb EXCEPT ![m] = Configured(Claimed(usb[m]), Asked)]
    BY <1>0, <1>1 DEF TakeOver
  <2>2. Configured(Claimed(usb[m]), Asked).claimed = 1
    BY <1>1 DEF Configured, Claimed, UsbRec
  <2>. QED
    BY <1>1, <2>1, <2>2
<1>9. ClaimedAreOpen'
  <2> SUFFICES ASSUME NEW n \in Matches PROVE (usb'[n].claimed = 1) <=> \E e \in Slots : dev'[e].refs > 0 /\ dev'[e].match = n
    BY DEF ClaimedAreOpen
  <2>1. CASE n = m
    BY <1>2, <1>8, <2>1
  <2>2. CASE n # m
    <3>1. (usb[n].claimed = 1) <=> \E e \in Slots : dev[e].refs > 0 /\ dev[e].match = n
      BY DEF BridgesInv, ClaimedAreOpen
    <3>. QED
      BY <1>2, <1>8, <2>2, <3>1
  <2>. QED
    BY <2>1, <2>2
<1>. QED
  BY <1>4, <1>5, <1>7, <1>9 DEF BridgesInv

LEMMA BridgesUntaken ==
    ASSUME UsbTyped, BridgesInv, main.pc = "open", NEW d \in Slots, dev[d].refs = 0, Untaken(d), UNCHANGED <<want, lock, xfer>>
    PROVE  BridgesInv'
<1>1. dev \in [Slots -> DevRec] /\ handle' = handle /\ usb' = usb /\ main' = GiveUp
  BY DEF UsbTyped, DevOK, Untaken
<1>2. (\A e \in Slots : e # d => dev'[e] = dev[e]) /\ dev'[d].refs = 0
  BY <1>1 DEF Untaken, New, NoDev
<1>3. \A s \in Sensors : handle[s].used => handle[s].dev \in Slots /\ handle[s].dev # d
  <2> SUFFICES ASSUME NEW s \in Sensors, handle[s].used, handle[s].dev = d PROVE FALSE
    BY DEF BridgesInv, HandlesOnBridges
  <2>1. UsedOn(s, d)
    BY DEF UsedOn
  <2>. QED
    BY <2>1 DEF BridgesInv, RefsCount, One, Sensors
<1>4. HandlesOnBridges'
  BY <1>1, <1>2, <1>3 DEF BridgesInv, HandlesOnBridges, On
<1>5. RefsCount'
  <2>1. \A s \in Sensors, e \in Slots : UsedOn(s, e)' <=> UsedOn(s, e)
    BY <1>1 DEF UsedOn
  <2>2. \A e \in Slots : dev'[e].refs = dev[e].refs
    BY <1>2
  <2>. QED
    BY <1>1, <2>2 DEF BridgesInv, RefsCount, UsedOn
<1>6. OpenOnce' /\ ClaimedAreOpen'
  BY <1>1, <1>2 DEF BridgesInv, OpenOnce, ClaimedAreOpen
<1>7. Place'
  BY <1>1 DEF GiveUp, BridgesInv, Place
<1>. QED
  BY <1>4, <1>5, <1>6, <1>7 DEF BridgesInv

LEMMA BridgesOpen == ASSUME UsbTyped, BridgesInv, Open PROVE BridgesInv'
BY OpenCases, BridgesShare, BridgesTakeOver, BridgesUntaken, BridgesUnfit

LEMMA BridgesSetup == ASSUME UsbTyped, BridgesInv, Setup PROVE BridgesInv'
<1>0. PICK s : s = main.at
  OBVIOUS
<1> DEFINE d == handle[s].dev
           spi == want[s].spi
<1>1. UNCHANGED <<want, lock, xfer>> /\ main.pc = "setup" /\ s \in Sensors
  BY <1>0 DEF Setup, UsbTyped, MainOK
<1>2. Tuned(s, d, spi) \/ Believed(s, d, spi) \/ Unfit \/ (main' = GiveUp /\ UNCHANGED <<dev, handle, usb>>)
  BY <1>0 DEF Setup
<1>3. CASE Tuned(s, d, spi) \/ Believed(s, d, spi)
  <2>1. \A e \in Slots : dev'[e].refs = dev[e].refs /\ dev'[e].match = dev[e].match /\ dev'[e].proto = dev[e].proto
    <3>1. dev \in [Slots -> DevRec] /\ \A r \in DevRec : DOMAIN r = {"refs", "match", "proto", "hz", "spiHz", "mode", "upset"}
      BY DEF UsbTyped, DevOK, DevRec
    <3>2. CASE Tuned(s, d, spi)
      BY <3>1, <3>2 DEF Tuned
    <3>3. CASE Believed(s, d, spi)
      BY <3>1, <3>3, SMTT(30) DEF Believed
    <3>. QED
      BY <1>3, <3>2, <3>3
  <2>2. \A t \in Sensors : handle'[t].used = handle[t].used /\ handle'[t].dev = handle[t].dev /\ handle'[t].cs = handle[t].cs
    <3>1. handle \in [Sensors -> HandleRec] /\ \A r \in HandleRec : DOMAIN r = {"used", "dev", "cs", "mode", "hz"}
      BY DEF UsbTyped, HandleOK, HandleRec
    <3>2. CASE Tuned(s, d, spi)
      BY <3>1, <3>2 DEF Tuned
    <3>3. CASE Believed(s, d, spi)
      BY <3>1, <3>3, SMTT(30) DEF Believed
    <3>. QED
      BY <1>3, <3>2, <3>3
  <2>3. \A m \in Matches : usb'[m].claimed = usb[m].claimed
    <3>1. usb \in [Matches -> UsbRec] /\ \A r \in UsbRec : DOMAIN r = {"claimed", "clock", "sel", "replies", "wrong", "fast"}
      BY DEF UsbTyped, UsbOK, UsbRec
    <3>2. CASE Tuned(s, d, spi)
      BY <3>1, <3>2 DEF Tuned
    <3>3. CASE Believed(s, d, spi)
      BY <3>1, <3>3, SMTT(30) DEF Believed
    <3>. QED
      BY <1>3, <3>2, <3>3
  <2>4. HandlesOnBridges'
    BY <1>1, <2>1, <2>2 DEF BridgesInv, HandlesOnBridges, On
  <2>5. RefsCount'
    BY <2>1, <2>2 DEF BridgesInv, RefsCount, UsedOn, Sensors
  <2>6. OpenOnce' /\ ClaimedAreOpen'
    BY <2>1, <2>3 DEF BridgesInv, OpenOnce, ClaimedAreOpen
  <2>7. Place'
    <3>1. main' = After(s)
      BY <1>3 DEF Tuned, Believed
    <3>2. handle[s].used /\ (s = "mag" => handle["imu"].used) /\ (s = "imu" => ~handle["mag"].used)
          /\ xfer["imu"].pc = "rest" /\ xfer["mag"].pc = "rest"
      BY <1>0, <1>1 DEF BridgesInv, Place
    <3>3. CASE s = "imu"
      BY <1>1, <2>2, <3>1, <3>2, <3>3 DEF After, Place, Sensors
    <3>4. CASE s = "mag"
      BY <1>1, <2>2, <3>1, <3>2, <3>4 DEF After, Place, Sensors
    <3>. QED
      BY <1>1, <3>3, <3>4 DEF Sensors
  <2>. QED
    BY <2>4, <2>5, <2>6, <2>7 DEF BridgesInv
<1>4. CASE Unfit
  BY <1>1, <1>4, BridgesUnfit
<1>5. CASE main' = GiveUp /\ UNCHANGED <<dev, handle, usb>>
  <2>1. HandlesOnBridges' /\ RefsCount' /\ OpenOnce' /\ ClaimedAreOpen'
    BY <1>1, <1>5 DEF BridgesInv, HandlesOnBridges, RefsCount, OpenOnce, ClaimedAreOpen, On, UsedOn
  <2>2. Place'
    BY <1>1, <1>5 DEF GiveUp, BridgesInv, Place
  <2>. QED
    BY <2>1, <2>2 DEF BridgesInv
<1>. QED
  BY <1>2, <1>3, <1>4, <1>5

LEMMA BridgesClose == ASSUME UsbTyped, BridgesInv, Close PROVE BridgesInv'
<1>0. PICK s : s = main.at
  OBVIOUS
<1>1. PICK d : d = handle[s].dev
  OBVIOUS
<1>2. s \in Sensors /\ handle \in [Sensors -> HandleRec] /\ dev \in [Slots -> DevRec] /\ usb \in [Matches -> UsbRec]
  BY <1>0 DEF UsbTyped, MainOK, HandleOK, DevOK, UsbOK
<1>3. /\ main.pc = "close" /\ UNCHANGED <<want, xfer>>
      /\ main' = IF s = "imu" THEN [main EXCEPT !.at = "mag"] ELSE [main EXCEPT !.pc = "done"]
  BY <1>0 DEF Close
<1>4. ~handle'[s].used /\ \A t \in Sensors : t # s => handle'[t] = handle[t]
  BY <1>0, <1>2 DEF Close, NoHandle
<1>5. Place'
  <2>1. xfer["imu"].pc = "rest" /\ xfer["mag"].pc = "rest" /\ (s = "mag" => ~handle["imu"].used)
    BY <1>0, <1>3 DEF BridgesInv, Place
  <2>2. CASE s = "imu"
    <3>1. main'.pc = "close" /\ main'.at = "mag" /\ ~handle'["imu"].used
      BY <1>3, <1>4, <2>2 DEF UsbTyped, MainOK
    <3>. QED
      BY <1>3, <2>1, <3>1 DEF Place
  <2>3. CASE s = "mag"
    <3>1. main'.pc = "done" /\ ~handle'["imu"].used /\ ~handle'["mag"].used
      BY <1>3, <1>4, <2>1, <2>3 DEF UsbTyped, MainOK, Sensors
    <3>. QED
      BY <1>3, <2>1, <3>1 DEF Place
  <2>. QED
    BY <1>2, <2>2, <2>3 DEF Sensors
<1>6. \A t \in Sensors, e \in Slots : IF t = s THEN ~UsedOn(t, e)' ELSE UsedOn(t, e)' <=> UsedOn(t, e)
  <2> SUFFICES ASSUME NEW t \in Sensors, NEW e \in Slots
               PROVE  IF t = s THEN ~UsedOn(t, e)' ELSE UsedOn(t, e)' <=> UsedOn(t, e)
    OBVIOUS
  <2>1. CASE t = s
    BY <1>4, <2>1 DEF UsedOn
  <2>2. CASE t # s
    <3>1. handle'[t] = handle[t]
      BY <1>4, <2>2
    <3>. QED
      BY <2>2, <3>1 DEF UsedOn
  <2>. QED
    BY <2>1, <2>2
<1>7. CASE ~handle[s].used
  <2>1. dev' = dev /\ usb' = usb
    BY <1>0, <1>7 DEF Close
  <2>2. HandlesOnBridges'
    BY <1>3, <1>4, <2>1 DEF BridgesInv, HandlesOnBridges, On
  <2>3. RefsCount'
    <3>1. \A t \in Sensors, e \in Slots : One(UsedOn(t, e)') = One(UsedOn(t, e))
      BY <1>6, <1>7 DEF UsedOn, One
    <3>2. \A e \in Slots : dev[e].refs = One(UsedOn("imu", e)) + One(UsedOn("mag", e))
      BY DEF BridgesInv, RefsCount
    <3>3. \A e \in Slots : dev'[e].refs = One(UsedOn("imu", e)') + One(UsedOn("mag", e)')
      BY <2>1, <3>1, <3>2 DEF Sensors
    <3>. QED
      BY <3>3 DEF RefsCount, UsedOn
  <2>4. OpenOnce' /\ ClaimedAreOpen'
    BY <2>1 DEF BridgesInv, OpenOnce, ClaimedAreOpen
  <2>. QED
    BY <1>5, <2>2, <2>3, <2>4 DEF BridgesInv
<1>8. CASE handle[s].used
  <2>0. PICK o \in Sensors : o # s /\ \A t \in Sensors : t \in {o, s}
    BY <1>2 DEF Sensors
  <2>1. d \in Slots /\ dev[d] \in DevRec
    BY <1>1, <1>2, <1>8 DEF BridgesInv, HandlesOnBridges
  <2>2. \A e \in Slots : dev[e].refs = One(UsedOn(s, e)) + One(UsedOn(o, e))
    <3>1. \A e \in Slots : dev[e].refs = One(UsedOn("imu", e)) + One(UsedOn("mag", e))
      BY DEF BridgesInv, RefsCount
    <3>2. (s = "imu" /\ o = "mag") \/ (s = "mag" /\ o = "imu")
      BY <1>2, <2>0 DEF Sensors
    <3>3. \A e : One(UsedOn("imu", e)) \in Int /\ One(UsedOn("mag", e)) \in Int
      BY DEF One
    <3>. QED
      BY <3>1, <3>2, <3>3
  <2>3. \A e \in Slots : One(UsedOn(s, e)) = One(e = d)
    BY <1>1, <1>8 DEF UsedOn
  <2>4. \A e \in Slots : /\ dev'[e].refs = One(UsedOn(o, e))
                        /\ (dev'[e].refs > 0 => (dev'[e].match = dev[e].match /\ dev'[e].proto = dev[e].proto))
                        /\ (e # d => dev'[e] = dev[e])
    <3>1. CASE dev[d].refs = 1
      <4>1. dev' = [dev EXCEPT ![d] = NoDev]
        BY <1>0, <1>1, <1>8, <3>1 DEF Close
      <4>2. One(UsedOn(o, d)) = 0
        BY <2>1, <2>2, <2>3, <3>1 DEF One
      <4>3. \A e \in Slots : e # d => dev'[e] = dev[e] /\ dev[e].refs = One(UsedOn(o, e))
        BY <1>2, <2>2, <2>3, <4>1 DEF One
      <4>4. dev'[d].refs = 0
        BY <1>2, <2>1, <4>1 DEF NoDev
      <4>. QED
        BY <4>2, <4>3, <4>4
    <3>2. CASE dev[d].refs # 1
      <4>1. dev' = [dev EXCEPT ![d].refs = @ - 1]
        BY <1>0, <1>1, <1>8, <3>2 DEF Close
      <4>2. One(UsedOn(s, d)) = 1 /\ One(UsedOn(o, d)) \in {0, 1}
        BY <1>1, <1>8 DEF One, UsedOn
      <4>3. dev[d].refs - 1 = One(UsedOn(o, d))
        BY <2>1, <2>2, <4>2
      <4>4. \A e \in Slots : e # d => dev'[e] = dev[e] /\ dev[e].refs = One(UsedOn(o, e))
        BY <1>2, <2>2, <2>3, <4>1 DEF One
      <4>5. dev'[d].refs = dev[d].refs - 1 /\ dev'[d].match = dev[d].match /\ dev'[d].proto = dev[d].proto
        BY <1>2, <2>1, <4>1 DEF DevRec
      <4>. QED
        BY <4>3, <4>4, <4>5
    <3>. QED
      BY <3>1, <3>2
  <2>5. One(UsedOn(o, d)) \in {0, 1} /\ dev[d].refs = 1 + One(UsedOn(o, d))
    <3>1. One(UsedOn(s, d)) = 1 /\ One(UsedOn(o, d)) \in {0, 1}
      BY <1>1, <1>8 DEF One, UsedOn
    <3>. QED
      BY <2>1, <2>2, <3>1
  <2>6. HandlesOnBridges'
    <3> SUFFICES ASSUME NEW t \in Sensors, handle'[t].used
                 PROVE  /\ handle'[t].dev \in Slots
                        /\ On(t)'.match = want[t].node.match /\ On(t)'.proto = Proto(want[t].node) /\ handle'[t].cs = want[t].node.cs
      BY <1>3 DEF HandlesOnBridges
    <3>1. t = o /\ handle'[o] = handle[o] /\ handle[o].used
      BY <1>4, <2>0
    <3>2. /\ handle[o].dev \in Slots
          /\ On(o).match = want[o].node.match /\ On(o).proto = Proto(want[o].node) /\ handle[o].cs = want[o].node.cs
      BY <3>1 DEF BridgesInv, HandlesOnBridges
    <3>3. dev'[handle[o].dev].refs > 0
      BY <2>4, <3>1, <3>2 DEF UsedOn, One
    <3>. QED
      BY <2>4, <3>1, <3>2, <3>3 DEF On
  <2>7. RefsCount'
    <3>1. \A e \in Slots : One(UsedOn(s, e)') = 0 /\ One(UsedOn(o, e)') = One(UsedOn(o, e)) /\ One(UsedOn(o, e)) \in Int
      BY <1>2, <1>6, <2>0 DEF One
    <3>2. \A e \in Slots : dev'[e].refs = One(UsedOn(s, e)') + One(UsedOn(o, e)')
      BY <2>4, <3>1
    <3>3. (s = "imu" /\ o = "mag") \/ (s = "mag" /\ o = "imu")
      BY <1>2, <2>0 DEF Sensors
    <3>4. \A e \in Slots : dev'[e].refs = One(UsedOn("imu", e)') + One(UsedOn("mag", e)')
      BY <3>1, <3>2, <3>3
    <3>. QED
      BY <3>4 DEF RefsCount, UsedOn
  <2>8. \A e \in Slots : dev'[e].refs > 0 => dev[e].refs > 0
    <3>1. \A e \in Slots : One(UsedOn(o, e)) \in {0, 1} /\ One(UsedOn(s, e)) \in {0, 1}
      BY DEF One
    <3>. QED
      BY <2>2, <2>4, <3>1
  <2>9. OpenOnce'
    BY <2>4, <2>8 DEF BridgesInv, OpenOnce
  <2>10. ClaimedAreOpen'
    <3> SUFFICES ASSUME NEW m \in Matches PROVE (usb'[m].claimed = 1) <=> \E e \in Slots : dev'[e].refs > 0 /\ dev'[e].match = m
      BY DEF ClaimedAreOpen
    <3>0. (usb[m].claimed = 1) <=> \E e \in Slots : dev[e].refs > 0 /\ dev[e].match = m
      BY DEF BridgesInv, ClaimedAreOpen
    <3>1. CASE dev[d].refs = 1
      <4>1. usb' = [usb EXCEPT ![dev[d].match] = [Unplugged EXCEPT !.wrong = usb[dev[d].match].wrong, !.fast = usb[dev[d].match].fast]]
        BY <1>0, <1>1, <1>8, <3>1 DEF Close, LetGo
      <4>2. CASE m = dev[d].match
        <5>1. usb'[m].claimed = 0
          BY <1>2, <4>1, <4>2 DEF Unplugged
        <5>2. \A e \in Slots : dev'[e].refs > 0 => dev'[e].match # m
          BY <2>1, <2>4, <2>5, <2>8, <3>1, <4>2 DEF BridgesInv, OpenOnce
        <5>. QED
          BY <5>1, <5>2
      <4>3. CASE m # dev[d].match
        <5>1. usb'[m] = usb[m]
          BY <1>2, <4>1, <4>3
        <5>. QED
          BY <2>4, <2>8, <3>0, <4>3, <5>1
      <4>. QED
        BY <4>2, <4>3
    <3>2. CASE dev[d].refs # 1
      <4>1. usb' = usb
        BY <1>0, <1>1, <1>8, <3>2 DEF Close
      <4>2. \A e \in Slots : (dev'[e].refs > 0 <=> dev[e].refs > 0)
        BY <2>1, <2>4, <2>5, <2>8, <3>2
      <4>. QED
        BY <2>4, <3>0, <4>1, <4>2
    <3>. QED
      BY <3>1, <3>2
  <2>. QED
    BY <1>5, <2>6, <2>7, <2>9, <2>10 DEF BridgesInv
<1>. QED
  BY <1>7, <1>8

\* A step of the program is one of these.
LEMMA BusSteps ==
    ASSUME [BusNext]_busVars
    PROVE  Open \/ Setup \/ Close \/ Stop \/ Joined \/ (\E s \in Sensors : Transfer(s)) \/ UNCHANGED busVars
BY DEF BusNext, MainStep, Finished

LEMMA BridgesNext == UsbTyped /\ BridgesInv /\ [BusNext]_busVars => UsbTyped' /\ BridgesInv'
<1> SUFFICES ASSUME UsbTyped, BridgesInv, [BusNext]_busVars PROVE UsbTyped' /\ BridgesInv'
  OBVIOUS
<1>1. CASE Open
  BY <1>1, TypingOpen, BridgesOpen
<1>2. CASE Setup
  BY <1>2, TypingMain, BridgesSetup DEF BridgesInv
<1>3. CASE Close
  BY <1>3, TypingMain, BridgesClose DEF BridgesInv
<1>4. CASE Stop \/ Joined
  BY <1>4, TypingMain, BridgesWaiting DEF BridgesInv
<1>5. ASSUME NEW s \in Sensors, Transfer(s) PROVE UsbTyped' /\ BridgesInv'
  <2>1. BridgesInv'
    BY <1>5, BridgesReader
  <2>2. CASE Reply(s)
    <3>1. On(s).match \in Matches
      BY <2>2, Serving DEF Reply
    <3>. QED
      BY <2>1, <2>2, <3>1, TypingReply
  <2>3. CASE ~Reply(s)
    BY <1>5, <2>1, <2>3, TypingAsk, TypingBegin, TypingBuild, TypingWrite, TypingEnd DEF Transfer
  <2>. QED
    BY <2>2, <2>3
<1>6. CASE UNCHANGED busVars
  <2>1. UsbTyped'
    BY <1>6 DEF busVars, UsbTyped, MainOK, WantOK, DevOK, HandleOK, LockOK, XferOK, UsbOK, ToComeOK
  <2>. QED
    BY <1>6, <2>1, BridgesWaiting
<1>. QED
  BY <1>1, <1>2, <1>3, <1>4, <1>5, <1>6, BusSteps

LEMMA BridgesAlways == BusSpec => [](UsbTyped /\ BridgesInv)
<1>1. BusInit => UsbTyped /\ BridgesInv
  BY TypingInit, BridgesInit
<1>. QED
  BY <1>1, BridgesNext, PTL DEF BusSpec

LEMMA BridgesImply == UsbTyped /\ BridgesInv => HandedBack
<1> SUFFICES ASSUME UsbTyped, BridgesInv PROVE HandedBack
  OBVIOUS
<1>1. ASSUME NEW d \in Slots PROVE dev[d].refs > 0 <=> \E s \in Sensors : UsedOn(s, d)
  BY DEF BridgesInv, RefsCount, One, Sensors
<1>2. ASSUME NEW m \in Matches PROVE (usb[m].claimed = 1) <=> \E s \in Sensors : handle[s].used /\ On(s).match = m
  <2>1. (usb[m].claimed = 1) <=> \E d \in Slots : dev[d].refs > 0 /\ dev[d].match = m
    BY DEF BridgesInv, ClaimedAreOpen
  <2>2. \A s \in Sensors : handle[s].used => handle[s].dev \in Slots
    BY DEF BridgesInv, HandlesOnBridges
  <2>. QED
    BY <1>1, <2>1, <2>2 DEF UsedOn, On
<1>3. ASSUME main.pc = "done", NEW m \in Matches PROVE usb[m].claimed = 0
  <2>1. \A s \in Sensors : ~handle[s].used
    BY <1>3 DEF BridgesInv, Place, Sensors
  <2>2. usb[m].claimed \in {0, 1}
    BY DEF UsbTyped, UsbOK, UsbRec
  <2>. QED
    BY <1>2, <2>1, <2>2
<1>. QED
  BY <1>2, <1>3 DEF HandedBack

\* A bridge's interface is claimed while a handle is on it and no longer, for any
\* nodes, any size of the table and any calls that go wrong; once main is done none
\* is (bus_ft232h.c dev_put, ft232h_close).
THEOREM HandedBackHolds == BusSpec => []HandedBack
BY BridgesAlways, BridgesImply, PTL

(* --------------------------------- locks --------------------------------- *)

LEMMA LockInit == BusInit => LockInv
BY RecordsTyped DEF BusInit, LockInv, Resting, Holding

\* A step that takes no lock and lets none go.
LEMMA LockKept ==
    ASSUME UsbTyped, BridgesInv, LockInv, NEW s \in Sensors, xfer[s].pc \in Holding, UNCHANGED <<lock, handle>>,
           NEW new, xfer' = [xfer EXCEPT ![s] = new], new.pc \in Holding
    PROVE  LockInv'
BY DEF UsbTyped, XferOK, LockInv

LEMMA LockNext == UsbTyped /\ BridgesInv /\ LockInv /\ [BusNext]_busVars => LockInv'
<1> SUFFICES ASSUME UsbTyped, BridgesInv, LockInv, [BusNext]_busVars PROVE LockInv'
  OBVIOUS
<1>1. CASE Open \/ Setup \/ Close
  <2>1. \A s \in Sensors : xfer[s].pc = "rest"
    BY <1>1 DEF Open, Setup, Close, BridgesInv, Place, Sensors
  <2>2. \A d \in Slots : lock[d] = Nobody
    BY <2>1 DEF LockInv, Holding, UsbTyped, LockOK
  <2>3. UNCHANGED <<lock, xfer>>
    BY <1>1 DEF Open, Setup, Close
  <2>. QED
    BY <2>1, <2>2, <2>3 DEF LockInv, Holding
<1>2. CASE Stop \/ Joined \/ UNCHANGED busVars
  BY <1>2 DEF Stop, Joined, busVars, LockInv
<1>3. ASSUME NEW s \in Sensors, Transfer(s) PROVE LockInv'
  <2>0. xfer \in [Sensors -> XferRec] /\ lock \in [Slots -> Sensors \cup {Nobody}] /\ UNCHANGED handle
    BY <1>3, ReaderKeeps DEF UsbTyped, XferOK, LockOK
  <2>1. handle[s].dev \in Slots
    BY <1>3, ReaderKeeps DEF BridgesInv, HandlesOnBridges
  <2>2. CASE Ask(s)
    <3>1. xfer[s].pc = "rest" /\ lock' = lock
      BY <2>2 DEF Ask
    <3>2. xfer'[s].pc = "ask" /\ \A t \in Sensors : t # s => xfer'[t] = xfer[t]
      BY <2>0, <2>2 DEF Ask, Resting
    <3>. QED
      BY <2>0, <3>1, <3>2 DEF LockInv, Holding
  <2>3. CASE Begin(s)
    <3>1. xfer[s].pc = "ask" /\ lock[handle[s].dev] = Nobody /\ lock' = [lock EXCEPT ![handle[s].dev] = s]
      BY <2>3 DEF Begin, MayTake
    <3>2. xfer'[s].pc = "build" /\ \A t \in Sensors : t # s => xfer'[t] = xfer[t]
      BY <2>0, <2>3 DEF Begin, XferRec
    <3>. QED
      BY <2>0, <2>1, <3>1, <3>2, RecordsTyped DEF LockInv, Holding
  <2>4. CASE Build(s)
    <3>1. xfer[s].pc = "build" /\ UNCHANGED lock
      BY <2>4 DEF Build
    <3>2. xfer'[s].pc \in {"build", "write"} /\ \A t \in Sensors : t # s => xfer'[t] = xfer[t]
      BY <2>0, <2>4, XferFields DEF Build, XferRec
    <3>. QED
      BY <2>0, <3>1, <3>2 DEF LockInv, Holding
  <2>5. CASE Write(s) \/ Reply(s)
    <3>1. xfer[s].pc \in Holding /\ UNCHANGED lock
      BY <2>5 DEF Write, Reply, Holding
    <3>2. \A x \in XferRec : /\ Broken(x).pc \in Holding /\ Flushed(x).pc \in Holding /\ Sent(x).pc \in Holding
      <4>1. \A x \in XferRec : Broken(x).pc \in Holding /\ Flushed(x).pc \in Holding
        BY DEF Broken, Flushed, Holding, XferRec
      <4>2. \A x \in XferRec : [x EXCEPT !.cmds = NoCmds] \in XferRec /\ [x EXCEPT !.cmds = NoCmds, !.pc = "reply"].pc \in Holding
        BY RecordsTyped, Zenon DEF XferRec, Holding
      <4>. QED
        BY <4>1, <4>2 DEF Sent
    <3>3. \E y \in XferRec : xfer' = [xfer EXCEPT ![s] = Broken(y)] \/ xfer' = [xfer EXCEPT ![s] = Flushed(y)] \/ xfer' = [xfer EXCEPT ![s] = Sent(y)]
      <4>1. CASE Write(s)
        BY <2>0, <4>1 DEF Write, WriteFine, WriteRefused, WriteLost
      <4>2. CASE Reply(s) /\ TimeOut(s)
        BY <2>0, <4>2 DEF TimeOut
      <4>3. CASE Reply(s) /\ Collect(s)
        <5>1. xfer[s] \in XferRec /\ xfer[s].got \in Seq(Nat \X Nat) /\ xfer[s].owed \in Nat /\ 0 \in Nat
          BY <2>0, XferFields
        <5>2. Replies(s) \in Seq(Nat \X Nat) /\ xfer[s].owed <= Len(Replies(s))
          <6>1. usb[On(s).match] \in UsbRec
            BY <4>3, Serving DEF Reply
          <6>. QED
            BY <4>3, <5>1, <6>1 DEF Collect, Replies, UsbRec
        <5>3. xfer[s].got \o SubSeq(Replies(s), 1, xfer[s].owed) \in Seq(Nat \X Nat)
          BY <5>1, <5>2
        <5>4. [xfer[s] EXCEPT !.got = @ \o SubSeq(Replies(s), 1, xfer[s].owed), !.owed = 0] \in XferRec
          BY <5>1, <5>3, Zenon DEF XferRec
        <5>. QED
          BY <4>3, <5>4 DEF Collect
      <4>. QED
        BY <2>5, <4>1, <4>2, <4>3 DEF Reply
    <3>4. PICK y \in XferRec : \E new \in {Broken(y), Flushed(y), Sent(y)} : xfer' = [xfer EXCEPT ![s] = new]
      BY <3>3
    <3>5. PICK new \in {Broken(y), Flushed(y), Sent(y)} : xfer' = [xfer EXCEPT ![s] = new]
      BY <3>4
    <3>6. new.pc \in Holding
      BY <3>2, <3>5
    <3>. QED
      BY <3>1, <3>5, <3>6, ReaderKeeps, <1>3, LockKept
  <2>6. CASE End(s)
    <3>1. xfer[s].pc = "end" /\ lock' = [lock EXCEPT ![handle[s].dev] = Nobody]
      BY <2>6 DEF End
    <3>2. xfer'[s].pc = "rest" /\ \A t \in Sensors : t # s => xfer'[t] = xfer[t]
      BY <2>0, <2>6 DEF End, XferRec
    <3>3. lock[handle[s].dev] = s
      BY <3>1 DEF LockInv, Holding
    <3>. QED
      BY <2>0, <2>1, <3>1, <3>2, <3>3, RecordsTyped DEF LockInv, Holding
  <2>. QED
    BY <1>3, <2>2, <2>3, <2>4, <2>5, <2>6 DEF Transfer
<1>. QED
  BY <1>1, <1>2, <1>3, BusSteps

(* ---------------------- what a reader's step touches --------------------- *)

\* Two handles are on one bridge or on bridges that are not the same.
LEMMA Apart ==
    ASSUME UsbTyped, BridgesInv, NEW d \in Slots, NEW e \in Slots, dev[d].refs > 0, dev[e].refs > 0, d # e
    PROVE  dev[d].match # dev[e].match
BY DEF BridgesInv, OpenOnce

LEMMA UsedIsOpen ==
    ASSUME UsbTyped, BridgesInv, NEW s \in Sensors, handle[s].used
    PROVE  handle[s].dev \in Slots /\ On(s).refs > 0 /\ On(s).match \in Matches /\ On(s) \in DevRec /\ usb[On(s).match] \in UsbRec
<1>1. handle[s].dev \in Slots /\ On(s).match = want[s].node.match
  BY DEF BridgesInv, HandlesOnBridges
<1>2. On(s).match \in Matches
  BY <1>1, WantTyped DEF UsbTyped
<1>3. UsedOn(s, handle[s].dev)
  BY DEF UsedOn
<1>4. On(s).refs > 0
  BY <1>1, <1>3 DEF BridgesInv, RefsCount, One, Sensors, On
<1>. QED
  BY <1>1, <1>2, <1>4 DEF UsbTyped, DevOK, UsbOK, On

\* A step of a reader touches its own transfer and its own bridge.
LEMMA Local ==
    ASSUME UsbTyped, BridgesInv, NEW s \in Sensors, Transfer(s)
    PROVE  /\ \A t \in Sensors : t # s => xfer'[t] = xfer[t]
           /\ \A d \in Slots : d # handle[s].dev => dev'[d] = dev[d] /\ lock'[d] = lock[d]
           /\ \A m \in Matches : m # On(s).match => usb'[m] = usb[m]
<1>0. xfer \in [Sensors -> XferRec] /\ dev \in [Slots -> DevRec] /\ lock \in [Slots -> Sensors \cup {Nobody}] /\ usb \in [Matches -> UsbRec]
  BY DEF UsbTyped, XferOK, DevOK, LockOK, UsbOK
<1>1. \A t \in Sensors : t # s => xfer'[t] = xfer[t]
  BY <1>0 DEF Transfer, Ask, Begin, Build, Write, WriteFine, WriteRefused, WriteLost, Reply, Collect, TimeOut, End
<1>2. \A d \in Slots : d # handle[s].dev => dev'[d] = dev[d]
  BY <1>0 DEF Transfer, Ask, Begin, Build, Write, WriteFine, WriteRefused, WriteLost, Reply, Collect, TimeOut, End, Upset
<1>3. \A d \in Slots : d # handle[s].dev => lock'[d] = lock[d]
  BY <1>0 DEF Transfer, Ask, Begin, Build, Write, Reply, End
<1>4. \A m \in Matches : m # On(s).match => usb'[m] = usb[m]
  BY <1>0 DEF Transfer, Ask, Begin, Build, Write, WriteFine, WriteRefused, WriteLost, Reply, Collect, TimeOut, End, Drop
<1>. QED
  BY <1>1, <1>2, <1>3, <1>4

(* ---------------------------- whole messages ----------------------------- *)

LEMMA RunAppend ==
    ASSUME NEW id \in Nat, NEW a \in Nat, NEW b \in Int, a <= b + 1
    PROVE  Append(Run(id, a, b), <<id, b + 1>>) = Run(id, a, b + 1)
<1> DEFINE n == b - a + 1
<1>1. n \in Nat /\ n + 1 = (b + 1) - a + 1
  OBVIOUS
<1>2. Run(id, a, b) \in Seq(Nat \X Nat) /\ Len(Run(id, a, b)) = n
  <2>1. Run(id, a, b) \in [1 .. n -> Nat \X Nat]
    BY DEF Run
  <2>. QED
    BY <1>1, <2>1
<1>3. Append(Run(id, a, b), <<id, b + 1>>) = [i \in 1 .. (n + 1) |-> IF i = n + 1 THEN <<id, b + 1>> ELSE Run(id, a, b)[i]]
  BY <1>1, <1>2
<1>4. \A i \in 1 .. (n + 1) : <<id, a + i - 1>> = IF i = n + 1 THEN <<id, b + 1>> ELSE Run(id, a, b)[i]
  BY DEF Run
<1>. QED
  BY <1>1, <1>3, <1>4 DEF Run

LEMMA RunEmpty == ASSUME NEW id, NEW a \in Nat PROVE Run(id, a, a - 1) = <<>>
BY DEF Run

\* What a transfer has to bring, piece by piece.
LEMMA DueRun ==
    ASSUME UsbTyped, NEW s \in Sensors, xfer[s].toDo = 0
    PROVE  Due(s) = AskedFor(s, xfer[s])
<1> DEFINE x == xfer[s]
           n == Pieces(x.kind)
           data == IF x.kind = "write" THEN <<>> ELSE [k \in 1 .. n |-> Tag(s, k)]
<1>1. x.id \in Nat /\ x.kind \in {"read", "long", "write"} /\ n \in {1, 2}
  BY XferFields DEF UsbTyped, XferOK, Pieces
<1>2. Built(x) = IF x.kind = "write" THEN 0 ELSE n
  BY <1>1 DEF Built
<1>3. Due(s) = IF IsI2C(s) THEN <<<<x.id, 0>>>> \o data ELSE data
  BY DEF Due, Tag
<1>4. data = Run(x.id, 1, Built(x))
  <2>1. CASE x.kind = "write"
    <3>1. Run(x.id, 1, 1 - 1) = <<>>
      BY RunEmpty
    <3>. QED
      BY <1>2, <2>1, <3>1
  <2>2. CASE x.kind # "write"
    BY <1>1, <1>2, <2>2 DEF Run, Tag
  <2>. QED
    BY <2>1, <2>2
<1>5. <<<<x.id, 0>>>> \o Run(x.id, 1, Built(x)) = Run(x.id, 0, Built(x))
  <2>1. Built(x) \in Nat
    BY <1>1, <1>2
  <2>2. PICK b \in Nat : b = Built(x)
    BY <2>1
  <2>3. Run(x.id, 1, b) \in Seq(Nat \X Nat) /\ Len(Run(x.id, 1, b)) = b
    <3>1. Run(x.id, 1, b) \in [1 .. b -> Nat \X Nat]
      BY <1>1 DEF Run
    <3>. QED
      BY <3>1
  <2>4. <<<<x.id, 0>>>> \o Run(x.id, 1, b) = [i \in 1 .. (1 + b) |-> IF i <= 1 THEN <<<<x.id, 0>>>>[i] ELSE Run(x.id, 1, b)[i - 1]]
    BY <1>1, <2>3
  <2>5. \A i \in 1 .. (1 + b) : <<x.id, 0 + i - 1>> = IF i <= 1 THEN <<<<x.id, 0>>>>[i] ELSE Run(x.id, 1, b)[i - 1]
    BY DEF Run
  <2>6. Run(x.id, 0, b) = [i \in 1 .. (1 + b) |-> <<x.id, 0 + i - 1>>]
    BY DEF Run
  <2>. QED
    BY <2>2, <2>4, <2>5, <2>6
<1> HIDE DEF data
<1>6. CASE IsI2C(s)
  BY <1>3, <1>4, <1>5, <1>6 DEF AskedFor, FirstByte
<1>7. CASE ~IsI2C(s)
  BY <1>3, <1>4, <1>7 DEF AskedFor, FirstByte
<1>. QED
  BY <1>6, <1>7

LEMMA SeqFacts ==
    /\ \A p \in Seq(Nat \X Nat) : p \o <<>> = p /\ <<>> \o p = p /\ Len(p) \in Nat /\ (Len(p) = 0 => p = <<>>)
    /\ \A p \in Seq(Nat \X Nat) : SubSeq(p, 1, Len(p)) = p /\ SubSeq(p, Len(p) + 1, Len(p)) = <<>>
    /\ \A p, q \in Seq(Nat \X Nat), e \in Nat \X Nat : p \o Append(q, e) = Append(p \o q, e) /\ Len(Append(q, e)) = Len(q) + 1
<1>1. \A p \in Seq(Nat \X Nat) : p \o <<>> = p /\ <<>> \o p = p /\ Len(p) \in Nat /\ (Len(p) = 0 => p = <<>>)
  OBVIOUS
<1>2. \A p \in Seq(Nat \X Nat) : SubSeq(p, 1, Len(p)) = p /\ SubSeq(p, Len(p) + 1, Len(p)) = <<>>
  OBVIOUS
<1>3. \A p, q \in Seq(Nat \X Nat), e \in Nat \X Nat : p \o Append(q, e) = Append(p \o q, e)
  BY SMTT(30)
<1>4. \A q \in Seq(Nat \X Nat), e \in Nat \X Nat : Len(Append(q, e)) = Len(q) + 1
  OBVIOUS
<1>. QED
  BY <1>1, <1>2, <1>3, <1>4, SMTT(30)

\* Whoever is on a bridge, it is one the configuration can name.
LEMMA OpenIsNamed == ASSUME UsbTyped, BridgesInv, NEW d \in Slots, dev[d].refs > 0 PROVE dev[d].match \in Matches
<1>1. PICK s \in Sensors : UsedOn(s, d)
  BY DEF BridgesInv, RefsCount, One, Sensors
<1>. QED
  BY <1>1, UsedIsOpen DEF UsedOn, On

\* The other reader is not in a message on the bridge of one that is.
LEMMA OneHolds ==
    ASSUME LockInv, NEW s \in Sensors, NEW t \in Sensors, t # s, handle[t].dev = handle[s].dev, xfer[s].pc \in Holding
    PROVE  xfer[t].pc \notin Holding
BY DEF LockInv

\* What a reader's step has to leave for its own transfer and bridge.
LEMMA BytesStep ==
    ASSUME UsbTyped, BridgesInv, LockInv, BytesInv, NEW s \in Sensors, Transfer(s),
           xfer[s].pc \in Holding \/ UNCHANGED usb,
           Shape(xfer'[s]),
           LET upset == dev'[handle[s].dev].upset
               r == usb'[On(s).match].replies
           IN ~upset => /\ lock'[handle[s].dev] = Nobody => r = <<>>
                        /\ xfer'[s].pc \in Holding => SoundIs(s, xfer'[s], r)
                        /\ Honest(s)'
    PROVE  BytesInv'
<1>0. UNCHANGED <<want, main, handle>> /\ main.pc \in {"run", "join"} /\ handle[s].used
  BY ReaderKeeps
<1>1. \A d \in Slots : dev'[d].refs = dev[d].refs /\ dev'[d].match = dev[d].match /\ (dev[d].upset => dev'[d].upset)
  BY ReaderKeeps
<1>2. handle[s].dev \in Slots /\ On(s).refs > 0 /\ On(s).match \in Matches
  BY <1>0, UsedIsOpen
<1>3. \A t \in Sensors : Shape(xfer'[t])
  <2> SUFFICES ASSUME NEW t \in Sensors PROVE Shape(xfer'[t])
    OBVIOUS
  <2>1. CASE t = s
    BY <2>1
  <2>2. CASE t # s
    BY <2>2, Local DEF BytesInv
  <2>. QED
    BY <2>1, <2>2
<1>4. ASSUME NEW d \in Slots, dev'[d].refs > 0, ~dev'[d].upset, lock'[d] = Nobody PROVE usb'[dev'[d].match].replies = <<>>
  <2>1. CASE d = handle[s].dev
    BY <1>1, <1>4, <2>1 DEF On
  <2>2. CASE d # handle[s].dev
    <3>1. dev'[d] = dev[d] /\ lock'[d] = lock[d]
      BY <2>2, Local
    <3>2. dev[d].refs > 0 /\ dev[d].match # On(s).match /\ dev[d].match \in Matches
      BY <1>2, <1>4, <2>2, <3>1, Apart, OpenIsNamed DEF On
    <3>3. usb'[dev[d].match] = usb[dev[d].match]
      BY <3>2, Local
    <3>. QED
      BY <1>4, <3>1, <3>2, <3>3 DEF BytesInv
  <2>. QED
    BY <2>1, <2>2
<1>5. ASSUME NEW t \in Sensors, handle[t].used, ~dev'[handle[t].dev].upset
      PROVE  (xfer'[t].pc \in Holding => SoundIs(t, xfer'[t], usb'[dev'[handle[t].dev].match].replies)) /\ Honest(t)'
  <2>0. handle[t].dev \in Slots /\ On(t).refs > 0 /\ On(t).match \in Matches
    BY <1>5, UsedIsOpen
  <2>00. dev'[handle[t].dev].match = On(t).match /\ ~On(t).upset
    BY <1>1, <1>5, <2>0 DEF On
  <2>1. CASE t = s
    BY <1>5, <2>00, <2>1
  <2>2. CASE t # s
    <3>1. xfer'[t] = xfer[t]
      BY <2>2, Local
    <3>2. Honest(t)'
      <4>1. Honest(t)
        BY <1>5, <2>00 DEF BytesInv
      <4>2. Due(t)' = Due(t)
        BY <1>0, <3>1 DEF Due, Tag, IsI2C
      <4>. QED
        BY <3>1, <4>1, <4>2 DEF Honest
    <3>3. xfer[t].pc \in Holding => SoundIs(t, xfer[t], usb[On(t).match].replies)
      BY <1>5, <2>00 DEF BytesInv, Sound
    <3>4. xfer[t].pc \in Holding => usb'[On(t).match] = usb[On(t).match]
      <4>1. CASE handle[t].dev = handle[s].dev
        BY <2>2, <4>1, OneHolds
      <4>2. CASE handle[t].dev # handle[s].dev
        <5>1. On(t).match # On(s).match
          BY <1>2, <2>0, <4>2, Apart DEF On
        <5>. QED
          BY <2>0, <5>1, Local
      <4>. QED
        BY <4>1, <4>2
    <3>. QED
      BY <2>00, <3>1, <3>2, <3>3, <3>4
  <2>. QED
    BY <2>1, <2>2
<1>6. \A t \in Sensors : (handle'[t].used /\ ~On(t)'.upset) => ((xfer'[t].pc \in Holding => Sound(t)') /\ Honest(t)')
  BY <1>0, <1>5 DEF Sound, SoundIs, On, AskedFor, FirstByte, IsI2C
<1>. QED
  BY <1>0, <1>3, <1>4, <1>6 DEF BytesInv

LEMMA BytesAsk == ASSUME UsbTyped, BridgesInv, LockInv, BytesInv, NEW s \in Sensors, Ask(s) PROVE BytesInv'
<1>0. Transfer(s)
  BY DEF Transfer
<1>1. PICK kind \in {"read", "long", "write"} :
          xfer' = [xfer EXCEPT ![s] = [Resting EXCEPT !.pc = "ask", !.kind = kind, !.toDo = Pieces(kind), !.id = toCome.transfers]]
  BY DEF Ask
<1>2. UNCHANGED <<dev, lock, usb>> /\ toCome.transfers # 0
  BY DEF Ask, UsbTyped, ToComeOK
<1>3. xfer'[s] = [Resting EXCEPT !.pc = "ask", !.kind = kind, !.toDo = Pieces(kind), !.id = toCome.transfers]
  BY <1>1 DEF UsbTyped, XferOK
<1>4. Pieces(kind) \in Nat
  BY DEF Pieces
<1>5. Shape(xfer'[s])
  BY <1>2, <1>3, <1>4 DEF Shape, Resting, Holding
<1>6. xfer'[s].pc = "ask"
  BY <1>3 DEF Resting
<1>7. Honest(s)'
  BY <1>6 DEF Honest
<1>8. handle[s].dev \in Slots /\ On(s).refs > 0
  BY <1>0, ReaderKeeps, UsedIsOpen
<1>9. (~On(s).upset /\ lock[handle[s].dev] = Nobody) => usb[On(s).match].replies = <<>>
  BY <1>8 DEF BytesInv, On
<1>. QED
  BY <1>0, <1>2, <1>5, <1>6, <1>7, <1>9, BytesStep DEF Holding, On

LEMMA BytesBegin == ASSUME UsbTyped, BridgesInv, LockInv, BytesInv, NEW s \in Sensors, Begin(s) PROVE BytesInv'
<1>0. Transfer(s)
  BY DEF Transfer
<1> DEFINE x == xfer[s]
           cmds == IF IsI2C(s) THEN [NoCmds EXCEPT !.data = TRUE, !.reply = <<Tag(s, 0)>>]
                   ELSE [NoCmds EXCEPT !.retune = Retuned(s), !.select = TRUE]
           owed == IF IsI2C(s) THEN 1 ELSE 0
           y == [x EXCEPT !.pc = "build", !.owed = owed, !.cmds = cmds]
<1>1. xfer'[s] = y
  BY DEF Begin, UsbTyped, XferOK
<1>2. x \in XferRec
  BY DEF UsbTyped, XferOK
<1>3. x.pc = "ask" /\ x.id # 0 /\ x.id \in Nat /\ x.got = <<>> /\ x.toDo = Pieces(x.kind) /\ ~x.last /\ Pieces(x.kind) \in Nat
  BY <1>2, XferFields DEF Begin, BytesInv, Shape, Pieces
<1>4. cmds.reply = (IF IsI2C(s) THEN <<Tag(s, 0)>> ELSE <<>>)
  BY DEF NoCmds
<1>5. owed \in Nat /\ owed = Len(cmds.reply)
  BY <1>4
<1>6. UNCHANGED usb /\ lock[handle[s].dev] = Nobody /\ lock'[handle[s].dev] = s /\ s # Nobody
  <2>1. handle[s].dev \in Slots
    BY <1>0, ReaderKeeps, UsedIsOpen
  <2>. QED
    BY <2>1, RecordsTyped DEF Begin, MayTake, UsbTyped, LockOK
<1>7. ~dev'[handle[s].dev].upset => usb[On(s).match].replies = <<>>
  <2>1. handle[s].dev \in Slots /\ On(s).refs > 0
    BY <1>0, ReaderKeeps, UsedIsOpen
  <2>2. ~dev'[handle[s].dev].upset => ~On(s).upset
    BY <1>0, <2>1, ReaderKeeps DEF On
  <2>. QED
    BY <1>6, <2>1, <2>2 DEF BytesInv, On
<1> HIDE DEF cmds, owed
<1>8. y.pc = "build" /\ y.owed = owed /\ y.cmds = cmds /\ y.id = x.id /\ y.kind = x.kind /\ y.got = <<>>
      /\ y.toDo = x.toDo /\ y.last = x.last /\ y.rc = x.rc
  BY <1>2, <1>3 DEF XferRec
<1> HIDE DEF y
<1>9. Built(y) = 0
  BY <1>3, <1>8 DEF Built
<1>10. x.rc # -1
  BY <1>3 DEF BytesInv, Shape
<1>11. Shape(y)
  BY <1>3, <1>8, <1>10 DEF Shape
<1>12. AskedFor(s, y) = cmds.reply
  <2>1. CASE IsI2C(s)
    BY <1>4, <1>8, <1>9, <2>1 DEF AskedFor, FirstByte, Run, Tag
  <2>2. CASE ~IsI2C(s)
    BY <1>4, <1>8, <1>9, <2>2 DEF AskedFor, FirstByte, Run
  <2>. QED
    BY <2>1, <2>2
<1>13. <<>> \o cmds.reply = cmds.reply
  BY <1>4
<1>14. ~dev'[handle[s].dev].upset => SoundIs(s, y, usb[On(s).match].replies)
  BY <1>3, <1>5, <1>7, <1>8, <1>12, <1>13 DEF SoundIs
<1>15. Honest(s)'
  BY <1>1, <1>8 DEF Honest
<1>. QED
  BY <1>0, <1>1, <1>6, <1>11, <1>14, <1>15, BytesStep

\* A reader in a message has the lock, and what BytesInv says of it.
LEMMA InMessage ==
    ASSUME UsbTyped, BridgesInv, LockInv, BytesInv, NEW s \in Sensors, xfer[s].pc \in Holding
    PROVE  /\ handle[s].dev \in Slots /\ On(s).match \in Matches /\ lock[handle[s].dev] # Nobody
           /\ xfer[s] \in XferRec /\ Shape(xfer[s]) /\ usb[On(s).match] \in UsbRec /\ Replies(s) \in Seq(Nat \X Nat)
           /\ ~On(s).upset => SoundIs(s, xfer[s], Replies(s))
<1>1. handle[s].used /\ handle[s].dev \in Slots /\ On(s).match \in Matches /\ usb[On(s).match] \in UsbRec
  BY Serving DEF Holding
<1>2. lock[handle[s].dev] = s /\ s # Nobody
  BY RecordsTyped DEF LockInv
<1>3. xfer[s] \in XferRec
  BY DEF UsbTyped, XferOK
<1>4. usb[On(s).match].replies \in Seq(Nat \X Nat)
  BY <1>1 DEF UsbRec
<1>. QED
  BY <1>1, <1>2, <1>3, <1>4 DEF BytesInv, Sound, Replies

LEMMA BytesBuild == ASSUME UsbTyped, BridgesInv, LockInv, BytesInv, NEW s \in Sensors, Build(s) PROVE BytesInv'
<1>0. Transfer(s) /\ xfer[s].pc = "build" /\ xfer[s].pc \in Holding
  BY DEF Transfer, Build, Holding
<1>00. UNCHANGED <<dev, lock, usb>>
  BY DEF Build
<1> DEFINE x == xfer[s]
           r == Replies(s)
           k == Pieces(x.kind) - x.toDo + 1
           reads == x.kind # "write"
           reply == IF reads THEN Append(x.cmds.reply, Tag(s, k)) ELSE x.cmds.reply
           owed == IF reads THEN x.owed + 1 ELSE x.owed
           last == [x EXCEPT !.cmds = [x.cmds EXCEPT !.release = TRUE], !.last = TRUE, !.pc = "write"]
           flush == [x EXCEPT !.pc = "write"]
           more == [x EXCEPT !.cmds = [x.cmds EXCEPT !.data = TRUE, !.reply = reply], !.toDo = x.toDo - 1, !.owed = owed]
<1>1. /\ handle[s].dev \in Slots /\ lock[handle[s].dev] # Nobody
      /\ x \in XferRec /\ Shape(x) /\ r \in Seq(Nat \X Nat)
      /\ ~On(s).upset => SoundIs(s, x, r)
  BY <1>0, InMessage
<1>2. \/ x.toDo = 0 /\ xfer'[s] = last
      \/ x.toDo # 0 /\ xfer'[s] = flush
      \/ x.toDo # 0 /\ xfer'[s] = more
  BY DEF Build, UsbTyped, XferOK
<1>3. ASSUME NEW y \in {last, flush, more}, xfer'[s] = y, Shape(y), y.pc \in Holding, ~On(s).upset => SoundIs(s, y, r) PROVE BytesInv'
  <2>1. Honest(s)'
    BY <1>3 DEF Honest, Holding
  <2>2. lock'[handle[s].dev] # Nobody /\ dev'[handle[s].dev].upset = On(s).upset /\ usb'[On(s).match].replies = r
    BY <1>00, <1>1 DEF On, Replies
  <2>. QED
    BY <1>0, <1>3, <2>1, <2>2, BytesStep
<1>4. CASE x.toDo = 0 /\ xfer'[s] = last
  <2>1. last.cmds.reply = x.cmds.reply
    BY <1>1 DEF XferRec, Cmds
  <2>2. last.pc = "write" /\ last.last /\ last.toDo = x.toDo /\ last.kind = x.kind /\ last.id = x.id /\ last.got = x.got /\ last.owed = x.owed /\ last.rc = x.rc
    BY <1>1 DEF XferRec
  <2> HIDE DEF last
  <2>3. Shape(last)
    BY <1>0, <1>1, <1>4, <2>2, XferFields DEF Shape
  <2>4. AskedFor(s, last) = AskedFor(s, x)
    BY <2>2 DEF AskedFor, Built
  <2>5. ~On(s).upset => SoundIs(s, last, r)
    BY <1>0, <1>1, <1>4, <2>1, <2>2, <2>4 DEF SoundIs
  <2>. QED
    BY <1>3, <1>4, <2>2, <2>3, <2>5 DEF Holding
<1>5. CASE x.toDo # 0 /\ xfer'[s] = flush
  <2>2. flush.pc = "write" /\ flush.last = x.last /\ flush.toDo = x.toDo /\ flush.kind = x.kind /\ flush.id = x.id /\ flush.got = x.got
        /\ flush.owed = x.owed /\ flush.rc = x.rc /\ flush.cmds = x.cmds
    BY <1>1 DEF XferRec
  <2> HIDE DEF flush
  <2>1. x.toDo \in 0 .. 2 /\ x.toDo <= Pieces(x.kind) /\ x.id # 0 /\ x.rc # -1
    BY <1>0, <1>1, XferFields DEF Shape, Holding
  <2>3. Shape(flush)
    BY <1>5, <2>1, <2>2 DEF Shape
  <2>4. AskedFor(s, flush) = AskedFor(s, x)
    BY <2>2 DEF AskedFor, Built
  <2>5. ~On(s).upset => SoundIs(s, flush, r)
    BY <1>0, <1>1, <1>5, <2>2, <2>4 DEF SoundIs
  <2>. QED
    BY <1>3, <1>5, <2>2, <2>3, <2>5 DEF Holding
<1>6. CASE x.toDo # 0 /\ xfer'[s] = more
  <2>0. more.cmds = [x.cmds EXCEPT !.data = TRUE, !.reply = reply]
    BY <1>1 DEF XferRec
  <2>1. more.cmds.reply = reply
    <3> HIDE DEF reply, more
    <3>1. x.cmds \in Cmds
      BY <1>1, XferFields
    <3>. QED
      BY <2>0, <3>1 DEF Cmds
  <2>2. more.pc = "build" /\ more.last = x.last /\ more.toDo = x.toDo - 1 /\ more.kind = x.kind /\ more.id = x.id /\ more.got = x.got
        /\ more.owed = owed /\ more.rc = x.rc
    BY <1>0, <1>1 DEF XferRec
  <2> HIDE DEF more
  <2>3. x.toDo \in 0 .. 2 /\ x.toDo <= Pieces(x.kind) /\ Pieces(x.kind) \in {1, 2} /\ x.id \in Nat
    BY <1>1, XferFields DEF Shape, Pieces
  <2>4. Shape(more)
    BY <1>0, <1>1, <2>2, <2>3 DEF Shape, Holding
  <2>5. ASSUME SoundIs(s, x, r) PROVE SoundIs(s, more, r)
    <3>1. r = <<>> /\ x.got \o x.cmds.reply = AskedFor(s, x) /\ x.owed = Len(x.cmds.reply) /\ ~x.last
      BY <1>0, <1>1, <2>5 DEF SoundIs, Shape
    <3>2. CASE ~reads
      <4>1. AskedFor(s, more) = AskedFor(s, x)
        BY <2>2, <3>2 DEF AskedFor, Built
      <4>. QED
        BY <2>1, <2>2, <3>1, <3>2, <4>1 DEF SoundIs
    <3>3. CASE reads
      <4>1. Built(x) = k - 1 /\ Built(more) = k /\ k \in Nat /\ k >= 1
        BY <2>2, <2>3, <3>3 DEF Built
      <4>2. x.cmds.reply \in Seq(Nat \X Nat) /\ x.got \in Seq(Nat \X Nat) /\ Tag(s, k) \in Nat \X Nat
        BY <1>1, <4>1, XferFields, TagTyped
      <4>3. x.got \o Append(x.cmds.reply, Tag(s, k)) = Append(AskedFor(s, x), Tag(s, k)) /\ Len(Append(x.cmds.reply, Tag(s, k))) = x.owed + 1
        <5>1. PICK e \in Nat \X Nat : e = Tag(s, k)
          BY <4>2
        <5>2. PICK p \in Seq(Nat \X Nat) : p = x.got
          BY <4>2
        <5>3. PICK q \in Seq(Nat \X Nat) : q = x.cmds.reply
          BY <4>2
        <5>4. p \o Append(q, e) = Append(p \o q, e) /\ Len(Append(q, e)) = Len(q) + 1
          BY SeqFacts
        <5>. QED
          BY <3>1, <5>1, <5>2, <5>3, <5>4
      <4>5. Append(Run(x.id, FirstByte(s), k - 1), <<x.id, (k - 1) + 1>>) = Run(x.id, FirstByte(s), (k - 1) + 1)
        <5>1. PICK b \in Int : b = k - 1 /\ b >= 0
          BY <4>1
        <5>2. FirstByte(s) \in Nat /\ FirstByte(s) <= b + 1
          BY <5>1 DEF FirstByte
        <5>3. PICK id \in Nat : id = x.id
          BY <2>3
        <5>4. PICK a \in Nat : a = FirstByte(s)
          BY <5>2
        <5>5. Append(Run(id, a, b), <<id, b + 1>>) = Run(id, a, b + 1)
          BY <5>2, <5>4, RunAppend
        <5>. QED
          BY <5>1, <5>3, <5>4, <5>5
      <4>6. Append(AskedFor(s, x), Tag(s, k)) = AskedFor(s, more)
        <5>1. k \in Int /\ (k - 1) + 1 = k
          BY <4>1
        <5>. QED
          BY <2>2, <4>1, <4>5, <5>1 DEF AskedFor, Tag
      <4>. QED
        BY <2>1, <2>2, <3>1, <3>3, <4>3, <4>6 DEF SoundIs
    <3>. QED
      BY <3>2, <3>3
  <2>. QED
    BY <1>1, <1>3, <1>6, <2>2, <2>4, <2>5 DEF Holding
<1>. QED
  BY <1>2, <1>4, <1>5, <1>6

LEMMA BrokenShape ==
    ASSUME NEW x \in XferRec, Shape(x), x.pc \in {"write", "reply"}
    PROVE  Shape(Broken(x)) /\ Broken(x).pc \in Holding
<1>1. x.toDo \in 0 .. 2 /\ Pieces(x.kind) \in {1, 2} /\ x.id # 0 /\ x.rc # -1 /\ x.last \in BOOLEAN
  BY XferFields DEF Shape, Pieces, Holding
<1>2. CASE x.last
  <2>1. PICK y : y = [x EXCEPT !.pc = "end", !.rc = -1]
    OBVIOUS
  <2>2. y.pc = "end" /\ y.rc = -1 /\ y.last = x.last /\ y.toDo = x.toDo /\ y.kind = x.kind /\ y.id = x.id
    BY <2>1 DEF XferRec
  <2>. QED
    BY <1>1, <1>2, <2>1, <2>2 DEF Broken, Shape, Holding
<1>3. CASE ~x.last
  <2>1. PICK y : y = [x EXCEPT !.pc = "build", !.toDo = 0]
    OBVIOUS
  <2>2. y.pc = "build" /\ y.rc = x.rc /\ y.last = x.last /\ y.toDo = 0 /\ y.kind = x.kind /\ y.id = x.id
    BY <2>1 DEF XferRec
  <2>3. Shape(y)
    BY <1>1, <1>3, <2>2 DEF Shape
  <2>. QED
    BY <1>3, <2>1, <2>2, <2>3 DEF Broken, Holding
<1>. QED
  BY <1>2, <1>3

\* After a flush, with no reply to wait for or with all of them got.
LEMMA FlushedShape ==
    ASSUME NEW x \in XferRec, Shape(x), x.pc \in {"write", "reply"}
    PROVE  /\ Shape(Flushed(x)) /\ Flushed(x).pc = (IF x.last THEN "end" ELSE "build")
           /\ Flushed(x).pc \in Holding /\ Flushed(x).got = x.got /\ Flushed(x).cmds = x.cmds
           /\ Flushed(x).owed = x.owed /\ Flushed(x).toDo = x.toDo /\ Flushed(x).last = x.last
           /\ \A s : AskedFor(s, Flushed(x)) = AskedFor(s, x)
<1>1. x.toDo \in 0 .. 2 /\ Pieces(x.kind) \in {1, 2} /\ x.id # 0 /\ x.rc # -1 /\ x.last \in BOOLEAN
  BY XferFields DEF Shape, Pieces, Holding
<1>2. PICK y : y = Flushed(x)
  OBVIOUS
<1>3. y.pc = (IF x.last THEN "end" ELSE "build") /\ y.rc = x.rc /\ y.last = x.last /\ y.toDo = x.toDo /\ y.kind = x.kind /\ y.id = x.id
      /\ y.got = x.got /\ y.cmds = x.cmds /\ y.owed = x.owed
  BY <1>2 DEF Flushed, XferRec
<1>4. x.toDo <= Pieces(x.kind)
  BY DEF Shape
<1>5. Shape(y)
  <2>1. CASE x.last
    BY <1>1, <1>3, <1>4, <2>1 DEF Shape
  <2>2. CASE ~x.last
    BY <1>1, <1>3, <1>4, <2>2 DEF Shape
  <2>. QED
    BY <2>1, <2>2
<1>6. \A s : AskedFor(s, y) = AskedFor(s, x)
  BY <1>3 DEF AskedFor, Built
<1>. QED
  BY <1>1, <1>2, <1>3, <1>5, <1>6 DEF Holding

\* Commands sent, whatever became of them: the replies are waited for, if any.
LEMMA SentShape ==
    ASSUME NEW x \in XferRec, Shape(x), x.pc = "write"
    PROVE  Shape(Sent(x)) /\ Sent(x).pc \in Holding
<1>1. PICK y : y = [x EXCEPT !.cmds = NoCmds, !.pc = "reply"]
  OBVIOUS
<1>2. PICK z : z = [x EXCEPT !.cmds = NoCmds]
  OBVIOUS
<1>3. z \in XferRec
  BY <1>2, RecordsTyped, Zenon DEF XferRec
<1>4. y.pc = "reply" /\ y.rc = x.rc /\ y.last = x.last /\ y.toDo = x.toDo /\ y.kind = x.kind /\ y.id = x.id
  BY <1>1 DEF XferRec
<1>5. z.pc = "write" /\ z.rc = x.rc /\ z.last = x.last /\ z.toDo = x.toDo /\ z.kind = x.kind /\ z.id = x.id
  BY <1>2 DEF XferRec
<1>6. Shape(y) /\ Shape(z)
  BY <1>4, <1>5 DEF Shape, Holding
<1>7. Shape(Flushed(z)) /\ Flushed(z).pc \in Holding
  BY <1>3, <1>5, <1>6, FlushedShape
<1>. QED
  BY <1>1, <1>2, <1>4, <1>6, <1>7 DEF Sent, Holding

LEMMA SentSound ==
    ASSUME NEW x \in XferRec, Shape(x), x.pc = "write", NEW s \in Sensors, SoundIs(s, x, <<>>)
    PROVE  SoundIs(s, Sent(x), x.cmds.reply)
<1>0. x.cmds.reply \in Seq(Nat \X Nat) /\ x.owed = Len(x.cmds.reply) /\ x.got \o x.cmds.reply = AskedFor(s, x) /\ (x.last => x.toDo = 0)
      /\ x.got \in Seq(Nat \X Nat) /\ x.owed \in Nat
  BY XferFields DEF SoundIs
<1>1. CASE x.owed > 0
  <2>1. PICK y : y = [x EXCEPT !.cmds = NoCmds, !.pc = "reply"]
    OBVIOUS
  <2>2. y.pc = "reply" /\ y.cmds = NoCmds /\ y.got = x.got /\ y.owed = x.owed /\ y.last = x.last /\ y.toDo = x.toDo /\ y.kind = x.kind /\ y.id = x.id
    BY <2>1 DEF XferRec
  <2>3. AskedFor(s, y) = AskedFor(s, x)
    BY <2>2 DEF AskedFor, Built
  <2>4. SoundIs(s, y, x.cmds.reply)
    BY <1>0, <2>2, <2>3 DEF SoundIs
  <2>. QED
    BY <1>1, <2>1, <2>4 DEF Sent
<1>2. CASE ~(x.owed > 0)
  <2>0. x.owed = 0
    BY <1>0, <1>2
  <2>00. x.cmds.reply = <<>>
    BY <1>0, <2>0, SeqFacts
  <2>1. x.cmds.reply = <<>> /\ x.owed = 0 /\ x.got = AskedFor(s, x)
    BY <1>0, <2>0, <2>00, SeqFacts
  <2>2. PICK z : z = [x EXCEPT !.cmds = NoCmds]
    OBVIOUS
  <2>3. z \in XferRec
    BY <2>2, RecordsTyped, Zenon DEF XferRec
  <2>4. z.pc = "write" /\ z.rc = x.rc /\ z.cmds = NoCmds /\ z.got = x.got /\ z.owed = x.owed /\ z.last = x.last /\ z.toDo = x.toDo /\ z.kind = x.kind /\ z.id = x.id
    BY <2>2 DEF XferRec
  <2>5. Shape(z)
    BY <2>4 DEF Shape, Holding
  <2>6. AskedFor(s, z) = AskedFor(s, x)
    BY <2>4 DEF AskedFor, Built
  <2>7. PICK y : y = Flushed(z)
    OBVIOUS
  <2>8. y.pc = (IF x.last THEN "end" ELSE "build") /\ y.got = x.got /\ y.cmds = NoCmds /\ y.owed = 0 /\ y.toDo = x.toDo /\ y.last = x.last
        /\ AskedFor(s, y) = AskedFor(s, x)
    BY <2>1, <2>3, <2>4, <2>5, <2>6, <2>7, FlushedShape
  <2>9. NoCmds.reply = <<>> /\ x.got \o <<>> = x.got /\ Len(<<>>) = 0
    BY <1>0, SeqFacts DEF NoCmds
  <2>10. SoundIs(s, y, <<>>)
    BY <1>0, <2>1, <2>8, <2>9 DEF SoundIs
  <2>. QED
    BY <1>2, <2>1, <2>2, <2>7, <2>10 DEF Sent
<1>. QED
  BY <1>1, <1>2

LEMMA UpsetIs == ASSUME UsbTyped, NEW s, handle[s].dev \in Slots, Upset(s) PROVE dev'[handle[s].dev].upset
<1>1. dev[handle[s].dev] \in DevRec
  BY DEF UsbTyped, DevOK
<1>2. [dev[handle[s].dev] EXCEPT !.upset = TRUE].upset
  BY <1>1 DEF DevRec
<1>3. dev'[handle[s].dev] = [dev[handle[s].dev] EXCEPT !.upset = TRUE]
  BY DEF Upset, UsbTyped, DevOK
<1>. QED
  BY <1>2, <1>3

LEMMA BytesWrite == ASSUME UsbTyped, BridgesInv, LockInv, BytesInv, NEW s \in Sensors, Write(s) PROVE BytesInv'
<1>0. Transfer(s) /\ xfer[s].pc = "write" /\ xfer[s].pc \in Holding /\ UNCHANGED lock
  BY DEF Transfer, Write, Holding
<1> DEFINE x == xfer[s]
           r == Replies(s)
<1>1. /\ handle[s].dev \in Slots /\ lock[handle[s].dev] # Nobody /\ On(s).match \in Matches
      /\ x \in XferRec /\ Shape(x) /\ r \in Seq(Nat \X Nat) /\ usb[On(s).match] \in UsbRec
      /\ ~On(s).upset => SoundIs(s, x, r)
  BY <1>0, InMessage
<1>2. CASE WriteFine(s)
  <2>1. xfer'[s] = Sent(x) /\ dev' = dev
    BY <1>2 DEF WriteFine, UsbTyped, XferOK
  <2>2. Shape(Sent(x)) /\ Sent(x).pc \in Holding
    BY <1>0, <1>1, SentShape
  <2>3. usb'[On(s).match].replies = r \o x.cmds.reply
    <3>1. usb'[On(s).match] = Carry(s, x.cmds)
      BY <1>1, <1>2 DEF WriteFine, UsbTyped, UsbOK
    <3>2. Carry(s, x.cmds).replies = usb[On(s).match].replies \o x.cmds.reply
      BY <1>1 DEF Carry, UsbRec
    <3>. QED
      BY <3>1, <3>2 DEF Replies
  <2>4. ASSUME ~On(s).upset PROVE SoundIs(s, Sent(x), r \o x.cmds.reply)
    <3>1. r = <<>> /\ SoundIs(s, x, <<>>)
      BY <1>0, <1>1, <2>4 DEF SoundIs
    <3>2. <<>> \o x.cmds.reply = x.cmds.reply
      BY <1>1, XferFields, SeqFacts
    <3>. QED
      BY <1>0, <1>1, <3>1, <3>2, SentSound
  <2>5. Honest(s)'
    BY <2>1, <2>2 DEF Honest, Holding
  <2>6. dev'[handle[s].dev].upset = On(s).upset /\ lock'[handle[s].dev] # Nobody
    BY <1>0, <1>1, <2>1 DEF On
  <2>. QED
    BY <1>0, <2>1, <2>2, <2>3, <2>4, <2>5, <2>6, BytesStep
<1>3. CASE WriteRefused(s) \/ WriteLost(s)
  <2>1. xfer'[s] \in {Sent(x), Broken(x)} /\ Upset(s)
    BY <1>3 DEF WriteRefused, WriteLost, UsbTyped, XferOK
  <2>2. Shape(xfer'[s])
    BY <1>0, <1>1, <2>1, SentShape, BrokenShape
  <2>3. dev'[handle[s].dev].upset
    BY <1>1, <2>1, UpsetIs
  <2>. QED
    BY <1>0, <2>2, <2>3, BytesStep
<1>. QED
  BY <1>2, <1>3 DEF Write

LEMMA BytesReply == ASSUME UsbTyped, BridgesInv, LockInv, BytesInv, NEW s \in Sensors, Reply(s) PROVE BytesInv'
<1>0. Transfer(s) /\ xfer[s].pc = "reply" /\ xfer[s].pc \in Holding /\ UNCHANGED lock
  BY DEF Transfer, Reply, Holding
<1> DEFINE x == xfer[s]
           r == Replies(s)
<1>1. /\ handle[s].dev \in Slots /\ lock[handle[s].dev] # Nobody /\ On(s).match \in Matches
      /\ x \in XferRec /\ Shape(x) /\ r \in Seq(Nat \X Nat) /\ usb[On(s).match] \in UsbRec
      /\ ~On(s).upset => SoundIs(s, x, r)
  BY <1>0, InMessage
<1>2. CASE Collect(s)
  <2> DEFINE got == x.got \o SubSeq(r, 1, x.owed)
             y == [x EXCEPT !.got = got, !.owed = 0]
  <2>1. xfer'[s] = Flushed(y) /\ dev' = dev /\ x.owed <= Len(r)
    <3>1. x.owed \in Nat /\ Len(r) \in Nat
      BY <1>1, XferFields
    <3>. QED
      BY <1>2, <3>1 DEF Collect, UsbTyped, XferOK
  <2>2. x.got \in Seq(Nat \X Nat) /\ x.owed \in Nat /\ got \in Seq(Nat \X Nat)
    <3>1. x.got \in Seq(Nat \X Nat) /\ x.owed \in Nat
      BY <1>1, XferFields
    <3>2. SubSeq(r, 1, x.owed) \in Seq(Nat \X Nat)
      BY <1>1, <2>1, <3>1
    <3>. QED
      BY <3>1, <3>2
  <2> HIDE DEF got
  <2>3. y \in XferRec
    <3>1. 0 \in Nat
      OBVIOUS
    <3>. QED
      BY <1>1, <2>2, <3>1, Zenon DEF XferRec
  <2>4. y.pc = "reply" /\ y.got = got /\ y.owed = 0 /\ y.cmds = x.cmds /\ y.rc = x.rc /\ y.last = x.last /\ y.toDo = x.toDo /\ y.kind = x.kind /\ y.id = x.id
    BY <1>0, <1>1 DEF XferRec
  <2> HIDE DEF y
  <2>5. Shape(y) /\ AskedFor(s, y) = AskedFor(s, x)
    BY <1>0, <1>1, <2>4 DEF Shape, AskedFor, Built, Holding
  <2>6. PICK z : z = Flushed(y)
    OBVIOUS
  <2>7. /\ Shape(z) /\ z.pc = (IF x.last THEN "end" ELSE "build") /\ z.got = got /\ z.cmds = x.cmds /\ z.owed = 0 /\ z.toDo = x.toDo /\ z.last = x.last
        /\ AskedFor(s, z) = AskedFor(s, x) /\ z.pc \in Holding
    BY <2>3, <2>4, <2>5, <2>6, FlushedShape
  <2>8. usb'[On(s).match].replies = SubSeq(r, x.owed + 1, Len(r))
    BY <1>1, <1>2 DEF Collect, Drop, Replies, UsbTyped, UsbOK, UsbRec
  <2>9. ASSUME ~On(s).upset PROVE SoundIs(s, z, SubSeq(r, x.owed + 1, Len(r)))
    <3>1. x.cmds = NoCmds /\ x.got \o r = AskedFor(s, x) /\ x.owed = Len(r) /\ (x.last => x.toDo = 0)
      BY <1>0, <1>1, <2>9 DEF SoundIs
    <3>2. SubSeq(r, 1, x.owed) = r /\ SubSeq(r, x.owed + 1, Len(r)) = <<>>
      BY <1>1, <3>1, SeqFacts
    <3>3. got = AskedFor(s, x)
      BY <3>1, <3>2 DEF got
    <3>4. NoCmds.reply = <<>> /\ got \o <<>> = got /\ Len(<<>>) = 0
      BY <2>2, SeqFacts DEF NoCmds
    <3>. QED
      BY <2>7, <3>1, <3>2, <3>3, <3>4 DEF SoundIs
  <2>10. Honest(s)'
    BY <2>1, <2>6, <2>7 DEF Honest, Holding
  <2>11. dev'[handle[s].dev].upset = On(s).upset /\ lock'[handle[s].dev] # Nobody
    BY <1>0, <1>1, <2>1 DEF On
  <2>. QED
    BY <1>0, <2>1, <2>6, <2>7, <2>8, <2>9, <2>10, <2>11, BytesStep
<1>3. CASE TimeOut(s)
  <2>1. xfer'[s] = Broken(x) /\ Upset(s)
    BY <1>3 DEF TimeOut, UsbTyped, XferOK
  <2>2. Shape(xfer'[s])
    BY <1>0, <1>1, <2>1, BrokenShape
  <2>3. dev'[handle[s].dev].upset
    BY <1>1, <2>1, UpsetIs
  <2>. QED
    BY <1>0, <2>2, <2>3, BytesStep
<1>. QED
  BY <1>2, <1>3 DEF Reply

LEMMA BytesEnd == ASSUME UsbTyped, BridgesInv, LockInv, BytesInv, NEW s \in Sensors, End(s) PROVE BytesInv'
<1>0. Transfer(s) /\ xfer[s].pc = "end" /\ xfer[s].pc \in Holding /\ UNCHANGED <<dev, usb>>
  BY DEF Transfer, End, Holding
<1> DEFINE x == xfer[s]
           r == Replies(s)
<1>1. /\ handle[s].dev \in Slots /\ On(s).match \in Matches
      /\ x \in XferRec /\ Shape(x)
      /\ ~On(s).upset => SoundIs(s, x, r)
  BY <1>0, InMessage
<1>2. PICK y : y = xfer'[s]
  OBVIOUS
<1>3. y.pc = "rest" /\ y.rc \in {x.rc, -1} /\ y.got = x.got /\ y.toDo = x.toDo /\ y.last = x.last /\ y.kind = x.kind /\ y.id = x.id
  BY <1>1, <1>2 DEF End, UsbTyped, XferOK, XferRec
<1>4. Shape(y)
  BY <1>1, <1>3 DEF Shape, Holding
<1>5. ASSUME ~On(s).upset PROVE r = <<>> /\ Honest(s)'
  <2>1. r = <<>> /\ x.got = AskedFor(s, x) /\ x.toDo = 0
    BY <1>0, <1>1, <1>5 DEF SoundIs
  <2>2. x.got = Due(s)
    BY <2>1, DueRun
  <2>3. Due(s)' = Due(s)
    <3>1. UNCHANGED handle
      BY DEF End
    <3>. QED
      BY <1>2, <1>3, <3>1 DEF Due, Tag, IsI2C
  <2>. QED
    BY <1>2, <1>3, <2>1, <2>2, <2>3 DEF Honest
<1>6. dev'[handle[s].dev].upset = On(s).upset /\ usb'[On(s).match].replies = r
  BY <1>0 DEF On, Replies
<1>. QED
  BY <1>0, <1>2, <1>3, <1>4, <1>5, <1>6, BytesStep DEF Holding

\* Closing a handle leaves a bridge that another is on as it was.
LEMMA Closing ==
    ASSUME UsbTyped, BridgesInv, Close
    PROVE  /\ main.pc = "close" /\ main'.pc \in {"close", "done"} /\ UNCHANGED <<want, lock, xfer, toCome>>
           /\ \A e \in Slots : dev'[e].refs > 0 =>
                 /\ dev[e].refs > 0 /\ dev'[e].match = dev[e].match /\ dev'[e].upset = dev[e].upset /\ dev'[e].spiHz = dev[e].spiHz
                 /\ usb'[dev[e].match] = usb[dev[e].match]
           /\ \A t \in Sensors : handle'[t].used =>
                 /\ handle'[t] = handle[t] /\ handle[t].used
                 /\ On(t)'.match = On(t).match /\ On(t)'.upset = On(t).upset /\ On(t)'.spiHz = On(t).spiHz
                 /\ usb'[On(t).match] = usb[On(t).match]
           /\ \A m \in Matches : usb'[m].wrong = usb[m].wrong /\ usb'[m].fast = usb[m].fast
<1>0. PICK s : s = main.at
  OBVIOUS
<1>1. PICK d : d = handle[s].dev
  OBVIOUS
<1>2. s \in Sensors /\ handle \in [Sensors -> HandleRec] /\ dev \in [Slots -> DevRec] /\ usb \in [Matches -> UsbRec]
  BY <1>0 DEF UsbTyped, MainOK, HandleOK, DevOK, UsbOK
<1>3. main.pc = "close" /\ main'.pc \in {"close", "done"} /\ UNCHANGED <<want, lock, xfer, toCome>>
  BY DEF Close, UsbTyped, MainOK
<1>4. ~handle'[s].used /\ \A t \in Sensors : t # s => handle'[t] = handle[t]
  BY <1>0, <1>2 DEF Close, NoHandle
<1>5. CASE ~handle[s].used
  <2>1. dev' = dev /\ usb' = usb
    BY <1>0, <1>5 DEF Close
  <2>2. \A t \in Sensors : handle'[t].used => handle'[t] = handle[t]
    BY <1>4
  <2>. QED
    BY <1>3, <2>1, <2>2 DEF On
<1>6. CASE handle[s].used
  <2>1. d \in Slots /\ dev[d].refs > 0 /\ dev[d].match \in Matches
    BY <1>1, <1>2, <1>6, UsedIsOpen DEF On
  <2>2. \A e \in Slots : e # d => dev'[e] = dev[e]
    BY <1>0, <1>1, <1>2 DEF Close
  <2>3. \A m \in Matches : m # dev[d].match => usb'[m] = usb[m]
    BY <1>0, <1>1, <1>2 DEF Close, LetGo
  <2>4. ASSUME NEW e \in Slots, dev'[e].refs > 0
        PROVE  /\ dev[e].refs > 0 /\ dev'[e].match = dev[e].match /\ dev'[e].upset = dev[e].upset /\ dev'[e].spiHz = dev[e].spiHz
               /\ usb'[dev[e].match] = usb[dev[e].match]
    <3>1. CASE e = d
      <4>1. dev[d].refs # 1
        <5>1. SUFFICES ASSUME dev[d].refs = 1 PROVE FALSE
          OBVIOUS
        <5>2. dev' = [dev EXCEPT ![d] = NoDev]
          BY <1>0, <1>1, <1>6, <5>1 DEF Close
        <5>3. dev'[d] = NoDev /\ NoDev.refs = 0
          BY <1>2, <2>1, <5>2 DEF NoDev
        <5>. QED
          BY <2>4, <3>1, <5>3
      <4>2. usb' = usb /\ dev' = [dev EXCEPT ![d] = [dev[d] EXCEPT !.refs = @ - 1]]
        BY <1>0, <1>1, <1>2, <1>6, <4>1 DEF Close
      <4>3. dev'[d].match = dev[d].match /\ dev'[d].upset = dev[d].upset /\ dev'[d].spiHz = dev[d].spiHz
        BY <1>2, <2>1, <4>2 DEF DevRec
      <4>. QED
        BY <2>1, <3>1, <4>2, <4>3
    <3>2. CASE e # d
      <4>1. dev'[e] = dev[e] /\ dev[e].refs > 0
        BY <2>2, <2>4, <3>2
      <4>2. dev[e].match # dev[d].match /\ dev[e].match \in Matches
        BY <2>1, <3>2, <4>1, Apart, OpenIsNamed
      <4>. QED
        BY <2>3, <4>1, <4>2
    <3>. QED
      BY <3>1, <3>2
  <2>5. ASSUME NEW t \in Sensors, handle'[t].used
        PROVE  /\ handle'[t] = handle[t] /\ handle[t].used
               /\ On(t)'.match = On(t).match /\ On(t)'.upset = On(t).upset /\ On(t)'.spiHz = On(t).spiHz
               /\ usb'[On(t).match] = usb[On(t).match]
    <3>1. t # s /\ handle'[t] = handle[t]
      BY <1>4, <2>5
    <3>2. handle[t].dev \in Slots
      BY <2>5, <3>1, UsedIsOpen
    <3>3. dev'[handle[t].dev].refs > 0
      <4>1. RefsCount'
        BY BridgesClose DEF BridgesInv
      <4>2. PICK e \in Slots : e = handle[t].dev
        BY <3>2
      <4>3. dev'[e].refs = One(UsedOn("imu", e)') + One(UsedOn("mag", e)')
        BY <4>1 DEF RefsCount, UsedOn
      <4>4. UsedOn(t, e)'
        BY <2>5, <3>1, <4>2 DEF UsedOn
      <4>5. (t = "imu" \/ t = "mag") /\ \A a : One(a) \in {0, 1}
        BY DEF Sensors, One
      <4>6. One(UsedOn(t, e)') = 1
        BY <4>4 DEF One
      <4>. QED
        BY <4>2, <4>3, <4>5, <4>6
    <3>. QED
      BY <2>4, <2>5, <3>1, <3>2, <3>3 DEF On
  <2>6. ASSUME NEW m \in Matches PROVE usb'[m].wrong = usb[m].wrong /\ usb'[m].fast = usb[m].fast
    <3>1. usb' = usb \/ usb' = [usb EXCEPT ![dev[d].match] = [Unplugged EXCEPT !.wrong = usb[dev[d].match].wrong, !.fast = usb[dev[d].match].fast]]
      BY <1>0, <1>1 DEF Close, LetGo
    <3>. QED
      BY <1>2, <2>1, <3>1 DEF Unplugged
  <2>. QED
    BY <1>3, <2>4, <2>5, <2>6
<1>. QED
  BY <1>5, <1>6

\* Setting a part up changes the divisor, the levels and what the program believes of them.
LEMMA Tuning ==
    ASSUME UsbTyped, BridgesInv, Setup
    PROVE  /\ main.pc = "setup" /\ UNCHANGED <<want, lock, xfer>>
           /\ \A e \in Slots : dev'[e].refs = dev[e].refs /\ dev'[e].match = dev[e].match
           /\ \A e \in Slots : dev'[e].upset = dev[e].upset \/ (dev'[e].upset /\ \E k : Fault(k))
           /\ \A t \in Sensors : handle'[t].used = handle[t].used /\ handle'[t].dev = handle[t].dev /\ handle'[t].cs = handle[t].cs
           /\ \A m \in Matches : usb'[m].replies = usb[m].replies /\ usb'[m].wrong = usb[m].wrong /\ usb'[m].fast = usb[m].fast
<1>1. PICK s \in Sensors : s = main.at
  BY DEF UsbTyped, MainOK
<1>2. Tuned(s, handle[s].dev, want[s].spi) \/ Believed(s, handle[s].dev, want[s].spi) \/ UNCHANGED <<dev, handle, usb>>
  BY <1>1 DEF Setup, Unfit
<1>3. dev \in [Slots -> DevRec] /\ \A r \in DevRec : DOMAIN r = {"refs", "match", "proto", "hz", "spiHz", "mode", "upset"}
  BY DEF UsbTyped, DevOK, DevRec
<1>4. handle \in [Sensors -> HandleRec] /\ \A r \in HandleRec : DOMAIN r = {"used", "dev", "cs", "mode", "hz"}
  BY DEF UsbTyped, HandleOK, HandleRec
<1>5. usb \in [Matches -> UsbRec] /\ \A r \in UsbRec : DOMAIN r = {"claimed", "clock", "sel", "replies", "wrong", "fast"}
  BY DEF UsbTyped, UsbOK, UsbRec
<1>6. /\ \A e \in Slots : dev'[e].refs = dev[e].refs /\ dev'[e].match = dev[e].match
      /\ \A e \in Slots : dev'[e].upset = dev[e].upset \/ (dev'[e].upset /\ \E k : Fault(k))
  <2>1. CASE Believed(s, handle[s].dev, want[s].spi)
    <3>1. PICK d, spi : d = handle[s].dev /\ spi = want[s].spi
      OBVIOUS
    <3>2. Fault("lost") /\ dev' = [dev EXCEPT ![d].spiHz = spi.hz, ![d].mode = spi.mode, ![d].upset = TRUE]
      BY <2>1, <3>1, Zenon DEF Believed
    <3>3. ASSUME NEW e \in Slots
          PROVE  dev'[e].refs = dev[e].refs /\ dev'[e].match = dev[e].match /\ (dev'[e].upset = dev[e].upset \/ dev'[e].upset)
      <4>1. dev[e] \in DevRec /\ DOMAIN dev[e] = {"refs", "match", "proto", "hz", "spiHz", "mode", "upset"}
        BY <1>3
      <4>2. CASE e = d
        <5>1. dev'[e] = [dev[e] EXCEPT !.spiHz = spi.hz, !.mode = spi.mode, !.upset = TRUE]
          BY <1>3, <3>2, <4>2
        <5>. QED
          BY <4>1, <5>1
      <4>3. CASE e # d
        <5>1. dev'[e] = dev[e]
          BY <1>3, <3>2, <4>3
        <5>. QED
          BY <5>1
      <4>. QED
        BY <4>2, <4>3
    <3>. QED
      BY <3>2, <3>3
  <2>2. CASE ~Believed(s, handle[s].dev, want[s].spi)
    BY <1>2, <1>3, <2>2, SMTT(30) DEF Tuned
  <2>. QED
    BY <2>1, <2>2
<1>7. \A t \in Sensors : handle'[t].used = handle[t].used /\ handle'[t].dev = handle[t].dev /\ handle'[t].cs = handle[t].cs
  BY <1>2, <1>4 DEF Tuned, Believed
<1>8. \A m \in Matches : usb'[m].replies = usb[m].replies /\ usb'[m].wrong = usb[m].wrong /\ usb'[m].fast = usb[m].fast
  <2>1. CASE usb' = usb
    BY <2>1
  <2>2. CASE usb' # usb
    <3>1. Tuned(s, handle[s].dev, want[s].spi)
      BY <1>2, <2>2 DEF Believed
    <3>2. PICK n, hz : usb' = [usb EXCEPT ![n].clock = hz, ![n].sel = {}]
      BY <3>1, Zenon DEF Tuned
    <3>3. ASSUME NEW m \in Matches
          PROVE  usb'[m].replies = usb[m].replies /\ usb'[m].wrong = usb[m].wrong /\ usb'[m].fast = usb[m].fast
      <4>1. usb[m] \in UsbRec /\ DOMAIN usb[m] = {"claimed", "clock", "sel", "replies", "wrong", "fast"}
        BY <1>5
      <4>2. usb'[m] = usb[m] \/ usb'[m] = [usb[m] EXCEPT !.clock = hz, !.sel = {}]
        BY <1>5, <3>2
      <4>. QED
        BY <4>1, <4>2
    <3>. QED
      BY <3>3
  <2>. QED
    BY <2>1, <2>2
<1>. QED
  BY <1>6, <1>7, <1>8 DEF Setup

LEMMA BytesInit == BusInit => BytesInv
<1> SUFFICES ASSUME BusInit PROVE BytesInv
  OBVIOUS
<1>1. \A s \in Sensors : xfer[s] = Resting /\ ~handle[s].used
  BY DEF BusInit, NoHandle
<1>2. Shape(Resting)
  BY DEF Shape, Resting, Holding, Pieces
<1>3. \A d \in Slots : dev[d].refs = 0
  BY DEF BusInit, NoDev
<1>. QED
  BY <1>1, <1>2, <1>3 DEF BytesInv

\* Main's steps: the readers rest.
LEMMA BytesAtRest ==
    ASSUME UsbTyped, BridgesInv, BytesInv, UNCHANGED xfer, main.pc \notin {"run", "join"},
           main'.pc \in {"open", "setup"} => main.pc \in {"open", "setup"},
           \A d \in Slots : (dev'[d].refs > 0 /\ ~dev'[d].upset /\ lock'[d] = Nobody) => usb'[dev'[d].match].replies = <<>>,
           main.pc \in {"open", "setup"} \/ \A t \in Sensors : handle'[t].used => (handle'[t] = handle[t] /\ On(t)'.upset = On(t).upset)
    PROVE  BytesInv'
<1>1. \A s \in Sensors : xfer'[s] = xfer[s] /\ xfer[s].pc = "rest"
  BY DEF BridgesInv, Place, Sensors
<1>2. ASSUME NEW t \in Sensors, handle'[t].used, ~On(t)'.upset PROVE Honest(t)'
  <2>1. CASE main.pc \in {"open", "setup"}
    <3>1. xfer'[t] = Resting
      BY <1>1, <2>1 DEF BytesInv
    <3>. QED
      BY <3>1 DEF Honest, Resting
  <2>2. CASE main.pc \notin {"open", "setup"}
    <3>1. handle'[t] = handle[t] /\ handle[t].used /\ ~On(t).upset
      BY <1>2, <2>2
    <3>2. Honest(t)
      BY <3>1 DEF BytesInv
    <3>3. Due(t)' = Due(t)
      BY <1>1, <3>1 DEF Due, Tag, IsI2C
    <3>. QED
      BY <1>1, <3>2, <3>3 DEF Honest
  <2>. QED
    BY <2>1, <2>2
<1>3. main'.pc \in {"open", "setup"} => \A s \in Sensors : xfer'[s] = Resting
  BY <1>1 DEF BytesInv
<1>4. \A s \in Sensors : Shape(xfer'[s])
  BY <1>1 DEF BytesInv
<1>. QED
  BY <1>1, <1>2, <1>3, <1>4 DEF BytesInv, Holding

LEMMA BytesOpen == ASSUME UsbTyped, BridgesInv, BytesInv, Open PROVE BytesInv'
<1>1. main.pc = "open" /\ UNCHANGED <<want, lock, xfer>>
  BY OpenCases
<1>2. dev \in [Slots -> DevRec] /\ usb \in [Matches -> UsbRec]
  BY DEF UsbTyped, DevOK, UsbOK
<1>3. ASSUME NEW e \in Slots, dev'[e].refs > 0, ~dev'[e].upset, lock'[e] = Nobody PROVE usb'[dev'[e].match].replies = <<>>
  <2>1. (dev[e].refs > 0 /\ ~dev[e].upset) => usb[dev[e].match].replies = <<>>
    BY <1>1, <1>3 DEF BytesInv
  <2>2. ASSUME NEW d \in Slots, d \in Named(Asked), Share(d) PROVE usb'[dev'[e].match].replies = <<>>
    <3>1. dev[d].refs > 0 /\ usb' = usb /\ dev' = [dev EXCEPT ![d] = [dev[d] EXCEPT !.refs = @ + 1]]
      BY <1>2, <2>2 DEF Named, Share
    <3>2. dev'[e].match = dev[e].match /\ dev'[e].upset = dev[e].upset /\ (e # d => dev'[e] = dev[e])
      BY <1>2, <3>1 DEF DevRec
    <3>. QED
      BY <1>3, <2>1, <3>1, <3>2
  <2>3. ASSUME NEW d \in Slots, Named(Asked) = {}, TakeOver(d) PROVE usb'[dev'[e].match].replies = <<>>
    <3>0. PICK m \in Matches : m = Asked.match
      BY AskedTyped
    <3>1. /\ usb' = [usb EXCEPT ![m] = Configured(Claimed(usb[m]), Asked)]
          /\ dev' = [dev EXCEPT ![d] = [New EXCEPT !.refs = 1]]
      BY <1>2, <2>3, <3>0 DEF TakeOver
    <3>2. Configured(Claimed(usb[m]), Asked).replies = <<>>
      BY <1>2 DEF Configured, Claimed, UsbRec
    <3>3. CASE e = d
      <4>1. dev'[e].match = m
        BY <1>2, <3>0, <3>1, <3>3 DEF New, NoDev
      <4>. QED
        BY <1>2, <3>1, <3>2, <4>1
    <3>4. CASE e # d
      <4>1. dev'[e] = dev[e]
        BY <1>2, <3>1, <3>4
      <4>2. dev[e].match # m /\ dev[e].match \in Matches
        BY <1>3, <2>3, <3>0, <4>1, OpenIsNamed DEF Named
      <4>3. usb'[dev[e].match] = usb[dev[e].match]
        BY <1>2, <3>1, <4>2
      <4>. QED
        BY <1>3, <2>1, <4>1, <4>3
    <3>. QED
      BY <3>3, <3>4
  <2>4. ASSUME NEW d \in Slots, Untaken(d) PROVE usb'[dev'[e].match].replies = <<>>
    <3>1. usb' = usb /\ dev' = [dev EXCEPT ![d] = New]
      BY <2>4 DEF Untaken
    <3>2. New.refs = 0
      BY DEF New, NoDev
    <3>3. e # d /\ dev'[e] = dev[e]
      BY <1>2, <1>3, <3>1, <3>2
    <3>. QED
      BY <1>3, <2>1, <3>1, <3>3
  <2>5. CASE Unfit
    BY <1>3, <2>1, <2>5 DEF Unfit
  <2>. QED
    BY <2>2, <2>3, <2>4, <2>5, OpenCases
<1>. QED
  BY <1>1, <1>3, BytesAtRest

LEMMA BytesNext == UsbTyped /\ BridgesInv /\ LockInv /\ BytesInv /\ [BusNext]_busVars => BytesInv'
<1> SUFFICES ASSUME UsbTyped, BridgesInv, LockInv, BytesInv, [BusNext]_busVars PROVE BytesInv'
  OBVIOUS
<1>1. CASE Open
  BY <1>1, BytesOpen
<1>2. CASE Setup
  <2>1. \A d \in Slots : (dev'[d].refs > 0 /\ ~dev'[d].upset /\ lock'[d] = Nobody) => usb'[dev'[d].match].replies = <<>>
    BY <1>2, Tuning, OpenIsNamed DEF BytesInv
  <2>. QED
    BY <1>2, <2>1, Tuning, BytesAtRest
<1>3. CASE Close
  <2>1. \A d \in Slots : (dev'[d].refs > 0 /\ ~dev'[d].upset /\ lock'[d] = Nobody) => usb'[dev'[d].match].replies = <<>>
    BY <1>3, Closing DEF BytesInv
  <2>. QED
    BY <1>3, <2>1, Closing, BytesAtRest
<1>4. CASE Stop \/ Joined \/ UNCHANGED busVars
  <2>1. UNCHANGED <<dev, handle, lock, xfer, usb>> /\ (main'.pc \in {"open", "setup"} => main' = main)
    BY <1>4 DEF Stop, Joined, busVars, UsbTyped, MainOK
  <2>. QED
    BY <2>1, ZenonT(60) DEF BytesInv, Sound, SoundIs, Honest, On, AskedFor, FirstByte, Due, Tag, IsI2C
<1>5. ASSUME NEW s \in Sensors, Transfer(s) PROVE BytesInv'
  BY <1>5, BytesAsk, BytesBegin, BytesBuild, BytesWrite, BytesReply, BytesEnd DEF Transfer
<1>. QED
  BY <1>1, <1>2, <1>3, <1>4, <1>5, BusSteps

\* A bridge speaks one protocol.
LEMMA SameKind ==
    ASSUME UsbTyped, BridgesInv, NEW s \in Sensors, NEW t \in Sensors, handle[s].used, handle[t].used, handle[s].dev = handle[t].dev
    PROVE  IsI2C(s) <=> IsI2C(t)
<1>1. \A o \in Sensors : handle[o].used => (On(o).proto = (IF IsI2C(o) THEN "i2c" ELSE "spi"))
  BY DEF BridgesInv, HandlesOnBridges, Proto, IsI2C
<1>2. On(s).proto = On(t).proto
  BY DEF On
<1>. QED
  BY <1>1, <1>2

\* What a reader's step has to leave for its own bridge.
LEMMA ClockStep ==
    ASSUME UsbTyped, BridgesInv, LockInv, LockInv', ClockInv, NEW s \in Sensors, Transfer(s),
           NEW d \in Slots, d = handle[s].dev, NEW m \in Matches, m = On(s).match,
           ~dev'[d].upset => ~usb'[m].fast,
           (~IsI2C(s) /\ xfer'[s].pc \in Holding) => dev'[d].spiHz = handle[s].hz,
           (~IsI2C(s) /\ ~dev'[d].upset) =>
               \/ usb'[m].clock = dev'[d].spiHz
               \/ \E o \in Sensors : lock'[d] = o /\ xfer'[o].pc \in {"build", "write"} /\ xfer'[o].cmds.retune,
           dev'[d].spiHz = dev[d].spiHz \/ lock'[d] = s
    PROVE  ClockInv'
<1>0. UNCHANGED <<want, main, handle>> /\ main.pc \in {"run", "join"} /\ handle[s].used
  BY ReaderKeeps
<1>1. \A e \in Slots : dev'[e].refs = dev[e].refs /\ dev'[e].match = dev[e].match /\ (dev[e].upset => dev'[e].upset)
  BY ReaderKeeps
<1>2. d \in Slots /\ dev[d].refs > 0 /\ dev[d].match = m
  BY <1>0, UsedIsOpen DEF On
<1>3. ASSUME NEW t \in Sensors, handle[t].used, NEW e \in Slots, e = handle[t].dev, NEW n \in Matches, n = On(t).match
      PROVE  /\ ~dev'[e].upset => ~usb'[n].fast
             /\ (~IsI2C(t) /\ xfer'[t].pc \in Holding) => dev'[e].spiHz = handle[t].hz
             /\ (~IsI2C(t) /\ ~dev'[e].upset) =>
                   \/ usb'[n].clock = dev'[e].spiHz
                   \/ \E o \in Sensors : lock'[e] = o /\ xfer'[o].pc \in {"build", "write"} /\ xfer'[o].cmds.retune
  <2>1. /\ ~dev[e].upset => ~usb[n].fast
        /\ (~IsI2C(t) /\ xfer[t].pc \in Holding) => dev[e].spiHz = handle[t].hz
        /\ (~IsI2C(t) /\ ~dev[e].upset) =>
             \/ usb[n].clock = dev[e].spiHz
             \/ \E o \in Sensors : lock[e] = o /\ xfer[o].pc \in {"build", "write"} /\ xfer[o].cmds.retune
    BY <1>3 DEF ClockInv, On
  <2>2. CASE e = d
    <3>1. n = m
      BY <1>2, <1>3, <2>2 DEF On
    <3>2. IsI2C(t) <=> IsI2C(s)
      BY <1>0, <1>3, <2>2, SameKind
    <3>3. (~IsI2C(t) /\ xfer'[t].pc \in Holding) => dev'[e].spiHz = handle[t].hz
      <4>1. CASE t = s
        BY <2>2, <4>1
      <4>2. CASE t # s
        <5>1. xfer'[t] = xfer[t]
          BY <4>2, Local
        <5>2. xfer'[t].pc \in Holding => lock'[handle'[t].dev] = t
          BY DEF LockInv
        <5>3. handle'[t].dev = d
          BY <1>0, <1>3, <2>2
        <5>. QED
          BY <2>1, <2>2, <4>2, <5>1, <5>2, <5>3
      <4>. QED
        BY <4>1, <4>2
    <3>. QED
      BY <2>2, <3>1, <3>2, <3>3
  <2>3. CASE e # d
    <3>1. dev'[e] = dev[e] /\ lock'[e] = lock[e]
      BY <2>3, Local
    <3>2. n # m
      BY <1>2, <1>3, <2>3, UsedIsOpen, Apart DEF On
    <3>3. usb'[n] = usb[n]
      BY <3>2, Local
    <3>4. t # s /\ xfer'[t] = xfer[t]
      BY <1>3, <2>3, Local
    <3>5. ASSUME NEW o \in Sensors, lock[e] = o PROVE xfer'[o] = xfer[o]
      <4>1. handle[o].dev = e
        BY <3>5, RecordsTyped DEF LockInv
      <4>. QED
        BY <2>3, <4>1, Local
    <3>. QED
      BY <2>1, <3>1, <3>3, <3>4, <3>5
  <2>. QED
    BY <2>2, <2>3
<1>4. ASSUME NEW t \in Sensors, handle[t].used
      PROVE  /\ dev'[handle[t].dev].match = On(t).match
             /\ ~dev'[handle[t].dev].upset => ~usb'[On(t).match].fast
             /\ (~IsI2C(t) /\ xfer'[t].pc \in Holding) => dev'[handle[t].dev].spiHz = handle[t].hz
             /\ (~IsI2C(t) /\ ~dev'[handle[t].dev].upset) =>
                   \/ usb'[On(t).match].clock = dev'[handle[t].dev].spiHz
                   \/ \E o \in Sensors : lock'[handle[t].dev] = o /\ xfer'[o].pc \in {"build", "write"} /\ xfer'[o].cmds.retune
  <2>1. handle[t].dev \in Slots /\ On(t).match \in Matches
    BY <1>4, UsedIsOpen
  <2>. QED
    BY <1>1, <1>3, <1>4, <2>1 DEF On
<1>. QED
  BY <1>0, <1>4 DEF ClockInv, On, IsI2C

LEMMA ClockQuiet ==
    ASSUME UsbTyped, BridgesInv, LockInv, BytesInv, ClockInv, NEW s \in Sensors, Ask(s) \/ Begin(s) \/ Build(s) \/ End(s)
    PROVE  ClockInv'
<1>0. Transfer(s) /\ UNCHANGED usb
  BY DEF Transfer, Ask, Begin, Build, End
<1>1. PICK d \in Slots : d = handle[s].dev
  BY <1>0, ReaderKeeps, UsedIsOpen
<1>2. PICK m \in Matches : m = On(s).match
  BY <1>0, ReaderKeeps, UsedIsOpen
<1>3. /\ ~dev[d].upset => ~usb[m].fast
      /\ (~IsI2C(s) /\ xfer[s].pc \in Holding) => dev[d].spiHz = handle[s].hz
      /\ (~IsI2C(s) /\ ~dev[d].upset) =>
            \/ usb[m].clock = dev[d].spiHz
            \/ \E o \in Sensors : lock[d] = o /\ xfer[o].pc \in {"build", "write"} /\ xfer[o].cmds.retune
  BY <1>0, <1>1, <1>2, ReaderKeeps DEF ClockInv, On
<1>4. dev'[d].upset = dev[d].upset
  <2>1. dev \in [Slots -> DevRec] /\ \A r \in DevRec : DOMAIN r = {"refs", "match", "proto", "hz", "spiHz", "mode", "upset"}
    BY DEF UsbTyped, DevOK, DevRec
  <2>2. dev' = dev \/ dev' = [dev EXCEPT ![handle[s].dev].spiHz = handle[s].hz]
    BY DEF Ask, Begin, Build, End
  <2>. QED
    BY <2>1, <2>2
<1>5. LockInv'
  BY <1>0, LockNext DEF BusNext
<1>6. xfer \in [Sensors -> XferRec] /\ xfer[s] \in XferRec /\ lock \in [Slots -> Sensors \cup {Nobody}] /\ handle[s].used
  BY <1>0, ReaderKeeps DEF UsbTyped, XferOK, LockOK
<1>7. CASE Ask(s)
  <2>1. UNCHANGED <<dev, lock>> /\ xfer[s].pc = "rest" /\ xfer'[s].pc = "ask" /\ \A t \in Sensors : t # s => xfer'[t] = xfer[t]
    BY <1>6, <1>7 DEF Ask, Resting
  <2>2. \A o \in Sensors : lock[d] = o => xfer'[o] = xfer[o]
    BY <2>1, RecordsTyped DEF LockInv, Holding
  <2>3. (~IsI2C(s) /\ ~dev'[d].upset) =>
            \/ usb'[m].clock = dev'[d].spiHz
            \/ \E o \in Sensors : lock'[d] = o /\ xfer'[o].pc \in {"build", "write"} /\ xfer'[o].cmds.retune
    BY <1>0, <1>3, <2>1, <2>2
  <2>4. xfer'[s].pc \notin Holding
    BY <2>1 DEF Holding
  <2>5. dev'[d].spiHz = dev[d].spiHz /\ (~dev'[d].upset => ~usb'[m].fast)
    BY <1>0, <1>3, <2>1
  <2>. QED
    BY <1>0, <1>1, <1>2, <1>5, <2>3, <2>4, <2>5, ClockStep
<1>8. CASE Begin(s)
  <2>1. lock[d] = Nobody /\ lock'[d] = s /\ s # Nobody
    BY <1>1, <1>6, <1>8, RecordsTyped DEF Begin, MayTake
  <2>2. ~IsI2C(s) => (xfer'[s].pc = "build" /\ xfer'[s].cmds = [NoCmds EXCEPT !.retune = Retuned(s), !.select = TRUE])
    BY <1>6, <1>8 DEF Begin, XferRec
  <2>3. ~IsI2C(s) => (xfer'[s].cmds.retune <=> Retuned(s))
    BY <2>2 DEF NoCmds, Retuned
  <2>4. ~IsI2C(s) => dev'[d].spiHz = handle[s].hz /\ (~Retuned(s) => dev[d].spiHz = handle[s].hz)
    <3>1. dev \in [Slots -> DevRec] /\ \A r \in DevRec : DOMAIN r = {"refs", "match", "proto", "hz", "spiHz", "mode", "upset"}
      BY DEF UsbTyped, DevOK, DevRec
    <3>. QED
      BY <1>1, <1>8, <3>1 DEF Begin, Retuned, On
  <2>5. ~\E o \in Sensors : lock[d] = o
    BY <2>1, RecordsTyped
  <2>. QED
    BY <1>0, <1>1, <1>2, <1>3, <1>4, <1>5, <1>6, <2>1, <2>2, <2>3, <2>4, <2>5, ClockStep
<1>9. CASE Build(s)
  <2>1. UNCHANGED <<dev, lock>> /\ xfer[s].pc = "build" /\ \A t \in Sensors : t # s => xfer'[t] = xfer[t]
    BY <1>6, <1>9 DEF Build
  <2>2. xfer'[s].pc \in {"build", "write"} /\ xfer'[s].cmds.retune = xfer[s].cmds.retune
    <3>1. xfer[s].cmds \in Cmds /\ \A c \in Cmds : DOMAIN c = {"retune", "select", "data", "reply", "release"}
      BY <1>6, XferFields DEF Cmds
    <3>2. DOMAIN xfer[s] = {"pc", "kind", "cmds", "owed", "got", "toDo", "last", "rc", "id"}
      BY <1>6 DEF XferRec
    <3>. QED
      BY <1>6, <1>9, <2>1, <3>1, <3>2 DEF Build
  <2>3. xfer[s].pc \in Holding /\ lock[d] = s
    BY <1>1, <2>1 DEF LockInv, Holding
  <2>. QED
    BY <1>0, <1>1, <1>2, <1>3, <1>4, <1>5, <1>6, <2>1, <2>2, <2>3, ClockStep
<1>10. CASE End(s)
  <2>1. UNCHANGED dev /\ xfer[s].pc = "end" /\ xfer'[s].pc = "rest"
    BY <1>6, <1>10 DEF End, XferRec
  <2>2. xfer[s].pc \in Holding /\ lock[d] = s
    BY <1>1, <2>1 DEF LockInv, Holding
  <2>. QED
    BY <1>0, <1>1, <1>2, <1>3, <1>4, <1>5, <1>6, <2>1, <2>2, ClockStep DEF Holding
<1>. QED
  BY <1>7, <1>8, <1>9, <1>10

LEMMA ClockBusy ==
    ASSUME UsbTyped, BridgesInv, LockInv, BytesInv, ClockInv, NEW s \in Sensors, Write(s) \/ Reply(s)
    PROVE  ClockInv'
<1>0. Transfer(s) /\ UNCHANGED lock /\ xfer[s].pc \in {"write", "reply"} /\ xfer[s].pc \in Holding
  BY DEF Transfer, Write, Reply, Holding
<1>1. PICK d \in Slots : d = handle[s].dev
  BY <1>0, ReaderKeeps, UsedIsOpen
<1>2. PICK m \in Matches : m = On(s).match
  BY <1>0, ReaderKeeps, UsedIsOpen
<1>3. /\ ~dev[d].upset => ~usb[m].fast
      /\ ~IsI2C(s) => dev[d].spiHz = handle[s].hz
      /\ (~IsI2C(s) /\ ~dev[d].upset) =>
            \/ usb[m].clock = dev[d].spiHz
            \/ \E o \in Sensors : lock[d] = o /\ xfer[o].pc \in {"build", "write"} /\ xfer[o].cmds.retune
  BY <1>0, <1>1, <1>2, ReaderKeeps DEF ClockInv, On
<1>4. LockInv'
  BY <1>0, LockNext DEF BusNext
<1>5. lock[d] = s /\ dev \in [Slots -> DevRec] /\ usb[m] \in UsbRec
  BY <1>0, <1>1 DEF LockInv, UsbTyped, DevOK, UsbOK
<1>6. dev'[d].spiHz = dev[d].spiHz
  <2>1. dev' = dev \/ Upset(s)
    BY DEF Write, WriteFine, WriteRefused, WriteLost, Reply, Collect, TimeOut
  <2>. QED
    BY <1>1, <1>5, <2>1 DEF Upset, DevRec
<1>7. CASE dev'[d].upset
  BY <1>0, <1>1, <1>2, <1>3, <1>4, <1>6, <1>7, ClockStep
<1>8. CASE ~dev'[d].upset
  <2>1. ~Upset(s) /\ dev' = dev
    <3>1. ~Upset(s)
      BY <1>1, <1>8, UpsetIs
    <3>. QED
      BY <3>1 DEF Write, WriteFine, WriteRefused, WriteLost, Reply, Collect, TimeOut
  <2>2. CASE Write(s)
    <3>1. usb'[m] = Carry(s, xfer[s].cmds)
      BY <1>2, <2>1, <2>2 DEF Write, WriteFine, WriteRefused, WriteLost, UsbTyped, UsbOK
    <3> DEFINE c == xfer[s].cmds
               u == usb[m]
               clock == IF c.retune THEN handle[s].hz ELSE u.clock
    <3>2. /\ Carry(s, c).clock = clock
          /\ Carry(s, c).fast <=> (u.fast \/ (c.data /\ ~IsI2C(s) /\ clock > handle[s].hz))
      BY <1>2, <1>5 DEF Carry, UsbRec
    <3>3. ~IsI2C(s) => clock = handle[s].hz
      BY <1>3, <1>5, <1>8, <2>1
    <3>4. ~usb'[m].fast
      <4>1. ~u.fast
        BY <1>3, <1>8, <2>1
      <4>2. ~IsI2C(s) => ~(clock > handle[s].hz)
        <5>1. handle[s].hz \in Nat
          BY Fields DEF UsbTyped, HandleOK
        <5>. QED
          BY <3>3, <5>1
      <4>. QED
        BY <3>1, <3>2, <4>1, <4>2
    <3>5. ~IsI2C(s) => usb'[m].clock = dev'[d].spiHz
      BY <1>3, <1>6, <3>1, <3>2, <3>3
    <3>. QED
      BY <1>0, <1>1, <1>2, <1>3, <1>4, <1>6, <3>4, <3>5, ClockStep
  <2>3. CASE Reply(s)
    <3>1. usb'[m].fast = usb[m].fast /\ usb'[m].clock = usb[m].clock
      <4>1. \E n : Drop(s, n)
        BY <2>3 DEF Reply, Collect, TimeOut
      <4>. QED
        BY <1>2, <1>5, <4>1 DEF Drop, UsbTyped, UsbOK, UsbRec
    <3>2. xfer[s].pc = "reply"
      BY <2>3 DEF Reply
    <3>3. ~IsI2C(s) => usb[m].clock = dev[d].spiHz
      BY <1>3, <1>5, <1>8, <2>1, <3>2
    <3>. QED
      BY <1>0, <1>1, <1>2, <1>3, <1>4, <1>6, <1>8, <2>1, <3>1, <3>3, ClockStep
  <2>. QED
    BY <2>2, <2>3
<1>. QED
  BY <1>7, <1>8

LEMMA ClockInit == BusInit => ClockInv
BY DEF BusInit, ClockInv, NoHandle, Unplugged

\* Main's steps: nobody is in a message, and no lock is held.
LEMMA NoneHeld ==
    ASSUME UsbTyped, BridgesInv, LockInv, main.pc \notin {"run", "join"}
    PROVE  (\A s \in Sensors : xfer[s].pc = "rest" /\ xfer[s].pc \notin Holding) /\ \A d \in Slots : lock[d] = Nobody
<1>1. \A s \in Sensors : xfer[s].pc = "rest" /\ xfer[s].pc \notin Holding
  BY DEF BridgesInv, Place, Sensors, Holding
<1>. QED
  BY <1>1 DEF LockInv, UsbTyped, LockOK

\* What is known of a part's clock when nobody is in a message.
ClockRests(s) == (~On(s).upset => ~usb[On(s).match].fast) /\ ((~IsI2C(s) /\ ~On(s).upset) => usb[On(s).match].clock = On(s).spiHz)

LEMMA ClockAtRest ==
    ASSUME UsbTyped, BridgesInv, LockInv, UNCHANGED xfer, main.pc \notin {"run", "join"},
           main'.pc \in {"open", "setup"} => \A m \in Matches : ~usb'[m].fast,
           \A s \in Sensors : handle'[s].used => ClockRests(s)'
    PROVE  ClockInv'
<1>1. \A s \in Sensors : xfer'[s].pc \notin Holding
  BY NoneHeld
<1>. QED
  BY <1>1 DEF ClockInv, ClockRests

\* Opening: the bridge is shared, or it is new.
LEMMA Opening ==
    ASSUME UsbTyped, BridgesInv, Open
    PROVE  /\ main.pc = "open" /\ UNCHANGED <<want, lock, xfer>>
           /\ \A m \in Matches : usb'[m].wrong = usb[m].wrong /\ usb'[m].fast = usb[m].fast
           /\ \A t \in Sensors : handle'[t].used =>
                 \/ /\ handle[t].used /\ handle'[t] = handle[t]
                    /\ On(t)'.match = On(t).match /\ On(t)'.upset = On(t).upset /\ On(t)'.spiHz = On(t).spiHz
                    /\ usb'[On(t).match] = usb[On(t).match]
                 \/ /\ t = main.at /\ usb' = usb
                    /\ \E o \in Sensors :
                          /\ handle[o].used /\ handle'[t].dev = handle[o].dev
                          /\ On(t)'.match = On(o).match /\ On(t)'.upset = On(o).upset /\ On(t)'.spiHz = On(o).spiHz
                          /\ IsI2C(t)' <=> IsI2C(o)
                 \/ /\ t = main.at /\ On(t)'.match \in Matches /\ On(t)'.spiHz = 0
                    /\ ~IsI2C(t)' => usb'[On(t)'.match].clock = 0
                    /\ usb'[On(t)'.match].sel = {} /\ usb'[On(t)'.match].replies = <<>>
<1>0. main.pc = "open" /\ UNCHANGED <<want, lock, xfer>>
  BY OpenCases
<1>1. PICK s \in Sensors : s = main.at
  BY AskedTyped
<1>2. dev \in [Slots -> DevRec] /\ usb \in [Matches -> UsbRec] /\ handle \in [Sensors -> HandleRec]
  BY DEF UsbTyped, DevOK, UsbOK, HandleOK
<1>3. PICK m \in Matches : m = Asked.match
  BY AskedTyped
<1>4. ASSUME NEW d \in Slots, Opened(s, d)
      PROVE  handle'[s].dev = d /\ handle'[s].cs = Asked.cs /\ \A t \in Sensors : t # s => handle'[t] = handle[t]
  BY <1>2, <1>4 DEF Opened, NoHandle
<1>5. ASSUME NEW d \in Slots, d \in Named(Asked), Share(d)
      PROVE  /\ \A n \in Matches : usb'[n].wrong = usb[n].wrong /\ usb'[n].fast = usb[n].fast
             /\ \A t \in Sensors : handle'[t].used =>
                 \/ /\ handle[t].used /\ handle'[t] = handle[t]
                    /\ On(t)'.match = On(t).match /\ On(t)'.upset = On(t).upset /\ On(t)'.spiHz = On(t).spiHz
                    /\ usb'[On(t).match] = usb[On(t).match]
                 \/ /\ t = main.at /\ usb' = usb
                    /\ \E o \in Sensors :
                          /\ handle[o].used /\ handle'[t].dev = handle[o].dev
                          /\ On(t)'.match = On(o).match /\ On(t)'.upset = On(o).upset /\ On(t)'.spiHz = On(o).spiHz
                          /\ IsI2C(t)' <=> IsI2C(o)
  <2>1. usb' = usb /\ Opened(s, d) /\ dev[d].refs > 0 /\ dev[d].proto = Proto(Asked)
    BY <1>1, <1>5 DEF Share, Named, Agrees
  <2>2. dev' = [dev EXCEPT ![d] = [dev[d] EXCEPT !.refs = @ + 1]]
    BY <1>2, <1>5 DEF Share
  <2>3. \A e \in Slots : dev'[e].match = dev[e].match /\ dev'[e].upset = dev[e].upset /\ dev'[e].spiHz = dev[e].spiHz
    BY <1>2, <2>2 DEF DevRec
  <2>4. PICK o \in Sensors : handle[o].used /\ handle[o].dev = d
    BY <2>1 DEF BridgesInv, RefsCount, One, UsedOn, Sensors
  <2>5. On(o).proto = (IF IsI2C(o) THEN "i2c" ELSE "spi")
    BY <2>4 DEF BridgesInv, HandlesOnBridges, Proto, IsI2C
  <2>6. IsI2C(s)' <=> IsI2C(o)
    BY <1>4, <2>1, <2>4, <2>5 DEF Proto, IsI2C, On
  <2>7. \A t \in Sensors : t # s => handle'[t] = handle[t]
    BY <1>4, <2>1
  <2>8. ASSUME NEW t \in Sensors, t # s, handle'[t].used
        PROVE  /\ handle[t].used /\ handle'[t] = handle[t]
               /\ On(t)'.match = On(t).match /\ On(t)'.upset = On(t).upset /\ On(t)'.spiHz = On(t).spiHz
               /\ usb'[On(t).match] = usb[On(t).match]
    <3>1. handle'[t] = handle[t] /\ handle[t].dev \in Slots
      BY <2>7, <2>8, UsedIsOpen
    <3>. QED
      BY <2>1, <2>3, <2>8, <3>1 DEF On
  <2>9. handle'[s].dev = handle[o].dev /\ On(s)'.match = On(o).match /\ On(s)'.upset = On(o).upset /\ On(s)'.spiHz = On(o).spiHz
    BY <1>4, <2>1, <2>3, <2>4 DEF On
  <2>. QED
    BY <1>1, <2>1, <2>4, <2>6, <2>8, <2>9
<1>6. ASSUME NEW d \in Slots, Named(Asked) = {}, dev[d].refs = 0, TakeOver(d)
      PROVE  /\ \A n \in Matches : usb'[n].wrong = usb[n].wrong /\ usb'[n].fast = usb[n].fast
             /\ \A t \in Sensors : handle'[t].used =>
                 \/ /\ handle[t].used /\ handle'[t] = handle[t]
                    /\ On(t)'.match = On(t).match /\ On(t)'.upset = On(t).upset /\ On(t)'.spiHz = On(t).spiHz
                    /\ usb'[On(t).match] = usb[On(t).match]
                 \/ /\ t = main.at /\ On(t)'.match \in Matches /\ On(t)'.spiHz = 0
                    /\ ~IsI2C(t)' => usb'[On(t)'.match].clock = 0
                    /\ usb'[On(t)'.match].sel = {} /\ usb'[On(t)'.match].replies = <<>>
  <2>1. Opened(s, d) /\ dev' = [dev EXCEPT ![d] = [New EXCEPT !.refs = 1]] /\ usb' = [usb EXCEPT ![m] = Configured(Claimed(usb[m]), Asked)]
    BY <1>1, <1>2, <1>3, <1>6 DEF TakeOver
  <2>2. PICK u : u = Configured(Claimed(usb[m]), Asked)
    OBVIOUS
  <2>3. u.wrong = usb[m].wrong /\ u.fast = usb[m].fast /\ u.sel = {} /\ u.replies = <<>> /\ (Asked.cs # I2C => u.clock = 0)
    BY <1>2, <2>2 DEF Configured, Claimed, UsbRec
  <2>4. usb'[m] = u /\ \A n \in Matches : n # m => usb'[n] = usb[n]
    BY <1>2, <2>1, <2>2
  <2>5. \A n \in Matches : usb'[n].wrong = usb[n].wrong /\ usb'[n].fast = usb[n].fast
    BY <2>3, <2>4
  <2>6. dev'[d].match = m /\ dev'[d].spiHz = 0 /\ \A e \in Slots : e # d => dev'[e] = dev[e]
    BY <1>2, <1>3, <2>1 DEF New, NoDev
  <2>7. On(s)'.match = m /\ On(s)'.spiHz = 0
    BY <1>4, <2>1, <2>6 DEF On
  <2>8. (~IsI2C(s)') => usb'[m].clock = 0
    BY <1>4, <2>1, <2>3, <2>4 DEF IsI2C
  <2>9. ASSUME NEW t \in Sensors, t # s, handle'[t].used
        PROVE  /\ handle[t].used /\ handle'[t] = handle[t]
               /\ On(t)'.match = On(t).match /\ On(t)'.upset = On(t).upset /\ On(t)'.spiHz = On(t).spiHz
               /\ usb'[On(t).match] = usb[On(t).match]
    <3>1. handle'[t] = handle[t] /\ handle[t].used /\ handle[t].dev \in Slots /\ On(t).refs > 0 /\ On(t).match \in Matches
      BY <1>4, <2>1, <2>9, UsedIsOpen
    <3>2. handle[t].dev # d /\ On(t).match # m
      BY <1>3, <1>6, <3>1 DEF On, Named
    <3>. QED
      BY <2>4, <2>6, <3>1, <3>2 DEF On
  <2>. QED
    BY <1>1, <2>3, <2>4, <2>5, <2>7, <2>8, <2>9
<1>7. ASSUME NEW d \in Slots, dev[d].refs = 0, Untaken(d)
      PROVE  /\ \A n \in Matches : usb'[n].wrong = usb[n].wrong /\ usb'[n].fast = usb[n].fast
             /\ \A t \in Sensors : handle'[t].used =>
                 /\ handle[t].used /\ handle'[t] = handle[t]
                 /\ On(t)'.match = On(t).match /\ On(t)'.upset = On(t).upset /\ On(t)'.spiHz = On(t).spiHz
                 /\ usb'[On(t).match] = usb[On(t).match]
  <2>1. UNCHANGED <<handle, usb>> /\ dev' = [dev EXCEPT ![d] = New]
    BY <1>7 DEF Untaken
  <2>2. \A t \in Sensors : handle[t].used => handle[t].dev # d
    BY <1>7, UsedIsOpen DEF On
  <2>3. \A t \in Sensors : handle[t].used => On(t)' = On(t)
    BY <1>2, <2>1, <2>2 DEF On
  <2>. QED
    BY <2>1, <2>3
<1>8. CASE Unfit
  BY <1>0, <1>8 DEF Unfit, On
<1>. QED
  BY <1>0, <1>5, <1>6, <1>7, <1>8, OpenCases

LEMMA ClockMain == ASSUME UsbTyped, BridgesInv, LockInv, ClockInv, Open \/ Setup \/ Close PROVE ClockInv'
<1>0. main.pc \notin {"run", "join"} /\ UNCHANGED xfer
  BY DEF Open, Setup, Close
<1>1. \A s \in Sensors : handle[s].used => ClockRests(s)
  <2> SUFFICES ASSUME NEW s \in Sensors, handle[s].used PROVE ClockRests(s)
    OBVIOUS
  <2>1. handle[s].dev \in Slots /\ lock[handle[s].dev] = Nobody
    BY <1>0, UsedIsOpen, NoneHeld
  <2>. QED
    BY <2>1, RecordsTyped DEF ClockInv, ClockRests
<1>2. CASE Open
  <2>1. \A m \in Matches : ~usb'[m].fast
    BY <1>2, Opening DEF ClockInv
  <2>2. ASSUME NEW t \in Sensors, handle'[t].used PROVE ClockRests(t)'
    <3>1. CASE /\ handle[t].used /\ handle'[t] = handle[t]
               /\ On(t)'.match = On(t).match /\ On(t)'.upset = On(t).upset /\ On(t)'.spiHz = On(t).spiHz
               /\ usb'[On(t).match] = usb[On(t).match]
      <4>1. ClockRests(t)
        BY <1>1, <3>1
      <4>. QED
        BY <3>1, <4>1 DEF ClockRests, IsI2C
    <3>2. CASE /\ usb' = usb
               /\ \E o \in Sensors :
                     /\ handle[o].used /\ handle'[t].dev = handle[o].dev
                     /\ On(t)'.match = On(o).match /\ On(t)'.upset = On(o).upset /\ On(t)'.spiHz = On(o).spiHz
                     /\ IsI2C(t)' <=> IsI2C(o)
      <4>1. PICK o \in Sensors : /\ handle[o].used /\ handle'[t].dev = handle[o].dev
                                 /\ On(t)'.match = On(o).match /\ On(t)'.upset = On(o).upset /\ On(t)'.spiHz = On(o).spiHz
                                 /\ IsI2C(t)' <=> IsI2C(o)
        BY <3>2
      <4>2. ClockRests(o)
        BY <1>1, <4>1
      <4>. QED
        BY <3>2, <4>1, <4>2 DEF ClockRests
    <3>3. CASE /\ On(t)'.match \in Matches /\ On(t)'.spiHz = 0
               /\ ~IsI2C(t)' => usb'[On(t)'.match].clock = 0
      BY <2>1, <3>3 DEF ClockRests
    <3>. QED
      BY <1>2, <2>2, <3>1, <3>2, <3>3, Opening
  <2>. QED
    BY <1>0, <2>1, <2>2, ClockAtRest
<1>3. CASE Setup
  <2>1. \A m \in Matches : ~usb'[m].fast
    BY <1>3, Tuning DEF ClockInv
  <2>2. PICK s \in Sensors : s = main.at
    BY DEF UsbTyped, MainOK
  <2>3. PICK d : d = handle[s].dev
    OBVIOUS
  <2>4. d \in Slots /\ dev[d].refs > 0 /\ dev[d].match \in Matches
    <3>1. handle[s].used
      BY <1>3, <2>2 DEF Setup, BridgesInv, Place
    <3>. QED
      BY <2>3, <3>1, UsedIsOpen DEF On
  <2>5. dev \in [Slots -> DevRec] /\ usb \in [Matches -> UsbRec]
    BY DEF UsbTyped, DevOK, UsbOK
  <2>6. ASSUME NEW t \in Sensors, handle'[t].used PROVE ClockRests(t)'
    <3>0. handle[t].used /\ handle'[t].dev = handle[t].dev /\ handle[t].dev \in Slots /\ On(t).refs > 0 /\ On(t).match \in Matches
      BY <1>3, <2>6, Tuning, UsedIsOpen
    <3>1. On(t)'.match = On(t).match
      BY <1>3, <3>0, Tuning DEF On
    <3>2. IsI2C(t)' <=> IsI2C(t)
      BY <1>3, Tuning DEF IsI2C
    <3>3. Tuned(s, d, want[s].spi) \/ Believed(s, d, want[s].spi) \/ UNCHANGED <<dev, handle, usb>>
      BY <1>3, <2>2, <2>3 DEF Setup, Unfit
    <3>4. CASE UNCHANGED <<dev, handle, usb>>
      BY <1>1, <3>0, <3>4 DEF ClockRests, On, IsI2C
    <3>5. CASE Tuned(s, d, want[s].spi) /\ handle[t].dev = d
      <4>1. dev'[d].spiHz = want[s].spi.hz
        BY <2>4, <2>5, <3>5 DEF Tuned, DevRec
      <4>2. usb'[dev[d].match].clock = want[s].spi.hz
        BY <2>4, <2>5, <3>5 DEF Tuned, UsbRec
      <4>3. On(t)'.spiHz = want[s].spi.hz /\ usb'[On(t)'.match].clock = want[s].spi.hz
        BY <3>0, <3>1, <3>5, <4>1, <4>2 DEF On
      <4>4. ~usb'[On(t)'.match].fast
        BY <2>1, <3>0, <3>1
      <4>. QED
        BY <4>3, <4>4 DEF ClockRests
    <3>6. CASE Believed(s, d, want[s].spi) /\ handle[t].dev = d
      <4>1. dev'[d].upset
        BY <2>4, <2>5, <3>6 DEF Believed, DevRec
      <4>. QED
        BY <3>0, <3>6, <4>1 DEF ClockRests, On
    <3>7. CASE (Tuned(s, d, want[s].spi) \/ Believed(s, d, want[s].spi)) /\ handle[t].dev # d
      <4>1. dev'[handle[t].dev] = dev[handle[t].dev]
        BY <2>5, <3>0, <3>7 DEF Tuned, Believed
      <4>2. On(t).match # dev[d].match
        BY <2>4, <3>0, <3>7, Apart DEF On
      <4>3. usb'[On(t).match] = usb[On(t).match]
        BY <2>5, <3>0, <3>7, <4>2 DEF Tuned, Believed
      <4>4. ClockRests(t)
        BY <1>1, <3>0
      <4>. QED
        BY <3>0, <3>1, <3>2, <4>1, <4>3, <4>4 DEF ClockRests, On
    <3>. QED
      BY <3>3, <3>4, <3>5, <3>6, <3>7
  <2>. QED
    BY <1>0, <2>1, <2>6, ClockAtRest
<1>4. CASE Close
  <2>1. main'.pc \notin {"open", "setup"}
    BY <1>4, Closing
  <2>2. ASSUME NEW t \in Sensors, handle'[t].used PROVE ClockRests(t)'
    <3>1. /\ handle'[t] = handle[t] /\ handle[t].used
          /\ On(t)'.match = On(t).match /\ On(t)'.upset = On(t).upset /\ On(t)'.spiHz = On(t).spiHz
          /\ usb'[On(t).match] = usb[On(t).match]
      BY <1>4, <2>2, Closing
    <3>2. ClockRests(t)
      BY <1>1, <3>1
    <3>. QED
      BY <3>1, <3>2 DEF ClockRests, IsI2C
  <2>. QED
    BY <1>0, <2>1, <2>2, ClockAtRest
<1>. QED
  BY <1>2, <1>3, <1>4

LEMMA ClockNext == UsbTyped /\ BridgesInv /\ LockInv /\ BytesInv /\ ClockInv /\ [BusNext]_busVars => ClockInv'
<1> SUFFICES ASSUME UsbTyped, BridgesInv, LockInv, BytesInv, ClockInv, [BusNext]_busVars PROVE ClockInv'
  OBVIOUS
<1>1. CASE Open \/ Setup \/ Close
  BY <1>1, ClockMain
<1>2. CASE Stop \/ Joined \/ UNCHANGED busVars
  <2>1. UNCHANGED <<dev, handle, lock, xfer, usb>> /\ (main'.pc \in {"open", "setup"} => main' = main)
    BY <1>2 DEF Stop, Joined, busVars, UsbTyped, MainOK
  <2>. QED
    BY <2>1 DEF ClockInv, On, IsI2C
<1>3. ASSUME NEW s \in Sensors, Transfer(s) PROVE ClockInv'
  BY <1>3, ClockQuiet, ClockBusy DEF Transfer
<1>. QED
  BY <1>1, <1>2, <1>3, BusSteps

LEMMA BrokenFields ==
    ASSUME NEW x \in XferRec
    PROVE  /\ x.last => (Broken(x).pc = "end" /\ Broken(x).last)
           /\ ~x.last => (Broken(x).pc = "build" /\ ~Broken(x).last /\ Broken(x).toDo = 0)
           /\ Broken(x).cmds = x.cmds
BY DEF Broken, XferRec

LEMMA SentFields ==
    ASSUME NEW x \in XferRec
    PROVE  /\ Sent(x).pc = (IF x.owed > 0 THEN "reply" ELSE IF x.last THEN "end" ELSE "build")
           /\ Sent(x).cmds = NoCmds /\ Sent(x).toDo = x.toDo /\ Sent(x).last = x.last /\ Sent(x).owed = x.owed /\ Sent(x).kind = x.kind
<1>1. PICK z : z = [x EXCEPT !.cmds = NoCmds]
  OBVIOUS
<1>2. z \in XferRec /\ z.cmds = NoCmds /\ z.toDo = x.toDo /\ z.last = x.last /\ z.owed = x.owed /\ z.kind = x.kind
  BY <1>1, RecordsTyped, Zenon DEF XferRec
<1>3. CASE x.owed > 0
  BY <1>3 DEF Sent, XferRec
<1>4. CASE ~(x.owed > 0)
  <2>1. Sent(x) = Flushed(z)
    BY <1>1, <1>4 DEF Sent
  <2>. QED
    BY <1>2, <1>4, <2>1 DEF Flushed, XferRec
<1>. QED
  BY <1>3, <1>4

LEMMA FlowInit == BusInit => FlowInv
BY DEF BusInit, FlowInv, Flow, Resting

LEMMA FlowNext == UsbTyped /\ BridgesInv /\ LockInv /\ BytesInv /\ FlowInv /\ [BusNext]_busVars => FlowInv'
<1> SUFFICES ASSUME UsbTyped, BridgesInv, LockInv, BytesInv, FlowInv, [BusNext]_busVars PROVE FlowInv'
  OBVIOUS
<1>1. CASE Open \/ Setup \/ Close \/ Stop \/ Joined \/ UNCHANGED busVars
  <2>1. xfer' = xfer
    BY <1>1 DEF Open, Setup, Close, Stop, Joined, busVars
  <2>. QED
    BY <2>1 DEF FlowInv
<1>2. ASSUME NEW s \in Sensors, Transfer(s) PROVE FlowInv'
  <2> DEFINE x == xfer[s]
  <2>1. x \in XferRec /\ Shape(x) /\ Flow(x) /\ xfer \in [Sensors -> XferRec]
    BY DEF UsbTyped, XferOK, BytesInv, FlowInv
  <2>2. SUFFICES Flow(xfer'[s])
    <3>1. \A t \in Sensors : t # s => Flow(xfer'[t])
      BY <1>2, Local DEF FlowInv
    <3>. QED
      BY <2>2, <3>1 DEF FlowInv
  <2>3. CASE Ask(s)
    <3>1. xfer'[s].pc = "ask"
      BY <2>1, <2>3 DEF Ask, Resting
    <3>. QED
      BY <3>1 DEF Flow
  <2>4. CASE Begin(s)
    <3>1. xfer'[s].pc = "build" /\ xfer'[s].toDo = x.toDo /\ xfer'[s].kind = x.kind
      BY <2>1, <2>4 DEF Begin, XferRec
    <3>2. x.toDo = Pieces(x.kind) /\ x.toDo \in Nat
      <4>1. x.toDo \in 0 .. 2
        BY <2>1, XferFields
      <4>2. x.pc = "ask"
        BY <2>4 DEF Begin
      <4>3. x.toDo = Pieces(x.kind)
        BY <2>1, <4>2 DEF Shape
      <4>. QED
        BY <4>1, <4>3
    <3>. QED
      BY <3>1, <3>2 DEF Flow
  <2>5. CASE Build(s)
    <3> DEFINE k == Pieces(x.kind) - x.toDo + 1
               reads == x.kind # "write"
               reply == IF reads THEN Append(x.cmds.reply, Tag(s, k)) ELSE x.cmds.reply
               owed == IF reads THEN x.owed + 1 ELSE x.owed
               last == [x EXCEPT !.cmds = [x.cmds EXCEPT !.release = TRUE], !.last = TRUE, !.pc = "write"]
               flush == [x EXCEPT !.pc = "write"]
               more == [x EXCEPT !.cmds = [x.cmds EXCEPT !.data = TRUE, !.reply = reply], !.toDo = x.toDo - 1, !.owed = owed]
    <3>1. \/ xfer'[s] = last
          \/ x.toDo # 0 /\ k > 1 /\ x.cmds # NoCmds /\ xfer'[s] = flush
          \/ x.toDo # 0 /\ xfer'[s] = more
      BY <2>1, <2>5 DEF Build
    <3>2. x.pc = "build" /\ ~x.last /\ x.toDo \in 0 .. 2 /\ x.toDo <= Pieces(x.kind) /\ Pieces(x.kind) \in {1, 2} /\ x.owed \in Nat /\ x.cmds \in Cmds
      BY <2>1, <2>5, XferFields DEF Build, Shape, Pieces
    <3>3. CASE xfer'[s] = last
      <4>1. PICK c : c = [x.cmds EXCEPT !.release = TRUE]
        OBVIOUS
      <4>2. c.release
        BY <3>2, <4>1 DEF Cmds
      <4>3. last.pc = "write" /\ last.last /\ last.cmds = c
        BY <2>1, <4>1 DEF XferRec
      <4>. QED
        BY <3>3, <4>2, <4>3 DEF Flow
    <3>4. CASE x.toDo # 0 /\ k > 1 /\ x.cmds # NoCmds /\ xfer'[s] = flush
      <4>1. x.toDo > 0 /\ x.toDo < Pieces(x.kind)
        BY <3>2, <3>4
      <4>2. x.owed > 0
        BY <2>1, <3>2, <3>4, <4>1 DEF Flow
      <4>3. flush.pc = "write" /\ flush.last = x.last /\ flush.owed = x.owed
        BY <2>1 DEF XferRec
      <4>. QED
        BY <3>2, <3>4, <4>2, <4>3 DEF Flow
    <3>5. CASE x.toDo # 0 /\ xfer'[s] = more
      <4>1. more.pc = "build" /\ more.toDo = x.toDo - 1 /\ more.owed = owed /\ more.kind = x.kind
        BY <2>1, <3>2 DEF XferRec
      <4>2. CASE reads
        <5>1. owed > 0
          BY <3>2, <4>2
        <5>. QED
          BY <3>5, <4>1, <5>1 DEF Flow
      <4>3. CASE ~reads
        <5>1. x.toDo - 1 = 0
          BY <3>2, <3>5, <4>3 DEF Pieces
        <5>. QED
          BY <3>5, <4>1, <5>1 DEF Flow
      <4>. QED
        BY <4>2, <4>3
    <3>. QED
      BY <3>1, <3>3, <3>4, <3>5
  <2>6. CASE Write(s)
    <3>1. xfer'[s] = Sent(x) \/ xfer'[s] = Broken(x)
      BY <2>1, <2>6 DEF Write, WriteFine, WriteRefused, WriteLost
    <3>2. x.owed \in Nat
      BY <2>1, XferFields
    <3>3. Flow(Sent(x))
      <4>1. PICK y : y = Sent(x)
        OBVIOUS
      <4>2. y.pc = (IF x.owed > 0 THEN "reply" ELSE IF x.last THEN "end" ELSE "build") /\ y.cmds = NoCmds /\ y.owed = x.owed
        BY <2>1, <4>1, SentFields
      <4>. QED
        BY <4>1, <4>2 DEF Flow
    <3>4. Flow(Broken(x))
      <4>1. PICK y : y = Broken(x)
        OBVIOUS
      <4>2. y.pc = "end" \/ (y.pc = "build" /\ y.toDo = 0)
        BY <2>1, <4>1, BrokenFields
      <4>. QED
        BY <4>1, <4>2 DEF Flow
    <3>. QED
      BY <3>1, <3>3, <3>4
  <2>7. CASE Reply(s)
    <3>1. CASE Collect(s)
      <4>0. x.pc = "reply" /\ x.cmds = NoCmds
        BY <2>1, <2>7 DEF Reply, Flow
      <4>1. PICK g : g = x.got \o SubSeq(Replies(s), 1, x.owed)
        OBVIOUS
      <4>2. PICK z : z = [x EXCEPT !.got = g, !.owed = 0]
        OBVIOUS
      <4>3. xfer'[s] = Flushed(z)
        BY <2>1, <3>1, <4>1, <4>2 DEF Collect
      <4>4. Flushed(z).pc \in {"end", "build"} /\ Flushed(z).cmds = NoCmds
        BY <2>1, <4>0, <4>2 DEF Flushed, XferRec
      <4>. QED
        BY <4>3, <4>4 DEF Flow
    <3>2. CASE TimeOut(s)
      <4>1. PICK y : y = Broken(x)
        OBVIOUS
      <4>2. y.pc = "end" \/ (y.pc = "build" /\ y.toDo = 0)
        BY <2>1, <4>1, BrokenFields
      <4>3. xfer'[s] = y
        BY <2>1, <3>2, <4>1 DEF TimeOut
      <4>. QED
        BY <4>2, <4>3 DEF Flow
    <3>. QED
      BY <2>7, <3>1, <3>2 DEF Reply
  <2>8. CASE End(s)
    <3>1. xfer'[s].pc = "rest"
      BY <2>1, <2>8 DEF End, XferRec
    <3>. QED
      BY <3>1 DEF Flow
  <2>. QED
    BY <1>2, <2>3, <2>4, <2>5, <2>6, <2>7, <2>8 DEF Transfer
<1>. QED
  BY <1>1, <1>2, BusSteps

LEMMA WrongedIs ==
    ASSUME UsbTyped, UsbTyped'
    PROVE  /\ Wronged \in Nat /\ Wronged' \in Nat
           /\ Fine => Wronged' = Wronged
           /\ \A k : Fault(k) => Wronged' = Wronged + 1
<1>1. toCome.faults \in 0 .. UsbFaults /\ toCome'.faults \in 0 .. UsbFaults /\ UsbFaults \in Nat
  BY MaxDevPositive DEF UsbTyped, ToComeOK
<1>2. Wronged = UsbFaults - toCome.faults /\ Wronged' = UsbFaults - toCome'.faults
  BY DEF Wronged
<1>3. Fine => toCome'.faults = toCome.faults
  BY DEF Fine
<1>4. ASSUME NEW k, Fault(k) PROVE toCome'.faults = toCome.faults - 1
  <2>1. toCome \in [transfers : Nat, faults : 0 .. UsbFaults]
    BY DEF UsbTyped, ToComeOK
  <2>. QED
    BY <1>4, <2>1 DEF Fault
<1>. QED
  BY <1>1, <1>2, <1>3, <1>4

LEMMA WrongedGrows ==
    ASSUME UsbTyped, UsbTyped', [BusNext]_busVars
    PROVE  Wronged \in Nat /\ Wronged' \in Nat /\ Wronged' >= Wronged
<1>0. Wronged \in Nat /\ Wronged' \in Nat
  BY WrongedIs
<1>1. Fine \/ (\E k : Fault(k)) \/ toCome' = toCome \/ \E s \in Sensors : Ask(s)
  <2>1. Open => (Fine \/ \E k : Fault(k))
    BY OpenCases DEF Share, TakeOver, Untaken, Unfit
  <2>2. Setup => (Fine \/ \E k : Fault(k))
    BY DEF Setup, Tuned, Believed, Unfit
  <2>3. Close \/ Stop \/ Joined \/ UNCHANGED busVars => toCome' = toCome
    BY DEF Close, Stop, Joined, busVars
  <2>4. ASSUME NEW s \in Sensors, Transfer(s) PROVE Ask(s) \/ Fine \/ (\E k : Fault(k)) \/ toCome' = toCome
    BY <2>4 DEF Transfer, Begin, Build, Write, WriteFine, WriteRefused, WriteLost, Reply, Collect, TimeOut, End
  <2>. QED
    BY <2>1, <2>2, <2>3, <2>4, BusSteps
<1>2. CASE Fine \/ \E k : Fault(k)
  BY <1>0, <1>2, WrongedIs
<1>3. CASE toCome' = toCome
  BY <1>0, <1>3 DEF Wronged
<1>4. CASE \E s \in Sensors : Ask(s)
  <2>1. toCome'.faults = toCome.faults
    <3>1. toCome \in [transfers : Nat, faults : 0 .. UsbFaults]
      BY DEF UsbTyped, ToComeOK
    <3>. QED
      BY <1>4, <3>1 DEF Ask
  <2>. QED
    BY <1>0, <2>1 DEF Wronged
<1>. QED
  BY <1>1, <1>2, <1>3, <1>4

LEMMA BehindIs ==
    ASSUME NEW u
    PROVE  /\ Behind(u) \in Nat /\ Behind(u) <= 2
           /\ u.sel = {} => Behind(u) <= 1
           /\ u.replies = <<>> => Behind(u) <= 1
           /\ (u.sel = {} /\ u.replies = <<>>) => Behind(u) = 0
           /\ (u.sel # {} /\ u.replies # <<>>) => Behind(u) = 2
           /\ \A v : ((u.sel = {} => v.sel = {}) /\ (u.replies = <<>> => v.replies = <<>>)) => Behind(v) <= Behind(u)
BY DEF Behind, One

\* A message's debt stays paid when more goes wrong.
LEMMA PaidGrows ==
    ASSUME NEW x, NEW u, NEW cs, NEW w \in Nat, NEW v \in Nat, v >= w, Paid(x, u, cs, w)
    PROVE  Paid(x, u, cs, v)
<1>1. Behind(u) \in Nat
  BY BehindIs
<1>2. Behind(u) <= w => Behind(u) <= v
  BY <1>1
<1>3. 1 + Behind(u) <= w => 1 + Behind(u) <= v
  BY <1>1
<1>4. w >= 3 => v >= 3
  OBVIOUS
<1>. QED
  BY <1>2, <1>3, <1>4, Zenon DEF Paid

LEMMA SelectInit == BusInit => SelectInv
<1> SUFFICES ASSUME BusInit PROVE SelectInv
  OBVIOUS
<1>1. \A m \in Matches : ~usb[m].wrong
  BY DEF BusInit, Unplugged
<1>2. \A d \in Slots : ~dev[d].upset
  BY DEF BusInit, NoDev
<1>3. \A s \in Sensors : ~handle[s].used
  BY DEF BusInit, NoHandle
<1>. QED
  BY <1>1, <1>2, <1>3 DEF SelectInv, OnlyMine

\* What a reader's step has to leave for its own bridge.
LEMMA SelectStep ==
    ASSUME UsbTyped, UsbTyped', BridgesInv, LockInv, SelectInv, NEW s \in Sensors, Transfer(s),
           NEW d \in Slots, d = handle[s].dev, NEW m \in Matches, m = On(s).match,
           xfer[s].pc \in Holding \/ usb' = usb,
           usb'[m].wrong => Wronged' >= 3,
           dev'[d].upset => Wronged' >= 1,
           ~IsI2C(s) => /\ lock'[d] = Nobody => Behind(usb'[m]) <= Wronged'
                        /\ Paid(xfer'[s], usb'[m], handle[s].cs, Wronged')
    PROVE  SelectInv'
<1>0. UNCHANGED <<want, main, handle>> /\ main.pc \in {"run", "join"} /\ handle[s].used
  BY ReaderKeeps
<1>1. \A e \in Slots : dev'[e].refs = dev[e].refs /\ dev'[e].match = dev[e].match
  BY ReaderKeeps
<1>2. dev[d].refs > 0 /\ dev[d].match = m
  BY <1>0, UsedIsOpen DEF On
<1>3. Wronged \in Nat /\ Wronged' \in Nat /\ Wronged' >= Wronged
  BY WrongedGrows DEF BusNext
<1>4. \A n \in Matches : usb'[n].wrong => Wronged' >= 3
  <2>1. \A n \in Matches : n # m => usb'[n] = usb[n]
    BY Local
  <2>2. \A n \in Matches : usb[n].wrong => Wronged >= 3
    BY DEF SelectInv, OnlyMine
  <2>3. Wronged >= 3 => Wronged' >= 3
    BY <1>3
  <2>. QED
    BY <2>1, <2>2, <2>3
<1>5. \A e \in Slots : dev'[e].upset => Wronged' >= 1
  <2>1. \A e \in Slots : e # d => dev'[e] = dev[e]
    BY Local
  <2>2. \A e \in Slots : dev[e].upset => Wronged >= 1
    BY DEF SelectInv
  <2>3. Wronged >= 1 => Wronged' >= 1
    BY <1>3
  <2>. QED
    BY <2>1, <2>2, <2>3
<1>6. ASSUME NEW t \in Sensors, handle[t].used, ~IsI2C(t), NEW e \in Slots, e = handle[t].dev, NEW n \in Matches, n = On(t).match
      PROVE  /\ lock'[e] = Nobody => Behind(usb'[n]) <= Wronged'
             /\ Paid(xfer'[t], usb'[n], handle[t].cs, Wronged')
  <2>1. /\ lock[e] = Nobody => Behind(usb[n]) <= Wronged
        /\ Paid(xfer[t], usb[n], handle[t].cs, Wronged)
    BY <1>6 DEF SelectInv
  <2>2. CASE t = s
    BY <1>6, <2>2
  <2>3. CASE t # s /\ e = d
    <3>1. n = m
      BY <1>2, <1>6, <2>3 DEF On
    <3>2. ~IsI2C(s)
      BY <1>0, <1>6, <2>3, SameKind
    <3>3. xfer'[t] = xfer[t]
      BY <2>3, Local
    <3>4. CASE usb' = usb
      BY <1>3, <2>1, <2>3, <3>1, <3>2, <3>3, <3>4, PaidGrows
    <3>5. CASE xfer[s].pc \in Holding
      <4>1. xfer[t].pc \notin Holding
        BY <1>6, <2>3, <3>5, OneHolds
      <4>2. Paid(xfer'[t], usb'[n], handle[t].cs, Wronged')
        BY <3>3, <4>1 DEF Paid, Holding
      <4>. QED
        BY <2>3, <3>1, <3>2, <4>2
    <3>. QED
      BY <3>4, <3>5
  <2>4. CASE e # d
    <3>1. lock'[e] = lock[e]
      BY <2>4, Local
    <3>2. n # m
      BY <1>2, <1>6, <2>4, UsedIsOpen, Apart DEF On
    <3>3. usb'[n] = usb[n]
      BY <3>2, Local
    <3>4. xfer'[t] = xfer[t]
      BY <1>6, <2>4, Local
    <3>5. Behind(usb[n]) <= Wronged => Behind(usb[n]) <= Wronged'
      BY <1>3, BehindIs
    <3>. QED
      BY <1>3, <2>1, <3>1, <3>3, <3>4, <3>5, PaidGrows
  <2>. QED
    BY <2>2, <2>3, <2>4
<1>7. ASSUME NEW t \in Sensors, handle[t].used, ~IsI2C(t)
      PROVE  /\ dev'[handle[t].dev].match = On(t).match
             /\ lock'[handle[t].dev] = Nobody => Behind(usb'[On(t).match]) <= Wronged'
             /\ Paid(xfer'[t], usb'[On(t).match], handle[t].cs, Wronged')
  <2>1. handle[t].dev \in Slots /\ On(t).match \in Matches
    BY <1>7, UsedIsOpen
  <2>. QED
    BY <1>1, <1>6, <1>7, <2>1 DEF On
<1>8. \A t \in Sensors : (handle'[t].used /\ ~IsI2C(t)') =>
          /\ lock'[handle'[t].dev] = Nobody => Behind(usb'[On(t)'.match]) <= Wronged'
          /\ Paid(xfer'[t], usb'[On(t)'.match], handle'[t].cs, Wronged')
  BY <1>0, <1>7 DEF On, IsI2C
<1>. QED
  BY <1>0, <1>4, <1>5, <1>8 DEF SelectInv, OnlyMine, Behind, Paid

LEMMA NoCmdsAre == ~NoCmds.select /\ ~NoCmds.data
BY DEF NoCmds

\* A flush carried out.
LEMMA PaidSent ==
    ASSUME NEW x \in XferRec, Shape(x), Flow(x), x.pc = "write", NEW u, NEW v, NEW cs, NEW w \in Nat, Paid(x, u, cs, w),
           v.sel = (IF x.cmds.release THEN {} ELSE IF x.cmds.select THEN {cs} ELSE u.sel),
           x.owed = 0 => (v.replies = <<>> \/ w >= 1)
    PROVE  /\ Paid(Sent(x), v, cs, w)
           /\ (x.cmds.data /\ ~((IF x.cmds.select THEN {cs} ELSE u.sel) \subseteq {cs})) => w >= 3
<1>1. PICK y : y = Sent(x)
  OBVIOUS
<1>2. y.pc = (IF x.owed > 0 THEN "reply" ELSE IF x.last THEN "end" ELSE "build") /\ y.cmds = NoCmds /\ y.last = x.last
  BY <1>1, SentFields
<1>3. x.owed \in Nat /\ (x.last => x.cmds.release) /\ (~x.last => (x.owed > 0 /\ x.toDo > 0))
  BY XferFields DEF Flow, Shape
<1>4. y.pc \in {"reply", "end"} /\ (y.pc = "end" => (x.owed = 0 /\ x.last))
  BY <1>2, <1>3
<1>5. Behind(v) \in Nat /\ Behind(v) <= 2
  BY BehindIs
<1>6. ASSUME y.pc = "reply", ~(v.sel \subseteq {cs}) PROVE 1 + Behind(v) <= w
  <2>1. ~x.cmds.release /\ ~x.cmds.select /\ v.sel = u.sel
    BY <1>6
  <2>2. x.toDo > 0
    BY <1>3, <2>1
  <2>3. w >= 3
    BY <1>6, <2>1, <2>2 DEF Paid
  <2>. QED
    BY <1>5, <2>3
<1>7. ASSUME y.pc = "reply", y.last PROVE v.sel = {}
  BY <1>2, <1>3, <1>7
<1>8. ASSUME y.pc = "end" PROVE Behind(v) <= w
  <2>1. v.sel = {} /\ (v.replies = <<>> \/ w >= 1)
    BY <1>3, <1>4, <1>8
  <2>2. Behind(v) <= 1 /\ (v.replies = <<>> => Behind(v) = 0)
    BY <2>1, BehindIs
  <2>. QED
    BY <1>5, <2>1, <2>2
<1>9. Paid(y, v, cs, w)
  BY <1>4, <1>6, <1>7, <1>8 DEF Paid
<1>10. (x.cmds.data /\ ~((IF x.cmds.select THEN {cs} ELSE u.sel) \subseteq {cs})) => w >= 3
  BY DEF Paid
<1>. QED
  BY <1>1, <1>9, <1>10

\* A flush that goes wrong.
LEMMA PaidWrong ==
    ASSUME NEW x \in XferRec, Shape(x), Flow(x), x.pc = "write", NEW u, NEW cs, NEW w \in Nat, Paid(x, u, cs, w),
           u.replies # <<>> => w >= 1,
           NEW y \in {Sent(x), Broken(x)}
    PROVE  Paid(y, u, cs, w + 1)
<1>0. Behind(u) \in Nat /\ Behind(u) <= 2 /\ (u.replies = <<>> => Behind(u) <= 1)
  BY BehindIs
<1>1. Behind(u) <= w + 1
  <2>1. CASE u.replies = <<>>
    BY <1>0, <2>1
  <2>2. CASE u.replies # <<>>
    BY <1>0, <2>2
  <2>. QED
    BY <2>1, <2>2
<1>2. ASSUME ~(u.sel \subseteq {cs}) PROVE 1 + Behind(u) <= w + 1
  <2>1. Behind(u) <= w \/ 1 + Behind(u) <= w
    BY <1>2 DEF Paid
  <2>. QED
    BY <1>0, <2>1
<1>3. CASE y = Sent(x)
  <2>1. y.pc = (IF x.owed > 0 THEN "reply" ELSE IF x.last THEN "end" ELSE "build") /\ y.cmds = NoCmds /\ y.last = x.last
    BY <1>3, SentFields
  <2>2. x.owed \in Nat /\ (~x.last => x.owed > 0)
    BY XferFields DEF Flow
  <2>3. y.pc \in {"reply", "end"}
    BY <2>1, <2>2
  <2>. QED
    BY <1>1, <1>2, <2>3 DEF Paid
<1>4. CASE y = Broken(x)
  <2>1. y.cmds = x.cmds /\ (y.pc = "end" \/ (y.pc = "build" /\ y.toDo = 0))
    BY <1>4, BrokenFields, XferFields
  <2>2. CASE y.pc = "end"
    BY <1>1, <2>2 DEF Paid
  <2>3. CASE y.pc = "build"
    <3>1. y.toDo = 0
      BY <2>1, <2>3
    <3>2. (~x.cmds.select /\ ~(u.sel \subseteq {cs}) /\ x.cmds.data) => w + 1 >= 3
      <4>1. (~x.cmds.select /\ ~(u.sel \subseteq {cs}) /\ x.cmds.data) => w >= 3
        BY DEF Paid
      <4>. QED
        BY <4>1
    <3>3. ~(y.toDo > 0)
      BY <3>1
    <3>4. y.cmds.data <=> x.cmds.data
      BY <2>1
    <3>5. y.cmds.select <=> x.cmds.select
      BY <2>1
    <3>. QED
      BY <1>1, <1>2, <2>3, <3>2, <3>3, <3>4, <3>5, Zenon DEF Paid
  <2>. QED
    BY <2>1, <2>2, <2>3
<1>. QED
  BY <1>3, <1>4

\* Replies collected.
LEMMA PaidCollected ==
    ASSUME NEW x \in XferRec, Flow(x), x.pc = "reply", NEW u, NEW v, NEW cs, NEW w \in Nat, Paid(x, u, cs, w),
           v.sel = u.sel, u.replies # <<>>,
           NEW y, y.pc = (IF x.last THEN "end" ELSE "build"), y.cmds = NoCmds,
           x.last => (v.replies = <<>> \/ w >= 1)
    PROVE  Paid(y, v, cs, w)
<1>0. Behind(v) \in Nat /\ Behind(v) <= 2 /\ Behind(v) <= Behind(u) /\ Behind(u) \in Nat
  BY BehindIs
<1>1. CASE ~x.last
  <2>1. ASSUME ~(v.sel \subseteq {cs}) PROVE w >= 3
    <3>1. 1 + Behind(u) <= w
      BY <2>1 DEF Paid
    <3>2. u.sel # {}
      BY <2>1
    <3>3. Behind(u) = 2
      BY <3>2, BehindIs
    <3>. QED
      BY <3>1, <3>3
  <2>2. ASSUME ~(v.sel \subseteq {cs}) PROVE 1 + Behind(v) <= w
    BY <1>0, <2>1, <2>2
  <2>3. y.pc = "build" /\ ~y.cmds.select
    BY <1>1, NoCmdsAre
  <2>. QED
    BY <2>1, <2>2, <2>3 DEF Paid
<1>2. CASE x.last
  <2>1. CASE v.sel = {}
    <3>1. Behind(v) <= 1 /\ (v.replies = <<>> => Behind(v) = 0)
      BY <2>1, BehindIs
    <3>2. Behind(v) <= w
      BY <1>0, <1>2, <3>1
    <3>. QED
      BY <1>2, <3>2 DEF Paid
  <2>2. CASE v.sel # {}
    <3>1. Behind(u) <= w
      BY <1>2, <2>2 DEF Paid
    <3>2. Behind(v) <= w
      BY <1>0, <3>1
    <3>. QED
      BY <1>2, <3>2 DEF Paid
  <2>. QED
    BY <2>1, <2>2
<1>. QED
  BY <1>1, <1>2

\* Replies that did not come.
LEMMA PaidTimedOut ==
    ASSUME NEW x \in XferRec, Flow(x), x.pc = "reply", NEW u, NEW v, NEW cs, NEW w \in Nat, Paid(x, u, cs, w),
           v.sel = u.sel, u.replies = <<>> => v.replies = <<>>, NEW n \in Nat, n >= w, n >= 1
    PROVE  Paid(Broken(x), v, cs, n)
<1>0. Behind(v) \in Nat /\ Behind(v) <= Behind(u) /\ Behind(u) \in Nat /\ (v.sel = {} => Behind(v) <= 1)
  BY BehindIs
<1>1. PICK y : y = Broken(x)
  OBVIOUS
<1>2. x.cmds = NoCmds
  BY DEF Flow
<1>3. CASE ~x.last
  <2>1. y.pc = "build" /\ y.toDo = 0 /\ ~y.cmds.select /\ ~y.cmds.data
    BY <1>1, <1>2, <1>3, BrokenFields, NoCmdsAre
  <2>2. ASSUME ~(v.sel \subseteq {cs}) PROVE 1 + Behind(v) <= n
    <3>1. 1 + Behind(u) <= w
      BY <2>2 DEF Paid
    <3>. QED
      BY <1>0, <3>1
  <2>3. ~(y.toDo > 0)
    BY <2>1
  <2>. QED
    BY <1>1, <2>1, <2>2, <2>3 DEF Paid
<1>4. CASE x.last
  <2>1. y.pc = "end"
    BY <1>1, <1>4, BrokenFields
  <2>2. CASE v.sel = {}
    <3>1. Behind(v) <= n
      BY <1>0, <2>2
    <3>. QED
      BY <1>1, <2>1, <3>1 DEF Paid
  <2>3. CASE v.sel # {}
    <3>1. Behind(u) <= w
      BY <1>4, <2>3 DEF Paid
    <3>2. Behind(v) <= n
      BY <1>0, <3>1
    <3>. QED
      BY <1>1, <2>1, <3>2 DEF Paid
  <2>. QED
    BY <2>2, <2>3
<1>. QED
  BY <1>3, <1>4

LEMMA SelectQuiet ==
    ASSUME UsbTyped, UsbTyped', BridgesInv, LockInv, BytesInv, FlowInv, SelectInv, NEW s \in Sensors, Ask(s) \/ Begin(s) \/ Build(s) \/ End(s)
    PROVE  SelectInv'
<1>0. Transfer(s) /\ usb' = usb /\ (toCome' = toCome \/ Ask(s))
  BY DEF Transfer, Ask, Begin, Build, End
<1>1. PICK d \in Slots : d = handle[s].dev
  BY <1>0, ReaderKeeps, UsedIsOpen
<1>2. PICK m \in Matches : m = On(s).match
  BY <1>0, ReaderKeeps, UsedIsOpen
<1>3. Wronged' = Wronged /\ Wronged \in Nat
  <2>1. toCome'.faults = toCome.faults
    <3>1. toCome \in [transfers : Nat, faults : 0 .. UsbFaults]
      BY DEF UsbTyped, ToComeOK
    <3>. QED
      BY <1>0, <3>1 DEF Ask
  <2>. QED
    BY <2>1, WrongedIs DEF Wronged
<1>4. xfer \in [Sensors -> XferRec] /\ xfer[s] \in XferRec /\ lock \in [Slots -> Sensors \cup {Nobody}] /\ handle[s].used
  BY <1>0, ReaderKeeps DEF UsbTyped, XferOK, LockOK
<1>5. dev'[d].upset = dev[d].upset
  <2>1. dev \in [Slots -> DevRec] /\ \A r \in DevRec : DOMAIN r = {"refs", "match", "proto", "hz", "spiHz", "mode", "upset"}
    BY DEF UsbTyped, DevOK, DevRec
  <2>2. dev' = dev \/ dev' = [dev EXCEPT ![handle[s].dev].spiHz = handle[s].hz]
    BY DEF Ask, Begin, Build, End
  <2>. QED
    BY <2>1, <2>2
<1>6. (usb'[m].wrong => Wronged' >= 3) /\ (dev'[d].upset => Wronged' >= 1)
  BY <1>0, <1>3, <1>5 DEF SelectInv, OnlyMine
<1>7. ~IsI2C(s) => /\ lock[d] = Nobody => Behind(usb[m]) <= Wronged
                   /\ Paid(xfer[s], usb[m], handle[s].cs, Wronged)
  BY <1>1, <1>2, <1>4 DEF SelectInv
<1>8. SUFFICES ASSUME ~IsI2C(s)
               PROVE  /\ lock'[d] = Nobody => Behind(usb[m]) <= Wronged
                      /\ Paid(xfer'[s], usb[m], handle[s].cs, Wronged)
  BY <1>0, <1>1, <1>2, <1>3, <1>6, SelectStep
<1>9. CASE Ask(s)
  <2>1. xfer'[s].pc = "ask" /\ lock' = lock
    BY <1>4, <1>9 DEF Ask, Resting
  <2>. QED
    BY <1>7, <1>8, <2>1 DEF Paid
<1>10. CASE Begin(s)
  <2>1. lock[d] = Nobody /\ lock'[d] = s /\ s # Nobody
    BY <1>1, <1>4, <1>10, RecordsTyped DEF Begin, MayTake
  <2>2. xfer'[s].pc = "build" /\ xfer'[s].cmds = [NoCmds EXCEPT !.retune = Retuned(s), !.select = TRUE]
    BY <1>4, <1>8, <1>10 DEF Begin, XferRec
  <2>3. xfer'[s].cmds.select
    BY <2>2 DEF NoCmds
  <2>. QED
    BY <1>7, <1>8, <2>1, <2>2, <2>3 DEF Paid
<1>11. CASE Build(s)
  <2> DEFINE x == xfer[s]
             k == Pieces(x.kind) - x.toDo + 1
             reply == IF x.kind # "write" THEN Append(x.cmds.reply, Tag(s, k)) ELSE x.cmds.reply
             owed == IF x.kind # "write" THEN x.owed + 1 ELSE x.owed
             last == [x EXCEPT !.cmds = [x.cmds EXCEPT !.release = TRUE], !.last = TRUE, !.pc = "write"]
             flush == [x EXCEPT !.pc = "write"]
             more == [x EXCEPT !.cmds = [x.cmds EXCEPT !.data = TRUE, !.reply = reply], !.toDo = x.toDo - 1, !.owed = owed]
  <2>1. lock' = lock /\ lock[d] = s /\ s # Nobody /\ x.pc = "build"
    BY <1>1, <1>11, RecordsTyped DEF Build, LockInv, Holding
  <2>2. \/ xfer'[s] = last
        \/ x.toDo # 0 /\ xfer'[s] = flush
        \/ x.toDo # 0 /\ xfer'[s] = more
    BY <1>4, <1>11 DEF Build
  <2>3. x.cmds \in Cmds /\ x.toDo \in 0 .. 2
    BY <1>4, XferFields
  <2>4. PICK y : y = xfer'[s]
    OBVIOUS
  <2>5. /\ y.pc \in {"build", "write"} /\ (y.cmds.select <=> x.cmds.select)
        /\ (y.toDo > 0 \/ y.cmds.data) => (x.toDo > 0 \/ x.cmds.data)
    <3>1. CASE y = last
      <4>1. PICK c : c = [x.cmds EXCEPT !.release = TRUE]
        OBVIOUS
      <4>2. c.select = x.cmds.select /\ c.data = x.cmds.data
        BY <2>3, <4>1 DEF Cmds
      <4>3. last.pc = "write" /\ last.cmds = c /\ last.toDo = x.toDo
        BY <1>4, <4>1 DEF XferRec
      <4>. QED
        BY <3>1, <4>2, <4>3
    <3>2. CASE y = flush
      <4>1. flush.pc = "write" /\ flush.cmds = x.cmds /\ flush.toDo = x.toDo
        BY <1>4 DEF XferRec
      <4>. QED
        BY <3>2, <4>1
    <3>3. CASE y = more /\ x.toDo # 0
      <4>1. PICK c : c = [x.cmds EXCEPT !.data = TRUE, !.reply = reply]
        OBVIOUS
      <4>2. c.select = x.cmds.select
        <5> HIDE DEF reply
        <5>. QED
          BY <2>3, <4>1 DEF Cmds
      <4>3. more.pc = "build" /\ more.cmds = c
        BY <1>4, <2>1, <4>1 DEF XferRec
      <4>4. x.toDo > 0
        BY <2>3, <3>3
      <4>. QED
        BY <3>3, <4>2, <4>3, <4>4
    <3>. QED
      BY <2>2, <2>4, <3>1, <3>2, <3>3
  <2>6. Paid(y, usb[m], handle[s].cs, Wronged)
    <3>1. Paid(x, usb[m], handle[s].cs, Wronged)
      BY <1>7, <1>8
    <3>2. x.pc \in {"build", "write"} /\ y.pc # "reply" /\ y.pc # "end"
      BY <2>1, <2>5
    <3> HIDE DEF x
    <3>. QED
      BY <2>5, <3>1, <3>2 DEF Paid
  <2>. QED
    BY <2>1, <2>4, <2>6
<1>12. CASE End(s)
  <2>1. xfer[s].pc = "end" /\ xfer'[s].pc = "rest"
    BY <1>4, <1>12 DEF End, XferRec
  <2>2. Behind(usb[m]) <= Wronged
    BY <1>7, <1>8, <2>1 DEF Paid
  <2>. QED
    BY <2>1, <2>2 DEF Paid
<1>. QED
  BY <1>9, <1>10, <1>11, <1>12

LEMMA SelectWrite ==
    ASSUME UsbTyped, UsbTyped', BridgesInv, LockInv, BytesInv, BytesInv', FlowInv, SelectInv, NEW s \in Sensors, Write(s)
    PROVE  SelectInv'
<1>0. Transfer(s) /\ xfer[s].pc = "write" /\ xfer[s].pc \in Holding /\ lock' = lock /\ handle' = handle
  BY DEF Transfer, Write, Holding
<1>1. PICK d \in Slots : d = handle[s].dev
  BY <1>0, ReaderKeeps, UsedIsOpen
<1>2. PICK m \in Matches : m = On(s).match
  BY <1>0, ReaderKeeps, UsedIsOpen
<1> DEFINE x == xfer[s]
           u == usb[m]
           c == x.cmds
           cs == handle[s].cs
<1>3. x \in XferRec /\ Shape(x) /\ Flow(x) /\ handle[s].used /\ lock[d] # Nobody /\ u \in UsbRec
      /\ (~On(s).upset => SoundIs(s, x, u.replies))
  BY <1>0, <1>1, <1>2, InMessage, ReaderKeeps DEF FlowInv, Replies
<1>4. ~IsI2C(s) => Paid(x, u, cs, Wronged)
  BY <1>2, <1>3 DEF SelectInv
<1>5. (dev[d].upset => Wronged >= 1) /\ (u.wrong => Wronged >= 3) /\ Wronged \in Nat /\ On(s) = dev[d]
  BY <1>1, WrongedIs DEF SelectInv, OnlyMine, On
<1>6. CASE WriteFine(s)
  <2>1. xfer'[s] = Sent(x) /\ dev' = dev /\ Wronged' = Wronged
    BY <1>6, WrongedIs DEF WriteFine, UsbTyped, XferOK
  <2>2. PICK v : v = usb'[m]
    OBVIOUS
  <2>3. v = Carry(s, c)
    BY <1>2, <1>6, <2>2 DEF WriteFine, UsbTyped, UsbOK
  <2>4. /\ v.sel = (IF c.release THEN {} ELSE IF c.select THEN {cs} ELSE u.sel)
        /\ v.replies = u.replies \o c.reply
        /\ v.wrong <=> (u.wrong \/ (c.data /\ ~IsI2C(s) /\ ~((IF c.select THEN {cs} ELSE u.sel) \subseteq {cs})))
    BY <1>2, <1>3, <2>3 DEF Carry, UsbRec
  <2>5. x.owed = 0 => (v.replies = <<>> \/ Wronged >= 1)
    <3>1. SUFFICES ASSUME x.owed = 0, ~dev[d].upset PROVE v.replies = <<>>
      BY <1>5
    <3>2. SoundIs(s, x, u.replies)
      BY <1>3, <1>5, <3>1
    <3>3. u.replies = <<>> /\ Len(c.reply) = 0
      BY <1>0, <3>1, <3>2 DEF SoundIs
    <3>4. c.reply \in Seq(Nat \X Nat)
      BY <1>3, XferFields
    <3>5. c.reply = <<>>
      BY <3>3, <3>4, SeqFacts
    <3>. QED
      BY <2>4, <3>3, <3>5
  <2>6. ~IsI2C(s) => /\ Paid(Sent(x), v, cs, Wronged)
                     /\ (c.data /\ ~((IF c.select THEN {cs} ELSE u.sel) \subseteq {cs})) => Wronged >= 3
    <3> HIDE DEF u, cs
    <3>. QED
      BY <1>0, <1>3, <1>4, <1>5, <2>4, <2>5, PaidSent
  <2>7. v.wrong => Wronged >= 3
    BY <1>5, <2>4, <2>6
  <2>. QED
    BY <1>0, <1>1, <1>2, <1>3, <1>5, <2>1, <2>2, <2>6, <2>7, SelectStep
<1>7. CASE WriteRefused(s) \/ WriteLost(s)
  <2>1. xfer'[s] \in {Sent(x), Broken(x)} /\ usb' = usb
    BY <1>0, <1>7 DEF Write, WriteRefused, WriteLost, UsbTyped, XferOK
  <2>2. Wronged' = Wronged + 1
    BY <1>7, WrongedIs DEF WriteRefused, WriteLost
  <2>3. (dev'[d].upset => Wronged' >= 1) /\ (usb'[m].wrong => Wronged' >= 3)
    BY <1>5, <2>1, <2>2
  <2>4. u.replies # <<>> => Wronged >= 1
    <3>1. SUFFICES ASSUME ~dev[d].upset PROVE u.replies = <<>>
      BY <1>5
    <3>. QED
      BY <1>0, <1>3, <1>5, <3>1 DEF SoundIs
  <2>5. PICK y \in {Sent(x), Broken(x)} : y = xfer'[s]
    BY <2>1
  <2>6. ~IsI2C(s) => Paid(y, u, cs, Wronged + 1)
    <3> HIDE DEF u, cs
    <3>. QED
      BY <1>0, <1>3, <1>4, <1>5, <2>4, PaidWrong
  <2>. QED
    BY <1>0, <1>1, <1>2, <1>3, <2>1, <2>2, <2>3, <2>5, <2>6, SelectStep
<1>. QED
  BY <1>6, <1>7 DEF Write

LEMMA SelectReply ==
    ASSUME UsbTyped, UsbTyped', BridgesInv, LockInv, BytesInv, BytesInv', FlowInv, SelectInv, NEW s \in Sensors, Reply(s)
    PROVE  SelectInv'
<1>0. Transfer(s) /\ xfer[s].pc = "reply" /\ xfer[s].pc \in Holding /\ lock' = lock /\ handle' = handle
  BY DEF Transfer, Reply, Holding
<1>1. PICK d \in Slots : d = handle[s].dev
  BY <1>0, ReaderKeeps, UsedIsOpen
<1>2. PICK m \in Matches : m = On(s).match
  BY <1>0, ReaderKeeps, UsedIsOpen
<1> DEFINE x == xfer[s]
           u == usb[m]
           cs == handle[s].cs
<1>3. x \in XferRec /\ Shape(x) /\ Flow(x) /\ handle[s].used /\ lock[d] # Nobody /\ u \in UsbRec /\ u.replies \in Seq(Nat \X Nat)
      /\ (~On(s).upset => SoundIs(s, x, u.replies))
  BY <1>0, <1>1, <1>2, InMessage, ReaderKeeps DEF FlowInv, Replies
<1>4. ~IsI2C(s) => Paid(x, u, cs, Wronged)
  BY <1>2, <1>3 DEF SelectInv
<1>5. (dev[d].upset => Wronged >= 1) /\ (u.wrong => Wronged >= 3) /\ Wronged \in Nat /\ On(s) = dev[d]
  BY <1>1, WrongedIs DEF SelectInv, OnlyMine, On
<1>6. x.owed \in Nat /\ x.owed > 0 /\ Len(u.replies) \in Nat
  BY <1>0, <1>3, XferFields DEF Flow
<1>7. PICK v : v = usb'[m]
  OBVIOUS
<1>8. ASSUME NEW n \in Nat, n <= Len(u.replies), Drop(s, n)
      PROVE  /\ v.sel = u.sel /\ v.wrong = u.wrong /\ v.replies = SubSeq(u.replies, n + 1, Len(u.replies))
             /\ u.replies = <<>> => v.replies = <<>>
  <2>1. v.sel = u.sel /\ v.wrong = u.wrong /\ v.replies = SubSeq(u.replies, n + 1, Len(u.replies))
    BY <1>2, <1>3, <1>7, <1>8 DEF Drop, UsbTyped, UsbOK, UsbRec
  <2>2. ASSUME u.replies = <<>> PROVE v.replies = <<>>
    <3>1. n = 0
      BY <1>8, <2>2
    <3>. QED
      BY <2>1, <2>2, <3>1
  <2>. QED
    BY <2>1, <2>2
<1>9. CASE Collect(s)
  <2>1. x.owed <= Len(u.replies) /\ Drop(s, x.owed) /\ dev' = dev /\ Wronged' = Wronged
    BY <1>2, <1>6, <1>9, WrongedIs DEF Collect, Replies
  <2>2. v.sel = u.sel /\ v.wrong = u.wrong /\ v.replies = SubSeq(u.replies, x.owed + 1, Len(u.replies)) /\ u.replies # <<>>
    <3>1. u.replies # <<>>
      <4>1. SUFFICES ASSUME u.replies = <<>> PROVE FALSE
        OBVIOUS
      <4>2. Len(u.replies) = 0
        BY <4>1
      <4> HIDE DEF u, x
      <4>. QED
        BY <1>6, <2>1, <4>2
    <3>. QED
      BY <1>6, <1>8, <2>1, <3>1
  <2>3. xfer'[s].pc = (IF x.last THEN "end" ELSE "build") /\ xfer'[s].cmds = NoCmds
    <3>1. PICK g : g = x.got \o SubSeq(Replies(s), 1, x.owed)
      OBVIOUS
    <3>2. PICK z : z = [x EXCEPT !.got = g, !.owed = 0]
      OBVIOUS
    <3>3. xfer'[s] = Flushed(z)
      BY <1>9, <3>1, <3>2 DEF Collect, UsbTyped, XferOK
    <3>4. x.cmds = NoCmds
      BY <1>0, <1>3 DEF Flow
    <3>. QED
      BY <1>3, <3>2, <3>3, <3>4 DEF Flushed, XferRec
  <2>4. v.replies = <<>> \/ Wronged >= 1
    <3>1. SUFFICES ASSUME ~dev[d].upset PROVE v.replies = <<>>
      BY <1>5
    <3>2. x.owed = Len(u.replies)
      BY <1>0, <1>3, <1>5, <3>1 DEF SoundIs
    <3>. QED
      BY <1>3, <2>2, <3>2, SeqFacts
  <2>5. PICK y : y = xfer'[s]
    OBVIOUS
  <2>6. ~IsI2C(s) => Paid(y, v, cs, Wronged)
    <3> HIDE DEF u, cs, x
    <3>. QED
      BY <1>0, <1>3, <1>4, <1>5, <2>2, <2>3, <2>4, <2>5, PaidCollected DEF x
  <2>. QED
    BY <1>0, <1>1, <1>2, <1>3, <1>5, <1>7, <2>1, <2>2, <2>5, <2>6, SelectStep
<1>10. CASE TimeOut(s)
  <2>1. xfer'[s] = Broken(x)
    BY <1>10 DEF TimeOut, UsbTyped, XferOK
  <2>2. PICK n \in Nat : n <= Len(u.replies) /\ Drop(s, n)
    BY <1>2, <1>6, <1>10 DEF TimeOut, Replies
  <2>3. v.sel = u.sel /\ v.wrong = u.wrong /\ (u.replies = <<>> => v.replies = <<>>)
    BY <1>8, <2>2
  <2>4. Wronged' \in Nat /\ Wronged' >= Wronged /\ Wronged' >= 1
    <3>1. CASE Fine
      <4>1. Len(u.replies) < x.owed \/ Fault("late")
        BY <1>2, <1>10 DEF TimeOut, Replies
      <4>2. CASE Fault("late")
        BY <1>5, <4>2, WrongedIs
      <4>3. CASE Len(u.replies) < x.owed
        <5>1. dev[d].upset
          <6>1. SUFFICES ASSUME ~dev[d].upset PROVE FALSE
            BY <1>5
          <6>2. x.owed = Len(u.replies)
            BY <1>0, <1>3, <1>5, <6>1 DEF SoundIs
          <6> HIDE DEF u, x
          <6>. QED
            BY <1>6, <4>3, <6>2
        <5>2. Wronged' = Wronged
          BY <3>1, WrongedIs
        <5>. QED
          BY <1>5, <5>1, <5>2
      <4>. QED
        BY <4>1, <4>2, <4>3
    <3>2. CASE ~Fine
      <4>1. Fault("late")
        BY <1>10, <3>2 DEF TimeOut
      <4>2. Wronged' = Wronged + 1
        BY <4>1, WrongedIs
      <4>. QED
        BY <1>5, <4>2
    <3>. QED
      BY <3>1, <3>2
  <2>5. PICK w \in Nat : w = Wronged'
    BY <2>4
  <2>6. ~IsI2C(s) => Paid(Broken(x), v, cs, w)
    <3> HIDE DEF u, cs, x
    <3>. QED
      BY <1>0, <1>3, <1>4, <1>5, <2>3, <2>4, <2>5, PaidTimedOut DEF x
  <2>7. v.wrong => Wronged' >= 3
    BY <1>5, <2>3, <2>4
  <2>. QED
    BY <1>0, <1>1, <1>2, <1>3, <1>7, <2>1, <2>4, <2>5, <2>6, <2>7, SelectStep
<1>. QED
  BY <1>9, <1>10 DEF Reply

\* Main's steps: the readers rest.
LEMMA SelectAtRest ==
    ASSUME UsbTyped, UsbTyped', BridgesInv, LockInv, SelectInv, [BusNext]_busVars, UNCHANGED xfer, main.pc \notin {"run", "join"},
           main'.pc \in {"open", "setup"} => main.pc \in {"open", "setup"},
           \A m \in Matches : usb'[m].wrong = usb[m].wrong,
           \A d \in Slots : dev'[d].upset => dev[d].upset \/ Wronged' >= 1,
           \A s \in Sensors : (handle'[s].used /\ ~IsI2C(s)') => Behind(usb'[On(s)'.match]) <= Wronged
    PROVE  SelectInv'
<1>1. \A s \in Sensors : xfer'[s].pc = "rest"
  BY NoneHeld
<1>2. Wronged \in Nat /\ Wronged' \in Nat /\ Wronged' >= Wronged
  BY WrongedGrows
<1>3. OnlyMine'
  <2>1. \A m \in Matches : usb'[m].wrong => Wronged >= 3
    BY DEF SelectInv, OnlyMine
  <2>2. Wronged >= 3 => Wronged' >= 3
    BY <1>2
  <2>. QED
    BY <2>1, <2>2 DEF OnlyMine
<1>4. \A d \in Slots : dev'[d].upset => Wronged' >= 1
  <2>1. Wronged >= 1 => Wronged' >= 1
    BY <1>2
  <2>. QED
    BY <2>1 DEF SelectInv
<1>5. ASSUME NEW s \in Sensors, handle'[s].used, ~IsI2C(s)'
      PROVE  Behind(usb'[On(s)'.match]) <= Wronged' /\ Paid(xfer'[s], usb'[On(s)'.match], handle'[s].cs, Wronged')
  <2>1. Behind(usb'[On(s)'.match]) \in Nat /\ Behind(usb'[On(s)'.match]) <= Wronged
    BY <1>5, BehindIs
  <2>2. Behind(usb'[On(s)'.match]) <= Wronged'
    BY <1>2, <2>1
  <2>3. Paid(xfer'[s], usb'[On(s)'.match], handle'[s].cs, Wronged')
    BY <1>1 DEF Paid
  <2>. QED
    BY <2>2, <2>3
<1>6. main'.pc \in {"open", "setup"} => \A m \in Matches : ~usb'[m].wrong
  BY DEF SelectInv
<1>. QED
  BY <1>3, <1>4, <1>5, <1>6 DEF SelectInv, Behind, Paid

\* A bridge's debt is seen by every handle on it.
LEMMA BehindKnown ==
    ASSUME UsbTyped, BridgesInv, LockInv, SelectInv, main.pc \notin {"run", "join"}, NEW s \in Sensors, handle[s].used, ~IsI2C(s)
    PROVE  Behind(usb[On(s).match]) <= Wronged
<1>1. handle[s].dev \in Slots
  BY UsedIsOpen
<1>2. lock[handle[s].dev] = Nobody
  BY <1>1, NoneHeld
<1>. QED
  BY <1>2 DEF SelectInv

LEMMA UpsetOpen == ASSUME UsbTyped, Open, NEW e \in Slots, dev'[e].upset PROVE dev[e].upset
<1>0. dev \in [Slots -> DevRec]
  BY DEF UsbTyped, DevOK
<1>1. ~New.upset /\ ~[New EXCEPT !.refs = 1].upset
  BY DEF New, NoDev
<1>2. ASSUME NEW d \in Slots, Share(d) PROVE dev[e].upset
  BY <1>0, <1>2 DEF Share, DevRec
<1>3. ASSUME NEW d \in Slots, TakeOver(d) PROVE dev[e].upset
  BY <1>0, <1>1, <1>3 DEF TakeOver
<1>4. ASSUME NEW d \in Slots, Untaken(d) PROVE dev[e].upset
  BY <1>0, <1>1, <1>4 DEF Untaken
<1>5. CASE Unfit
  BY <1>5 DEF Unfit
<1>. QED
  BY <1>2, <1>3, <1>4, <1>5, OpenCases

LEMMA UpsetClose == ASSUME UsbTyped, Close, NEW e \in Slots, dev'[e].upset PROVE dev[e].upset
<1>0. dev \in [Slots -> DevRec]
  BY DEF UsbTyped, DevOK
<1>1. PICK d : d = handle[main.at].dev
  OBVIOUS
<1>2. dev' = dev \/ dev' = [dev EXCEPT ![d] = NoDev] \/ dev' = [dev EXCEPT ![d].refs = @ - 1]
  BY <1>1 DEF Close
<1>3. CASE dev' = [dev EXCEPT ![d] = NoDev]
  BY <1>0, <1>3 DEF NoDev
<1>4. CASE dev' = [dev EXCEPT ![d].refs = @ - 1]
  <2>1. \A r \in DevRec : DOMAIN r = {"refs", "match", "proto", "hz", "spiHz", "mode", "upset"}
    BY DEF DevRec
  <2>. QED
    BY <1>0, <1>4, <2>1
<1>. QED
  BY <1>2, <1>3, <1>4

LEMMA SelectMain ==
    ASSUME UsbTyped, UsbTyped', BridgesInv, LockInv, SelectInv, Open \/ Setup \/ Close
    PROVE  SelectInv'
<1>0. main.pc \notin {"run", "join"} /\ UNCHANGED xfer /\ [BusNext]_busVars
  BY DEF Open, Setup, Close, BusNext, MainStep
<1>00. Wronged \in Nat
  BY WrongedIs
<1>1. \A s \in Sensors : (handle[s].used /\ ~IsI2C(s)) => Behind(usb[On(s).match]) <= Wronged
  BY <1>0, BehindKnown
<1>2. CASE Open
  <2>1. ASSUME NEW t \in Sensors, handle'[t].used, ~IsI2C(t)' PROVE Behind(usb'[On(t)'.match]) <= Wronged
    <3>1. CASE /\ handle[t].used /\ handle'[t] = handle[t] /\ On(t)'.match = On(t).match /\ usb'[On(t).match] = usb[On(t).match]
      BY <1>1, <2>1, <3>1 DEF IsI2C
    <3>2. CASE /\ usb' = usb
               /\ \E o \in Sensors : handle[o].used /\ On(t)'.match = On(o).match /\ (IsI2C(t)' <=> IsI2C(o))
      BY <1>1, <2>1, <3>2
    <3>3. CASE usb'[On(t)'.match].sel = {} /\ usb'[On(t)'.match].replies = <<>>
      <4>1. Behind(usb'[On(t)'.match]) = 0
        BY <3>3, BehindIs
      <4>. QED
        BY <1>00, <4>1
    <3>. QED
      BY <1>2, <2>1, <3>1, <3>2, <3>3, Opening
  <2>2. \A m \in Matches : usb'[m].wrong = usb[m].wrong
    BY <1>2, Opening
  <2>3. \A d \in Slots : dev'[d].upset => dev[d].upset
    BY <1>2, UpsetOpen
  <2>4. main.pc = "open"
    BY <1>2, Opening
  <2>. QED
    BY <1>0, <2>1, <2>2, <2>3, <2>4, SelectAtRest
<1>3. CASE Setup
  <2>2. PICK s \in Sensors : s = main.at
    BY DEF UsbTyped, MainOK
  <2>3. PICK d : d = handle[s].dev
    OBVIOUS
  <2>4. d \in Slots /\ dev[d].refs > 0 /\ dev[d].match \in Matches
    <3>1. handle[s].used
      BY <1>3, <2>2 DEF Setup, BridgesInv, Place
    <3>. QED
      BY <2>3, <3>1, UsedIsOpen DEF On
  <2>5. usb \in [Matches -> UsbRec]
    BY DEF UsbTyped, UsbOK
  <2>6. ASSUME NEW t \in Sensors, handle'[t].used, ~IsI2C(t)' PROVE Behind(usb'[On(t)'.match]) <= Wronged
    <3>0. handle[t].used /\ handle'[t].dev = handle[t].dev /\ handle[t].dev \in Slots /\ On(t).match \in Matches
      BY <1>3, <2>6, Tuning, UsedIsOpen
    <3>1. On(t)'.match = On(t).match
      BY <1>3, <3>0, Tuning DEF On
    <3>2. ~IsI2C(t)
      BY <1>3, <2>6, Tuning DEF IsI2C
    <3>3. usb'[On(t).match].replies = usb[On(t).match].replies
      BY <1>3, <3>0, Tuning
    <3>4. usb[On(t).match].sel = {} => usb'[On(t).match].sel = {}
      <4>1. Tuned(s, d, want[s].spi) \/ UNCHANGED usb
        BY <1>3, <2>2, <2>3 DEF Setup, Believed, Unfit
      <4>2. CASE Tuned(s, d, want[s].spi)
        BY <2>4, <2>5, <3>0, <4>2 DEF Tuned, UsbRec
      <4>. QED
        BY <4>1, <4>2
    <3>5. Behind(usb'[On(t).match]) <= Behind(usb[On(t).match]) /\ Behind(usb'[On(t).match]) \in Nat /\ Behind(usb[On(t).match]) \in Nat
      BY <3>3, <3>4, BehindIs
    <3>6. Behind(usb[On(t).match]) <= Wronged
      BY <1>1, <3>0, <3>2
    <3>. QED
      BY <1>00, <3>1, <3>5, <3>6
  <2>7. main.pc = "setup" /\ (\A m \in Matches : usb'[m].wrong = usb[m].wrong)
    BY <1>3, Tuning
  <2>8. \A e \in Slots : dev'[e].upset => dev[e].upset \/ Wronged' >= 1
    <3>1. \A e \in Slots : dev'[e].upset => dev[e].upset \/ \E k : Fault(k)
      BY <1>3, Tuning
    <3>2. (\E k : Fault(k)) => Wronged' >= 1
      BY <1>00, WrongedIs
    <3>. QED
      BY <3>1, <3>2
  <2>. QED
    BY <1>0, <2>6, <2>7, <2>8, SelectAtRest
<1>4. CASE Close
  <2>1. main'.pc \notin {"open", "setup"} /\ \A m \in Matches : usb'[m].wrong = usb[m].wrong
    BY <1>4, Closing
  <2>2. ASSUME NEW t \in Sensors, handle'[t].used, ~IsI2C(t)' PROVE Behind(usb'[On(t)'.match]) <= Wronged
    <3>1. /\ handle'[t] = handle[t] /\ handle[t].used /\ On(t)'.match = On(t).match
          /\ usb'[On(t).match] = usb[On(t).match]
      BY <1>4, <2>2, Closing
    <3>. QED
      BY <1>1, <2>2, <3>1 DEF IsI2C
  <2>3. \A d \in Slots : dev'[d].upset => dev[d].upset
    BY <1>4, UpsetClose
  <2>. QED
    BY <1>0, <2>1, <2>2, <2>3, SelectAtRest
<1>. QED
  BY <1>2, <1>3, <1>4

LEMMA SelectNext ==
    ASSUME UsbTyped, UsbTyped', BridgesInv, LockInv, BytesInv, BytesInv', FlowInv, SelectInv, [BusNext]_busVars
    PROVE  SelectInv'
<1>1. CASE Open \/ Setup \/ Close
  BY <1>1, SelectMain
<1>2. CASE Stop \/ Joined \/ UNCHANGED busVars
  <2>1. UNCHANGED <<dev, handle, lock, xfer, usb, toCome>> /\ (main'.pc \in {"open", "setup"} => main' = main)
    BY <1>2 DEF Stop, Joined, busVars, UsbTyped, MainOK
  <2>. QED
    BY <2>1, ZenonT(60) DEF SelectInv, OnlyMine, Wronged, On, IsI2C, Behind, Paid
<1>3. ASSUME NEW s \in Sensors, Transfer(s) PROVE SelectInv'
  BY <1>3, SelectQuiet, SelectWrite, SelectReply DEF Transfer
<1>. QED
  BY <1>1, <1>2, <1>3, BusSteps

MessagesInv == UsbTyped /\ BridgesInv /\ LockInv /\ BytesInv /\ ClockInv /\ FlowInv /\ SelectInv

LEMMA MessagesNext == MessagesInv /\ [BusNext]_busVars => MessagesInv'
<1> SUFFICES ASSUME MessagesInv, [BusNext]_busVars PROVE MessagesInv'
  OBVIOUS
<1> USE DEF MessagesInv
<1>1. UsbTyped' /\ BridgesInv'
  BY BridgesNext
<1>2. LockInv' /\ BytesInv' /\ ClockInv' /\ FlowInv'
  BY LockNext, BytesNext, ClockNext, FlowNext
<1>3. SelectInv'
  BY <1>1, <1>2, SelectNext
<1>. QED
  BY <1>1, <1>2, <1>3

LEMMA MessagesImply == MessagesInv => MessagesWhole
BY DEF MessagesInv, MessagesWhole, BytesInv, ClockInv, SelectInv, OwnBytes, ClockIsMine

\* Two readers on any bridges, with any parts, any number of transfers and of calls
\* that go wrong: while none has gone wrong on a bridge a transfer that succeeds
\* brought its own bytes, and all of them, and a part was clocked at its own rate;
\* and before the third that goes wrong nothing was clocked to a part that another's
\* message left selected (bus_ft232h.c i2c_xfer, spi_msg).
THEOREM MessagesWholeHolds == BusSpec => []MessagesWhole
<1>1. BusInit => MessagesInv
  BY TypingInit, BridgesInit, LockInit, BytesInit, ClockInit, FlowInit, SelectInit DEF MessagesInv
<1>. QED
  BY <1>1, MessagesNext, MessagesImply, PTL DEF BusSpec

=============================================================================
