-------------------------------- MODULE Drivers --------------------------------
(***************************************************************************)
(* The chip drivers (src/src/drivers/*.c) under the program that calls     *)
(* them: bring-up, reading, recovery, the bench's repeated probe and       *)
(* self-test, faults of any bus access, and a process killed between two   *)
(* accesses.  An operation of a driver is the sequence of its accesses.    *)
(*                                                                         *)
(* A register is named for what it decides, and holds what that decision   *)
(* is (a range in g or dps, a rate in mHz) instead of its bits.  Runs of   *)
(* accesses that decide nothing modelled are one step.                     *)
(***************************************************************************)
EXTENDS Integers, Sequences, FiniteSets, SequencesExt

CONSTANTS
    Chips,          \* drivers to run
    Requests,       \* configurations asked for: accel, gyro, odr, irq
    Conversions,    \* measurements the part takes
    BusFaults,      \* bus accesses that fail
    Deaths          \* processes killed

\* The registries' drivers: the simulated ones, and those that share another's table, apart.
Imus == {"ism330dhcx", "lsm6dso", "icm42688p", "mpu9250", "mpu6500", "icm20948"}
Mags == {"mmc5983ma", "rm3100", "ak8963", "ak09916", "lis3mdl", "lis2mdl"}
ASSUME ChipsAssumption == Chips \subseteq Imus \cup Mags

VARIABLES
    fitted, \* the part on the bus
    part,   \* its registers, and the measurement it holds
    drv,    \* the driver's static variables
    proc,   \* the process: what it does, the accesses still to make
    budget, \* measurements, faults and deaths still to come
    given   \* the measurement last delivered

driverVars == <<fitted, part, drv, proc, budget, given>>

(* --------------------------- rates and ranges ---------------------------- *)

\* odr_encode and odr_actual of the table-driven parts: the first rung that is
\* not below the request, or the last.
Rung(rungs, mhz) ==
    LET enough == {i \in DOMAIN rungs : mhz <= rungs[i]}
    IN IF enough = {} THEN Len(rungs) ELSE Min(enough)

\* A code's threshold in the encoder, and the rate the part runs at with it.
Encoded(thresholds, rates, mhz) == rates[Rung(Append(thresholds, 0), mhz)]

\* The divider of the parts that divide a base clock, and its rate.
Divider(base, mhz) ==
    LET div == (base + mhz \div 2) \div mhz - 1
    IN IF div < 0 THEN 0 ELSE IF div > 255 THEN 255 ELSE div
Divided(base, mhz) == base \div (1 + Divider(base, mhz))

OneOf(ranges, default, asked) == IF asked \in ranges THEN asked ELSE default

IsmRungs == <<13016, 26031, 52063, 104125, 208250, 416500, 833000, 1666000, 3332000, 6664000>>
IsmRate(mhz) == Encoded(SubSeq(IsmRungs, 1, 9), IsmRungs, mhz)
IsmActual(mhz) == IsmRungs[Rung(IsmRungs, mhz)]
IsmAccel(g) == OneOf({2, 4, 16}, 8, g)
IsmGyro(dps) == OneOf({125, 250, 500, 1000, 4000}, 2000, dps)
LsmRate(mhz) == Encoded(SubSeq(IsmRungs, 1, 9), IsmRungs, mhz)
LsmActual(mhz) == IsmRungs[Rung(IsmRungs, mhz)]
LsmAccel(g) == OneOf({2, 4, 16}, 8, g)
LsmGyro(dps) == OneOf({125, 250, 500, 1000, 4000}, 2000, dps)
Icm4Rungs == <<12500, 25000, 50000, 100000, 200000, 500000, 1000000, 2000000, 4000000, 8000000, 16000000, 32000000>>
Icm4Rate(mhz) == Encoded(SubSeq(Icm4Rungs, 1, 11), Icm4Rungs, mhz)
Icm4Actual(mhz) == Icm4Rungs[Rung(Icm4Rungs, mhz)]
Icm4Accel(g) == OneOf({2, 4, 16}, 8, g)
Icm4Gyro(dps) == OneOf({125, 250, 500, 1000}, 2000, dps)
MpuAccel(g) == OneOf({2, 4, 8}, 16, g)
MpuGyro(dps) == OneOf({250, 500, 1000}, 2000, dps)
MpuActual(mhz) == Divided(1000000, mhz)
Icm2Accel(g) == OneOf({2, 4, 8}, 16, g)
Icm2Gyro(dps) == OneOf({250, 500, 1000}, 2000, dps)
Icm2Actual(mhz) == Divided(1125000, mhz)
\* The accelerometer's divider has twelve bits.
Icm2AccelRate(mhz) == LET div == (1125000 + mhz \div 2) \div mhz - 1
                      IN 1125000 \div (1 + IF div > 4095 THEN 4095 ELSE div)

MmcRungs == <<1000, 11000, 21000, 53000, 106000, 211000, 1205000>>
MmcRate(mhz) == Encoded(SubSeq(MmcRungs, 1, 6), MmcRungs, mhz)
MmcActual(mhz) == MmcRungs[Rung(MmcRungs, mhz)]
RmRungs == <<1200, 2300, 4500, 9000, 18000, 37000, 75000, 150000, 300000, 600000>>
RmRate(mhz) == Encoded(SubSeq(RmRungs, 1, 9), RmRungs, mhz)
RmCycles(mhz) == IF mhz <= 150000 THEN 200 ELSE IF mhz <= 300000 THEN 100 ELSE 50
Ak8Rungs == <<8000, 100000>>
Ak8Rate(mhz) == IF mhz <= 8000 THEN 8000 ELSE 100000
Ak9Rungs == <<10000, 20000, 50000, 100000>>
Ak9Rate(mhz) == Encoded(SubSeq(Ak9Rungs, 1, 3), Ak9Rungs, mhz)
Lis3Rungs == <<1250, 2500, 5000, 10000, 20000, 40000, 80000, 155000>>
Lis3Rate(mhz) == IF mhz > 80000 THEN 155000 ELSE Encoded(SubSeq(Lis3Rungs, 1, 6), SubSeq(Lis3Rungs, 1, 7), mhz)
Lis2Rungs == <<10000, 20000, 50000, 100000>>
Lis2Rate(mhz) == Encoded(SubSeq(Lis2Rungs, 1, 3), Lis2Rungs, mhz)

(* ------------------------------- accesses -------------------------------- *)

\* A record with the fields of set as they are there.
With(record, set) == [field \in DOMAIN record |-> IF field \in DOMAIN set THEN set[field] ELSE record[field]]

NothingYet == -1        \* no bytes read, which differs from any there are
NoReading == [n |-> 0, accel |-> 0, gyro |-> 0, stim |-> FALSE, rates |-> <<0, 0>>]

\* What a part is after a reset, and with the power just on.
PowerOn == [bank |-> 0, accel |-> 0, gyro |-> 0, arate |-> 0, grate |-> 0, on |-> FALSE, stim |-> FALSE,
            pass |-> FALSE, cycles |-> 200, held |-> NoReading, done |-> FALSE]

AnyBank == -1
Doing(what, bank, set) == [do |-> what, bank |-> bank, set |-> set, tidy |-> FALSE]
Do(what) == Doing(what, 0, <<>>)
WIn(bank, set) == Doing("write", bank, set)
W(set) == WIn(0, set)                                       \* a register of bank 0
Bank(bank) == WIn(AnyBank, [bank |-> bank])                 \* the bank register is in every bank
Other == W(<<>>)                                            \* decides nothing modelled
Reset == W(PowerOn)
ForceOff == W([stim |-> FALSE])                             \* of the self-test
Look == Do("read")                                          \* also a wait for a bit, which may run out
Identify == Do("identify")                                  \* the part must answer as itself
Keep(set) == Doing("keep", 0, set)                          \* a static variable of the driver
Try(step) == [step EXCEPT !.do = IF step.do = "write" THEN "tryWrite" ELSE "tryRead"]  \* its result is not looked at
OrLast(step) == [step EXCEPT !.do = "writeOrLast"]                                      \* if it fails, on to the last access
\* After an error of one of these, the last access of the operation is made all the same.
Tidy(steps) == [i \in DOMAIN steps |-> [steps[i] EXCEPT !.tidy = TRUE]]

Flush == [held |-> NoReading, done |-> FALSE]
Fill(on) == [on |-> on, held |-> NoReading, done |-> FALSE]                            \* the FIFO's mode, which empties it

(* ------------------------------ the drivers ------------------------------ *)

Scale(accel, gyro) == [accel |-> accel, gyro |-> gyro]
ScaleAt(accel, gyro, rate) == [accel |-> accel, gyro |-> gyro, rate |-> rate]

IsmProbe == <<Identify>>
IsmReset == <<W(Fill(FALSE)), Reset, Look>>
IsmInit(c) ==
    <<Other, W([accel |-> IsmAccel(c.accel), arate |-> IsmRate(c.odr)]),
      W([gyro |-> IsmGyro(c.gyro), grate |-> IsmRate(c.odr)]), Other,
      W(Fill(FALSE)), Other, W([on |-> TRUE]), Other,
      Keep(ScaleAt(IsmAccel(c.accel), IsmGyro(c.gyro), IsmActual(c.odr)))>>
IsmRead == <<Do("count"), Do("drain"), Try(Look), Do("deliver")>>

IsmSelfTest ==
    IsmReset \o <<Other, W([accel |-> 4, arate |-> 52063]), W([gyro |-> 2000, grate |-> 52063])>>
    \o Tidy(<<Look, W([stim |-> TRUE]), Look, W([stim |-> FALSE]), Look, W([stim |-> TRUE]), Look>>)
    \o <<ForceOff>>

LsmProbe == <<Identify>>
LsmReset == <<W(Fill(FALSE)), Reset, Look>>
LsmInit(c) ==
    <<Other, W([accel |-> LsmAccel(c.accel), arate |-> LsmRate(c.odr)]),
      W([gyro |-> LsmGyro(c.gyro), grate |-> LsmRate(c.odr)]), Other,
      W(Fill(FALSE)), Other, W([on |-> TRUE]), Other,
      Keep(ScaleAt(LsmAccel(c.accel), LsmGyro(c.gyro), LsmActual(c.odr)))>>
LsmDrain == <<Do("count"), Do("drain")>>
LsmRead == LsmDrain \o <<Try(Look), Do("deliver")>>

Icm4Probe == <<Identify>>
Icm4Reset == <<Bank(0), Reset, Look>>
Icm4Init(c) ==
    <<Other, W([gyro |-> Icm4Gyro(c.gyro), grate |-> Icm4Rate(c.odr)]),
      W([accel |-> Icm4Accel(c.accel), arate |-> Icm4Rate(c.odr)]), Other, W(Flush), W([on |-> TRUE]),
      Keep(ScaleAt(Icm4Accel(c.accel), Icm4Gyro(c.gyro), Icm4Actual(c.odr)))>>
\* The counter is in another bank: it is passed over when the bank cannot be changed,
\* and so is a failure on the way back.
Icm4Drain == <<Do("count"), Do("drain")>>
Icm4Read == Icm4Drain \o <<OrLast(Bank(1)), Try(Look), Try(Bank(0)), Do("deliver")>>

MpuProbe(pass) == <<Identify>> \o IF pass THEN <<Look, Other, W([pass |-> TRUE]), Look>> ELSE <<>>
MpuReset == <<Reset, Look, Other>>
FifoRestart == <<W([on |-> FALSE]), W(Flush), Other, W([on |-> TRUE])>>
\* (mutant) The FIFO starts before the ranges are set.
MpuInitFifoFirst(c) ==
    <<Other, W([arate |-> MpuActual(c.odr), grate |-> MpuActual(c.odr)])>> \o FifoRestart
    \o <<W([gyro |-> MpuGyro(c.gyro)]), W([accel |-> MpuAccel(c.accel)]), Other>>
    \o <<Other, W([pass |-> TRUE]), Keep(Scale(MpuAccel(c.accel), MpuGyro(c.gyro)))>>
MpuInit(c) ==
    <<Other, W([arate |-> MpuActual(c.odr), grate |-> MpuActual(c.odr)]),
      W([gyro |-> MpuGyro(c.gyro)]), W([accel |-> MpuAccel(c.accel)]), Other>> \o FifoRestart
    \o <<Other, W([pass |-> TRUE]), Keep(Scale(MpuAccel(c.accel), MpuGyro(c.gyro)))>>
\* An overflow leaves the order of the bytes in doubt, and the FIFO starts again.
\* (The count, read first, is looked at after the overflow flag.)
MpuRead == <<Look, Do("overflow"), Do("count"), Do("drain"), Try(Look), Do("deliver")>>
MpuSelfTest ==
    MpuReset \o <<Other, W([arate |-> 1000000, grate |-> 1000000]), W([gyro |-> 250]), W([accel |-> 2]), Other,
                  Keep(Scale(2, 250))>> \o FifoRestart
    \o Tidy(<<Look, W([stim |-> TRUE]), Other>> \o FifoRestart \o <<Look>>) \o <<ForceOff>>

\* (mutant) The bank is taken for granted.
Icm2ProbeAnyBank == <<Identify>>
Icm2Probe == <<Bank(0), Identify>>
Icm2Reset == <<Bank(0), Reset, Look>>
Icm2Init(c) ==
    <<Bank(0), Other, Bank(2), WIn(2, [grate |-> Icm2Actual(c.odr)]), WIn(2, [gyro |-> Icm2Gyro(c.gyro)]),
      WIn(2, [arate |-> Icm2AccelRate(c.odr)]), WIn(2, [accel |-> Icm2Accel(c.accel)]), Bank(0),
      Other, W(Flush), Other, W([on |-> TRUE]), Other, W([pass |-> TRUE]),
      Keep(Scale(Icm2Accel(c.accel), Icm2Gyro(c.gyro)))>>
Icm2Read == <<Do("count"), Do("drain"), Try(Look), Do("deliver")>>

\* The magnetometers measure on their own once they are started.  Of a
\* measurement the model has its number, and the gain it was made with.
MmcProbe == <<Identify>>
MmcReset == <<Reset>>
MmcInit(c) == <<Keep([irq |-> c.irq, prev |-> NothingYet]), Other, Other, W([arate |-> MmcRate(c.odr), on |-> TRUE])>>
\* Polled, the status bit says whether there is a new measurement; with the
\* interrupt, that the bytes differ from the last ones read, which the first read after
\* a bring-up has none of: it hands on what there is, a measurement or not.
MmcRead ==
    (IF drv.irq THEN <<>> ELSE <<Do("ready")>>) \o <<Do("output"), W([done |-> FALSE])>>
    \o (IF drv.irq THEN <<Do("differ")>> ELSE <<>>) \o <<Do("deliver")>>

\* (mutant) What was borrowed is put back with the default.
RmProbeDefault == <<Identify, Look, W([cycles |-> 200]), Look>>
\* The X axis borrows the default cycle count to see that it can be written.
RmProbe == <<Identify, Look, W([cycles |-> 200]), Look>>
           \o IF part.cycles = 200 THEN <<>> ELSE <<W([cycles |-> part.cycles])>>
RmReset == <<W([on |-> FALSE]), W([cycles |-> 200]), Other, W([held |-> NoReading, done |-> FALSE]), Keep([accel |-> 200])>>
RmInit(c) ==
    <<W([cycles |-> RmCycles(c.odr)]), W([arate |-> RmRate(c.odr)]), W([on |-> TRUE]), Keep([accel |-> RmCycles(c.odr)])>>
RmRead == <<Do("ready"), Do("outputClears"), Do("deliver")>>

Ak8Probe == <<Identify>>
Ak8Reset == <<W([on |-> FALSE]), Reset, Look>>
Ak8Init(c) == <<W([on |-> FALSE]), Other, Look, W([on |-> FALSE]), W([on |-> TRUE, arate |-> Ak8Rate(c.odr)])>>
Ak8Read == <<Do("ready"), Do("outputClears"), Do("strong"), Do("deliver")>>

Ak9Probe == <<Identify>>
Ak9Reset == <<W([on |-> FALSE]), Reset, Look>>
Ak9Init(c) == <<W([on |-> FALSE]), W([on |-> TRUE, arate |-> Ak9Rate(c.odr)])>>
Ak9Read == <<Do("ready"), Do("outputClears"), Look, Do("strong"), Do("deliver")>>

Lis3Probe == <<Identify>>
Lis3Reset == <<Reset>>
Lis3Init(c) == <<Other, W([arate |-> Lis3Rate(c.odr)]), Other, W([on |-> TRUE])>>
Lis3Read == <<Do("ready"), Do("outputClears"), Do("deliver")>>

Lis2Probe == <<Identify>>
Lis2Reset == <<Reset>>
Lis2Init(c) == <<Other, W([arate |-> Lis2Rate(c.odr), on |-> TRUE])>>
Lis2Read == <<Do("ready"), Do("outputClears"), Do("deliver")>>

(* ------------------------------ the registry ----------------------------- *)

\* What each driver declares: the ranges it has, and the rate it will run at.
IsImu(name) == name \in Imus
AccelRanges(name) == {2, 4, 8, 16}
GyroRanges(name) ==
    CASE name \in {"ism330dhcx", "lsm6dso"} -> {125, 250, 500, 1000, 2000, 4000}
      [] name = "icm42688p" -> {125, 250, 500, 1000, 2000}
      [] OTHER -> {250, 500, 1000, 2000}

\* imu_fs_check.
FsCheck(name, c) == IsImu(name) => c.accel \in AccelRanges(name) /\ c.gyro \in GyroRanges(name)

\* actual_odr_mhz, or the table.
Resolve(name, mhz) ==
    CASE name = "ism330dhcx" -> IsmActual(mhz)
      [] name = "lsm6dso" -> LsmActual(mhz)
      [] name = "icm42688p" -> Icm4Actual(mhz)
      [] name \in {"mpu9250", "mpu6500"} -> MpuActual(mhz)
      [] name = "icm20948" -> Icm2Actual(mhz)
      [] name = "mmc5983ma" -> MmcActual(mhz)
      [] name = "rm3100" -> RmRungs[Rung(RmRungs, mhz)]
      [] name = "ak8963" -> Ak8Rungs[Rung(Ak8Rungs, mhz)]
      [] name = "ak09916" -> Ak9Rungs[Rung(Ak9Rungs, mhz)]
      [] name = "lis3mdl" -> Lis3Rungs[Rung(Lis3Rungs, mhz)]
      [] name = "lis2mdl" -> Lis2Rungs[Rung(Lis2Rungs, mhz)]

Probe(name) ==
    CASE name = "ism330dhcx" -> IsmProbe [] name = "lsm6dso" -> LsmProbe [] name = "icm42688p" -> Icm4Probe
      [] name = "mpu9250" -> MpuProbe(TRUE) [] name = "mpu6500" -> MpuProbe(FALSE) [] name = "icm20948" -> Icm2Probe
      [] name = "mmc5983ma" -> MmcProbe [] name = "rm3100" -> RmProbe [] name = "ak8963" -> Ak8Probe
      [] name = "ak09916" -> Ak9Probe [] name = "lis3mdl" -> Lis3Probe [] name = "lis2mdl" -> Lis2Probe
ResetOf(name) ==
    CASE name = "ism330dhcx" -> IsmReset [] name = "lsm6dso" -> LsmReset [] name = "icm42688p" -> Icm4Reset
      [] name \in {"mpu9250", "mpu6500"} -> MpuReset [] name = "icm20948" -> Icm2Reset
      [] name = "mmc5983ma" -> MmcReset [] name = "rm3100" -> RmReset [] name = "ak8963" -> Ak8Reset
      [] name = "ak09916" -> Ak9Reset [] name = "lis3mdl" -> Lis3Reset [] name = "lis2mdl" -> Lis2Reset
InitOf(name, c) ==
    CASE name = "ism330dhcx" -> IsmInit(c) [] name = "lsm6dso" -> LsmInit(c) [] name = "icm42688p" -> Icm4Init(c)
      [] name \in {"mpu9250", "mpu6500"} -> MpuInit(c) [] name = "icm20948" -> Icm2Init(c)
      [] name = "mmc5983ma" -> MmcInit(c) [] name = "rm3100" -> RmInit(c) [] name = "ak8963" -> Ak8Init(c)
      [] name = "ak09916" -> Ak9Init(c) [] name = "lis3mdl" -> Lis3Init(c) [] name = "lis2mdl" -> Lis2Init(c)
ReadOf(name) ==
    CASE name = "ism330dhcx" -> IsmRead [] name = "lsm6dso" -> LsmRead [] name = "icm42688p" -> Icm4Read
      [] name \in {"mpu9250", "mpu6500"} -> MpuRead [] name = "icm20948" -> Icm2Read
      [] name = "mmc5983ma" -> MmcRead [] name = "rm3100" -> RmRead [] name = "ak8963" -> Ak8Read
      [] name = "ak09916" -> Ak9Read [] name = "lis3mdl" -> Lis3Read [] name = "lis2mdl" -> Lis2Read
SelfTestOf(name) == IF name = "ism330dhcx" THEN IsmSelfTest ELSE MpuSelfTest
HasSelfTest(name) == name \in {"ism330dhcx", "mpu9250", "mpu6500"}

(* ------------------------------ the process ------------------------------ *)

Down == [state |-> "down", jobs |-> <<>>, op |-> "none", steps |-> <<>>, cfg |-> [accel |-> 0, gyro |-> 0, odr |-> 0, irq |-> FALSE],
         rc |-> 0, hand |-> NoReading, hurt |-> FALSE, bad |-> FALSE, found |-> PowerOn]
Fresh == [accel |-> 0, gyro |-> 0, rate |-> 0, irq |-> FALSE, prev |-> NothingYet]

\* last is the newest measurement handed on before.
NoneYet == [seen |-> NoReading, scale |-> Fresh, last |-> 0, odr |-> 0]

DriversInit ==
    /\ fitted \in Chips /\ part = PowerOn /\ drv = Fresh /\ proc = Down
    /\ budget = [conversions |-> Conversions, faults |-> BusFaults, deaths |-> Deaths]
    /\ given = NoneYet

\* Registers that are what a bring-up sets, and not what the part does with them.
Settings(p) == [accel |-> p.accel, gyro |-> p.gyro, arate |-> p.arate, grate |-> p.grate, on |-> p.on, cycles |-> p.cycles]

\* imu_ctx_open: the rate is resolved, and the part is brought up.
Start ==
    /\ proc.state \in {"down", "failed"}
    /\ \E c \in Requests :
          /\ FsCheck(fitted, c)
          /\ proc' = [Down EXCEPT !.state = "starting", !.jobs = <<"probe", "reset", "init">>,
                                  !.cfg = [c EXCEPT !.odr = Resolve(fitted, c.odr)]]
    /\ drv' = Fresh /\ given' = NoneYet /\ UNCHANGED <<fitted, part, budget>>

\* The next operation of the job in hand.
BeginJob ==
    /\ proc.op = "none" /\ proc.jobs # <<>>
    /\ LET op == Head(proc.jobs)
       IN proc' = [proc EXCEPT !.op = op, !.jobs = Tail(@), !.rc = 0, !.found = part,
                     !.steps = CASE op = "probe" -> Probe(fitted) [] op = "reset" -> ResetOf(fitted)
                                 [] op = "init" -> InitOf(fitted, proc.cfg) [] op = "read" -> ReadOf(fitted)
                                 [] op = "selftest" -> SelfTestOf(fitted)]
    /\ UNCHANGED <<fitted, part, drv, budget, given>>

\* What the process turns to once a job is over.  The reader recovers a part after
\* errors; the bench repeats the probe, and tests the part and brings it up again.
Choose ==
    /\ proc.state = "up" /\ proc.op = "none" /\ proc.jobs = <<>>
    /\ \/ proc' = [proc EXCEPT !.jobs = <<"read">>]
       \/ proc.bad /\ proc' = [proc EXCEPT !.jobs = <<"reset", "init">>, !.state = "recovering", !.bad = FALSE]
       \/ IsImu(fitted) /\ proc' = [proc EXCEPT !.jobs = <<"probe">>]
       \/ HasSelfTest(fitted) /\ proc' = [proc EXCEPT !.jobs = <<"selftest", "reset", "init">>, !.state = "testing"]
    /\ UNCHANGED <<fitted, part, drv, budget, given>>

\* The operation is over with its result.  A failed start ends the process, and so
\* does, here, a bench test that could not bring the part up again; a failed
\* recovery goes on reading.
Over(rc) ==
    LET p == [proc EXCEPT !.op = "none", !.steps = <<>>, !.rc = rc]
    IN CASE rc = 0 /\ proc.jobs = <<>> -> [p EXCEPT !.state = "up"]
         [] rc = 0 -> p
         [] proc.op = "read" \/ (proc.op = "probe" /\ proc.state = "up") -> [p EXCEPT !.bad = @ \/ rc < 0]
         [] proc.state = "recovering" -> [p EXCEPT !.state = "up", !.jobs = <<>>]
         [] proc.op = "selftest" -> p
         [] OTHER -> [Down EXCEPT !.hurt = proc.hurt, !.rc = rc, !.state = "failed"]

Rest == [proc EXCEPT !.steps = Tail(@)]
Step1 == Head(proc.steps)

\* An access that worked.  A write that meets the wrong bank is made, and reaches
\* another register; a read there is taken for one that finds nothing new, where the
\* bytes of the other bank could say anything.
Reaches(step) == step.bank = AnyBank \/ part.bank = step.bank
Landed(step) == IF Reaches(step) THEN With(part, step.set) ELSE part

Access ==
    /\ proc.op # "none" /\ proc.steps # <<>>
    /\ LET step == Step1
           new == part.bank = 0 /\ part.done
       IN \/ /\ step.do \in {"write", "tryWrite", "writeOrLast"} /\ part' = Landed(step) /\ proc' = Rest /\ UNCHANGED <<drv, given>>
          \/ /\ step.do \in {"read", "tryRead"} /\ proc' = Rest /\ UNCHANGED <<part, drv, given>>
          \/ /\ step.do = "identify" /\ UNCHANGED <<part, drv, given>>
             /\ proc' = IF part.bank = 0 THEN Rest ELSE Over(-1)
          \/ /\ step.do = "keep" /\ drv' = With(drv, step.set) /\ proc' = Rest /\ UNCHANGED <<part, given>>
          \/ /\ step.do \in {"count", "ready"} /\ UNCHANGED <<part, drv, given>>
             /\ proc' = IF new THEN Rest ELSE Over(IF step.do = "count" THEN 0 ELSE 1)
          \/ /\ step.do = "overflow" /\ UNCHANGED <<part, drv, given>>
             /\ \/ proc' = Rest
                \/ new /\ proc' = [proc EXCEPT !.steps = FifoRestart]
          \/ /\ step.do \in {"drain", "outputClears"} /\ proc' = [Rest EXCEPT !.hand = part.held]
             /\ part' = [part EXCEPT !.done = FALSE, !.held = IF step.do = "drain" THEN NoReading ELSE @] /\ UNCHANGED <<drv, given>>
          \/ /\ step.do = "output" /\ proc' = [Rest EXCEPT !.hand = part.held] /\ UNCHANGED <<part, drv, given>>
          \/ /\ step.do = "differ" /\ UNCHANGED <<part, given>>
             /\ drv' = [drv EXCEPT !.prev = proc.hand.n]
             /\ proc' = IF proc.hand.n = drv.prev THEN Over(1) ELSE Rest
          \/ /\ step.do = "strong" /\ UNCHANGED <<part, drv, given>> /\ (proc' = Rest \/ proc' = Over(1))
          \/ /\ step.do = "deliver" /\ proc' = Rest /\ UNCHANGED <<part, drv>>
             /\ given' = [seen |-> proc.hand, scale |-> drv, odr |-> proc.cfg.odr,
                          last |-> IF given.seen.n = 0 THEN given.last ELSE given.seen.n]
    /\ UNCHANGED <<fitted, budget>>

\* An access that fails, having reached the part or not.  The operation is left by
\* way of its last access if it is one that tidies up.
Accesses == {"write", "tryWrite", "writeOrLast", "read", "tryRead", "identify", "count", "ready", "overflow", "drain",
             "output", "outputClears"}
AccessFails ==
    /\ proc.op # "none" /\ proc.steps # <<>> /\ Step1.do \in Accesses
    /\ budget.faults > 0 /\ budget' = [budget EXCEPT !.faults = @ - 1]
    /\ \/ part' = part
       \/ Step1.do \in {"write", "tryWrite", "writeOrLast"} /\ part' = Landed(Step1)
       \/ Step1.do \in {"drain", "outputClears"} /\ part' = With(part, Flush)
    /\ proc' = [IF Step1.do \in {"tryWrite", "tryRead"} THEN Rest
                ELSE IF Step1.do = "writeOrLast" THEN [proc EXCEPT !.steps = <<Last(@)>>]
                ELSE IF Step1.tidy THEN [proc EXCEPT !.steps = <<Last(@)>>, !.rc = -1]
                ELSE Over(-1) EXCEPT !.hurt = TRUE]
    /\ UNCHANGED <<fitted, drv, given>>

Return ==
    /\ proc.op # "none" /\ proc.steps = <<>> /\ proc' = Over(proc.rc)
    /\ UNCHANGED <<fitted, part, drv, budget, given>>

\* The process is killed, or the machine stops, between two accesses; the part
\* stays as it is.
Kill ==
    /\ proc.state \notin {"down", "failed"} /\ budget.deaths > 0
    /\ budget' = [budget EXCEPT !.deaths = @ - 1] /\ proc' = Down /\ given' = NoneYet
    /\ UNCHANGED <<fitted, part, drv>>

\* The part measures.  A FIFO keeps the oldest, output registers the newest.
Measure ==
    /\ part.on /\ budget.conversions > 0 /\ budget' = [budget EXCEPT !.conversions = @ - 1]
    /\ LET reading == [n |-> Conversions - budget.conversions + 1, gyro |-> part.gyro, stim |-> part.stim,
                       accel |-> IF IsImu(fitted) THEN part.accel ELSE part.cycles,
                       rates |-> <<part.arate, part.grate>>]
       IN part' = [part EXCEPT !.done = TRUE, !.held = IF IsImu(fitted) /\ part.done THEN @ ELSE reading]
    /\ UNCHANGED <<fitted, drv, proc, given>>

DriversNext == Start \/ BeginJob \/ Choose \/ Access \/ AccessFails \/ Return \/ Kill \/ Measure
DriversSpec == DriversInit /\ [][DriversNext]_driverVars

(* ------------------------------- properties ------------------------------ *)

\* A reading is converted by the sensitivity of the range it was measured in,
\* and never taken under the self-test's force: through failed bring-ups and
\* recoveries, an old process's samples left in the FIFO, and a self-test that
\* leaves the part anyhow (drivers.h imu_ops_t, every init's order).  The RM3100,
\* whose gain goes with its cycle count, is left out once an access has failed:
\* rm_init keeps the gain after its last write, and one that landed and was
\* reported as failed starts the part with the gain reset() left.
ScaleMatches ==
    (given.seen.n # 0 /\ (IsImu(fitted) \/ (fitted = "rm3100" /\ ~proc.hurt))) =>
        given.seen.accel = given.scale.accel /\ given.seen.gyro = given.scale.gyro /\ ~given.seen.stim

\* The filter, the driver and the part agree about the sample rate of a reading
\* (drivers.h: "cannot disagree about the sample rate").
RateAgrees ==
    given.seen.n # 0 =>
        /\ given.seen.rates[1] = given.odr
        /\ IsImu(fitted) => given.seen.rates[2] = given.odr
        /\ given.scale.rate \in {0, given.odr}

\* No reading is handed on twice, nor after a newer one.
EachOnce == given.seen.n # 0 => given.seen.n > given.last

\* A probe that succeeds leaves the part's settings as it found them (drivers.h).
ProbeNeutral ==
    [][ (proc.op = "probe" /\ proc.steps = <<>> /\ proc.rc = 0) => Settings(part) = Settings(proc.found) ]_driverVars

\* A self-test that says it succeeded has turned the force off (drivers.h).
SelfTestOff ==
    [][ (proc.op = "selftest" /\ proc.steps = <<>> /\ proc.rc = 0) => ~part.stim ]_driverVars

\* Whatever state a killed process or a fault has left the part in, a start on a
\* bus that works brings it up.  Not so the ICM-42688-P: its probe reads WHO_AM_I
\* in the register bank it finds selected.
StartWorks == fitted # "icm42688p" /\ proc.state = "failed" => proc.hurt

\* A reading handed to the filter is what the part measured: its range, its rate,
\* new, and not made by the self-test.
ReadingsTrue == ScaleMatches /\ RateAgrees /\ EachOnce

\* A probe and a self-test leave no trace in the part.
LeavesNoTrace == ProbeNeutral /\ SelfTestOff

=============================================================================
