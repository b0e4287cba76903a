-------------------------------- MODULE Readers --------------------------------
(***************************************************************************)
(* The two reader threads of the daemon (src/src/imu.c), over their parts: *)
(* the inertial one (Acquisition) and the magnetometer's (MagReader).      *)
(* They share no state but the daemon's stop flag, which Daemon and        *)
(* ImuRing have, so a behaviour here follows one of the two.               *)
(***************************************************************************)
EXTENDS Acquisition

CONSTANTS Period, FallbackWait, PollEvery, StallAfter, SetPeriods,
          MagErrors, MagResets, MagFaults, MissedEdges, SlowReads

VARIABLES side, sensor, mag, spare, gap, quiet

Mag == INSTANCE MagReader

ASSUME MagAssumption == Mag!MagConstants

magVars == <<sensor, mag, spare, gap, quiet>>
allVars == <<side, vars, magVars>>

Imu(step) == side = "imu" /\ step /\ UNCHANGED <<side, magVars>>
MagOf(step) == side = "mag" /\ step /\ UNCHANGED <<side, vars>>

ImuReader == Imu(Read)
ImuPart == Imu(Tick \/ Die \/ Stopped)
MagThread == MagOf(Mag!Thread)
MagTick == MagOf(Mag!Tick)
MagPart == MagOf(Mag!PartTurns \/ Mag!BusDies \/ Mag!GaveUp)

\* One start of the thread that is not followed is enough.
ReadersInit ==
    /\ side \in {"imu", "mag"} /\ Init /\ Mag!Init
    /\ side = "imu" => ~mag.line /\ ~mag.coil /\ \A every \in SetPeriods : mag.every <= every
ReadersNext == ImuReader \/ ImuPart \/ MagThread \/ MagTick \/ MagPart

\* Time passes, and each thread runs whenever it can.
ReadersSpec == /\ ReadersInit /\ [][ReadersNext]_allVars
               /\ WF_allVars(ImuReader) /\ WF_allVars(MagThread) /\ WF_allVars(MagTick)

\* The magnetometer's field samples keep coming, and an outage is said.
FieldWatched == Mag!FieldWatched

\* A reader whose part answers nothing any more ends the daemon, after the third
\* failed reset in a row, instead of running on without samples.
ReadersGiveUp == (side = "imu" => DeadBusStops) /\ (side = "mag" => Mag!DeadMagStops)
=============================================================================
