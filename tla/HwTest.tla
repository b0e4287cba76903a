-------------------------------- MODULE HwTest --------------------------------
(***************************************************************************)
(* imud-imutest: one run of the driver validation program against a part   *)
(* (src/src/imutest.c imt_run_ops and its checks, imutest_open.c,          *)
(* imutest_main.c, imutest_gpio.c).                                        *)
(*                                                                         *)
(* The program takes a part through probe, reset and init, measures it,    *)
(* disturbs it on purpose (an overflow, other full scales, the self-test,  *)
(* degauss pulses, interrupt mode), restores it, asks an operator to move  *)
(* it, and turns a list of graded checks into a verdict and an exit code.  *)
(* Each check function is an action; what the part answers is chosen.      *)
(* Measured values are abstracted to the grade they lead to, and the check *)
(* list to what the verdict reads of it: which groups of required checks   *)
(* are clear, and whether anything failed or warned.                       *)
(***************************************************************************)
EXTENDS Naturals, FiniteSets

CONSTANTS
    Ranges,         \* full scales the sweep configures
    Base,           \* the configured one
    Orientations,   \* faces asked for (6)
    Turns           \* rotations asked for (3)

ASSUME BaseAssumption == Base \in Ranges /\ Orientations \in Nat \ {0} /\ Turns \in Nat \ {0}

Phases == {"passive", "faces", "gyro", "spin"}                   \* IMT_PHASE_ALL
ImuRequired == {"bringup", "rate", "sequence", "clock", "errors", "noise", "temp",
                "scale", "selftest", "frame", "turns"}           \* imt_required_imu
MagRequired == {"magbringup", "magrate", "magdata", "magspin"}   \* imt_required_mag

VARIABLES
    step,
    job,        \* what was asked for: phases, and the parts configured
    sigint,     \* g_abort
    aborted,    \* r->aborted
    imu,        \* what the part's registers hold: foreign, reset, partial or a range
    mag,        \* foreign, reset, polled, irq, fuse
    bridge,     \* the magnetometer's last degauss pulse
    image,      \* the post-init register image: none, taken
    line,       \* who holds the IMU's interrupt line: none, drain
    todo,       \* ranges, faces or turns still to do in a looping check
    seen,       \* faces or turns measured, and whether one was bad or unusable
    clear,      \* how many groups have all their required checks passed, warned or
                \* not obtainable on this part; each group is graded at most once
    failed,     \* n_fail > 0
    phasesRun,
    magOk,
    verdict,    \* the headline, and recommend_clear_experimental
    exit,
    misfired    \* history: the last pulse, if it was reported to have failed

part == <<imu, mag, bridge, image, misfired>>
report == <<clear, failed>>
outcome == <<verdict, exit>>
testVars == <<step, job, sigint, aborted, part, line, todo, seen, report, phasesRun,
          magOk, outcome>>

NoFace == [measured |-> 0, bad |-> FALSE, unusable |-> FALSE]
Unsaid == [text |-> "none", recommend |-> FALSE]

TestInit ==
    /\ step = "start"
    /\ job \in [phases : {{"passive"}, {"passive", "spin"}, Phases}, mag : BOOLEAN,
                sim : BOOLEAN, daemon : BOOLEAN]
    /\ sigint = FALSE /\ aborted = FALSE
    /\ imu = "foreign" /\ mag = "foreign" /\ bridge = "unknown"
    /\ image = "none" /\ line = "none"
    /\ todo = {} /\ seen = NoFace
    /\ clear = 0 /\ failed = FALSE
    /\ phasesRun = {} /\ magOk = FALSE
    /\ verdict = Unsaid /\ exit = "running" /\ misfired = "none"

(* ------------------------------- helpers -------------------------------- *)

Goto(here, there) == step = here /\ step' = there
Want(phase) == phase \in job.phases
Stopped == sigint \/ aborted

\* add_check and skip_check: the grades a group of required checks may get.  A
\* warning, and a skip that no part of this kind could avoid, leave the group
\* clear as a pass does.  "other" is a check outside the group failing while the
\* group is clear.
Grade(group, grades) ==
    \E g \in grades :
        /\ clear' = IF g \in {"pass", "other"} THEN clear + 1 ELSE clear
        /\ failed' = (failed \/ g \in {"fail", "other"})

\* A check no verdict requires.
Aside(grades) ==
    \E g \in grades : failed' = (failed \/ g = "fail") /\ UNCHANGED clear

Graded == {"pass", "fail"}
Any == Graded \union {"skip"}

\* --degauss: before the RESET, between the pulses, after the SET.
Recovering == {"coil", "between", "restored"}

\* In a run of checks SIGINT only sets a flag, which they look at where they loop.
\* One before imt_run_ops clears the flag ends the guided phases at their first
\* prompt, as the operator can (AbortAt).
Signal ==
    /\ ~sigint /\ sigint' = TRUE /\ step \notin {"start", "done"} \union Recovering
    /\ UNCHANGED <<step, job, aborted, part, line, todo, seen, report, phasesRun, magOk, outcome>>

\* No other signal has a handler, and --degauss is over before SIGINT has one: the
\* process ends between two accesses, and what it did to the part stays.
Die ==
    /\ step # "done" /\ step' = "done" /\ exit' = "killed"
    /\ UNCHANGED <<job, sigint, aborted, part, line, todo, seen, report, phasesRun, magOk, verdict>>

\* ops->degauss, ops->set_reset.  A write that fails may have reached the part.
Pulse(way, ok) ==
    /\ bridge' \in IF ok THEN {way} ELSE {bridge, way}
    /\ misfired' = IF ok THEN "none" ELSE way

(* -------------------------------- mutants -------------------------------- *)

\* Bugs the checks must notice: a last SET only after pulses that worked, a self-test
\* that does not put the configured range back, a sweep that no longer measures after a
\* signal and does not end, and a verdict that asks for the phases that were wanted and
\* not for those that ran.
DegaussEndIfDriven ==
    /\ step \in {"reversed", "undriven"} /\ step' = "magdrdy"
    /\ IF step = "undriven" THEN UNCHANGED <<bridge, misfired>>
                            ELSE \E ok \in BOOLEAN : Pulse("set", ok)
    /\ Aside({"fail"})
    /\ UNCHANGED <<job, sigint, aborted, imu, mag, image, line, todo, seen, phasesRun, magOk,
                   outcome>>
RestoreInitOnly(ok) == imu' = imu
SweepOverWhenDone == todo = {}
CompleteAsAsked == ~aborted /\ ~failed /\ job.phases = Phases /\ ~job.sim /\ ~job.daemon

(* ---------------------------- before the run ----------------------------- *)

\* main(), imt_run(): refused while the daemon answers (unless forced), or with
\* nowhere to write, no driver, a full scale the part has not, no bus.
Refused ==
    /\ Goto("start", "done") /\ exit' = "1"
    /\ UNCHANGED <<job, sigint, aborted, part, line, todo, seen, report, phasesRun, magOk, verdict>>

Begin ==
    /\ Goto("start", "probe")
    /\ UNCHANGED <<job, sigint, aborted, part, line, todo, seen, report, phasesRun, magOk, outcome>>

\* --degauss: probe, reset and init, and the field; what fails leaves at once.
RecoverBegin ==
    /\ step = "start" /\ job.mag
    /\ \/ step' = "done" /\ exit' = "1" /\ mag' \in {"foreign", "reset", "partial", "polled"}
       \/ step' = "coil" /\ mag' = "polled" /\ UNCHANGED exit
    /\ UNCHANGED <<job, sigint, aborted, imu, bridge, image, misfired, line, todo, seen, report,
                   phasesRun, magOk, verdict>>

\* A RESET, and the field, read or not; then a SET.  A pulse that fails leaves at once.
Recover(here, way, there) ==
    /\ step = here
    /\ \E ok \in BOOLEAN :
        /\ Pulse(way, ok)
        /\ step' = IF ok THEN there ELSE "done"
        /\ exit' = IF ok THEN exit ELSE "1"
    /\ UNCHANGED <<job, sigint, aborted, imu, mag, image, line, todo, seen, report, phasesRun,
                   magOk, verdict>>

RecoverReset == Recover("coil", "reset", "between")
RecoverSet == Recover("between", "set", "restored")

\* No field, a plausible one, or still none.
RecoverEnd ==
    /\ Goto("restored", "done") /\ exit' \in {"0", "1", "2"}
    /\ UNCHANGED <<job, sigint, aborted, part, line, todo, seen, report, phasesRun, magOk, verdict>>

(* ------------------------------- bring-up -------------------------------- *)

\* check_bringup, IMU part.  A part that does not answer, reset or configure
\* ends the run with its verdict.
BringUp ==
    /\ step = "probe"
    /\ \/ /\ step' = "verdict" /\ imu' \in {"foreign", "reset", "partial"} /\ Grade("bringup", {"fail"})
       \/ /\ step' = "integrity" /\ imu' = Base /\ Grade("bringup", {"pass", "fail"})
    /\ UNCHANGED <<job, sigint, aborted, mag, bridge, image, misfired, line, todo, seen,
                   phasesRun, magOk, outcome>>

\* IMT_BUS_INTEGRITY_READS reads of a register with a known value.
Integrity ==
    /\ Goto("integrity", "regdiff") /\ Aside(Graded)
    /\ UNCHANGED <<job, sigint, aborted, part, line, todo, seen, phasesRun, magOk, outcome>>

\* The registers before and after init, a scan for those that change unasked,
\* and a second init, which must change nothing.  The image is kept for the end
\* of the run even when the scan failed, and then with none of those left out.
RegDiff ==
    /\ Goto("regdiff", "mag")
    /\ \/ image' = "none" /\ imu' = imu /\ Aside({"skip"})
       \/ /\ image' = "taken"
          /\ \/ imu' = Base /\ Aside({"pass"})
             \/ imu' = "partial" /\ Aside({"fail"})
    /\ UNCHANGED <<job, sigint, aborted, mag, bridge, misfired, line, todo, seen, phasesRun,
                   magOk, outcome>>

\* check_bringup, magnetometer part: without one, or with one that does not
\* come up, the run goes on with mag_ok false.
BringUpMag ==
    /\ step = "mag"
    /\ \/ ~job.mag /\ step' = "open" /\ UNCHANGED <<mag, report>>
       \/ /\ job.mag /\ step' = "open" /\ mag' \in {"foreign", "partial"} /\ Grade("magbringup", {"fail"})
       \/ /\ job.mag /\ step' = "fuse" /\ mag' = "polled" /\ Grade("magbringup", {"pass", "other"})
    /\ UNCHANGED <<job, sigint, aborted, imu, bridge, image, misfired, line, todo, seen,
                   phasesRun, magOk, outcome>>

\* The AK8963's factory constants, read in a mode of their own.  The mode is put
\* back only when every step before worked, and those writes are not checked.
FuseRom ==
    /\ Goto("fuse", "magintegrity") /\ mag' \in {"polled", "fuse"} /\ Aside({"pass", "fail", "skip"})
    /\ UNCHANGED <<job, sigint, aborted, imu, bridge, image, misfired, line, todo, seen,
                   phasesRun, magOk, outcome>>

MagIntegrity ==
    /\ Goto("magintegrity", "open") /\ magOk' = TRUE /\ Aside(Any)
    /\ UNCHANGED <<job, sigint, aborted, part, line, todo, seen, phasesRun, outcome>>

\* drain_init: the drain takes the interrupt line if one is configured.
DrainInit ==
    /\ Goto("open", IF Want("passive") THEN "rate" ELSE "faces")
    /\ line' \in {"drain", "none"}
    /\ UNCHANGED <<job, sigint, aborted, part, todo, seen, report, phasesRun, magOk, outcome>>

(* ---------------------------- passive checks ----------------------------- *)

\* check_odr_seq_ts: the sample rate against the table.
Rate ==
    /\ Goto("rate", "sequence") /\ Grade("rate", Graded)
    /\ UNCHANGED <<job, sigint, aborted, part, line, todo, seen, phasesRun, magOk, outcome>>

\* ... seq, which never goes back or jumps without a reported loss ...
Sequence ==
    /\ Goto("sequence", "clock") /\ Grade("sequence", Graded)
    /\ UNCHANGED <<job, sigint, aborted, part, line, todo, seen, phasesRun, magOk, outcome>>

\* ... and the chip's clock: there or not, monotonic, its tick, against the host's.
Clock ==
    /\ Goto("clock", "errors") /\ Grade("clock", Graded \union {"other"})
    /\ UNCHANGED <<job, sigint, aborted, part, line, todo, seen, phasesRun, magOk, outcome>>

\* check_error_contract: an emptied FIFO is not an error, and nothing else is.
ErrorContract ==
    /\ Goto("errors", "fifo") /\ Grade("errors", {"pass", "fail"})
    /\ UNCHANGED <<job, sigint, aborted, part, line, todo, seen, phasesRun, magOk, outcome>>

\* check_fifo: the depth after three waits, then an overflow on purpose.
Fifo ==
    /\ Goto("fifo", "rest") /\ Aside(Any)
    /\ UNCHANGED <<job, sigint, aborted, part, line, todo, seen, phasesRun, magOk, outcome>>

\* check_rest: collected at rest, then the noise and gravity of it ...
Rest ==
    /\ Goto("rest", "temp") /\ Grade("noise", Any)
    /\ UNCHANGED <<job, sigint, aborted, part, line, todo, seen, phasesRun, magOk, outcome>>

\* ... and its temperature.
Temperature ==
    /\ Goto("temp", "direct") /\ Grade("temp", Any)
    /\ UNCHANGED <<job, sigint, aborted, part, line, todo, seen, phasesRun, magOk, outcome>>

\* check_direct_vs_fifo: the output registers against the FIFO.
DirectVsFifo ==
    /\ Goto("direct", "park") /\ Aside(Any)
    /\ UNCHANGED <<job, sigint, aborted, part, line, todo, seen, phasesRun, magOk, outcome>>

\* The drain lets go of the interrupt line while check_drdy counts its edges.
Park ==
    /\ Goto("park", "drdy") /\ line' = "none"
    /\ UNCHANGED <<job, sigint, aborted, part, todo, seen, report, phasesRun, magOk, outcome>>

\* check_drdy: edges while draining, then edges while not.
Drdy ==
    /\ Goto("drdy", "resume") /\ Aside(IF line = "none" THEN Any ELSE {"skip"})
    /\ UNCHANGED <<job, sigint, aborted, part, line, todo, seen, phasesRun, magOk, outcome>>

Resume ==
    /\ Goto("resume", IF magOk THEN "magpassive" ELSE "sweep")
    /\ line' \in {"drain", "none"}
    /\ UNCHANGED <<job, sigint, aborted, part, todo, seen, report, phasesRun, magOk, outcome>>

\* check_mag_passive: a SET pulse if there is a coil, then the rate.  A part in
\* another mode delivers nothing, which the rate check calls a failure.
MagRate ==
    /\ Goto("magpassive", "magdata")
    /\ \/ UNCHANGED <<bridge, misfired>> /\ Grade("magrate", IF mag = "polled" THEN Any \union {"other"} ELSE {"fail"})
       \/ Pulse("set", TRUE) /\ Grade("magrate", IF mag = "polled" THEN Any \union {"other"} ELSE {"fail"})
       \/ Pulse("set", FALSE) /\ Grade("magrate", {"fail", "other"})
    /\ UNCHANGED <<job, sigint, aborted, imu, mag, image, line, todo, seen, phasesRun, magOk,
                   outcome>>

\* ... and what it delivered: errors, field, noise, stamps, framing.
MagData ==
    /\ Goto("magdata", "degauss")
    /\ Grade("magdata", IF mag = "polled" THEN Graded \union {"other"} ELSE {"skip"})
    /\ UNCHANGED <<job, sigint, aborted, part, line, todo, seen, phasesRun, magOk, outcome>>

\* check_mag_degauss: nothing to do without a coil that goes both ways.  Else a SET ...
DegaussSet ==
    /\ step = "degauss"
    /\ \/ step' = "magdrdy" /\ Aside({"skip"}) /\ UNCHANGED <<bridge, misfired>>
       \/ \E ok \in BOOLEAN : /\ Pulse("set", ok) /\ UNCHANGED report
                             /\ step' = IF ok THEN "unset" ELSE "undriven"
    /\ UNCHANGED <<job, sigint, aborted, imu, mag, image, line, todo, seen, phasesRun, magOk,
                   outcome>>

\* ... a RESET, unless that failed, with measurements behind each ...
DegaussReset ==
    /\ step = "unset"
    /\ \E ok \in BOOLEAN : Pulse("reset", ok) /\ step' = IF ok THEN "reversed" ELSE "undriven"
    /\ UNCHANGED <<job, sigint, aborted, imu, mag, image, line, todo, seen, report, phasesRun,
                   magOk, outcome>>

\* ... and a SET however this went, whose result is not looked at; then the grade.
DegaussEnd ==
    /\ step \in {"reversed", "undriven"} /\ step' = "magdrdy"
    /\ \E ok \in BOOLEAN : Pulse("set", ok)
    /\ Aside(IF step = "reversed" THEN Any ELSE {"fail"})
    /\ UNCHANGED <<job, sigint, aborted, imu, mag, image, line, todo, seen, phasesRun, magOk,
                   outcome>>

\* check_mag_drdy: init in interrupt mode.  Without an interrupt it is skipped,
\* and when it fails there is nothing to measure.
MagIrq ==
    /\ step = "magdrdy"
    /\ \/ step' = "sweep" /\ mag' = mag
       \/ step' = "magedges" /\ mag' = "irq"
       \/ step' = "magpolled" /\ mag' = "partial"
    /\ UNCHANGED <<job, sigint, aborted, imu, bridge, image, misfired, line, todo, seen, report,
                   phasesRun, magOk, outcome>>

\* measure_mag_drdy: edges of its line, read behind each one.
MagEdges ==
    /\ Goto("magedges", "magpolled") /\ Aside(Any)
    /\ UNCHANGED <<job, sigint, aborted, part, line, todo, seen, phasesRun, magOk, outcome>>

\* mag_restore_polled, on every way out of interrupt mode.
MagPolled ==
    /\ Goto("magpolled", "sweep")
    /\ \/ mag' = "polled" /\ UNCHANGED report
       \/ mag' = mag /\ Aside({"fail"})
    /\ UNCHANGED <<job, sigint, aborted, imu, bridge, image, misfired, line, todo, seen, phasesRun,
                   magOk, outcome>>

\* check_fs_sweep: reset and init for every range of the part.
SweepBegin ==
    /\ step = "sweep"
    /\ \/ step' = "selftest" /\ todo' = {} /\ Grade("scale", {"skip"})
       \/ step' = "ranging" /\ todo' = Ranges /\ UNCHANGED report
    /\ UNCHANGED <<job, sigint, aborted, part, line, seen, phasesRun, magOk, outcome>>

SweepOver == todo = {} \/ sigint

SweepRange ==
    /\ Goto("ranging", "ranging") /\ ~sigint
    /\ \E r \in todo, ok \in BOOLEAN :
        /\ imu' = IF ok THEN r ELSE "partial"
        /\ todo' = todo \ {r}
        /\ Aside(IF ok THEN Graded ELSE {"pass", "fail"})   \* a gyro range only warns
    /\ UNCHANGED <<job, sigint, aborted, mag, bridge, image, misfired, line, seen, phasesRun, magOk,
                   outcome>>

\* reset() and init() with the run's own configuration.
Restored(ok) == imu' = IF ok THEN Base ELSE "partial"

SweepEnd ==
    /\ Goto("ranging", "selftest") /\ SweepOver /\ todo' = {}
    /\ \E ok \in BOOLEAN : Restored(ok) /\ Grade("scale", IF ok THEN {"pass"} ELSE {"other"})
    /\ UNCHANGED <<job, sigint, aborted, mag, bridge, image, misfired, line, seen, phasesRun, magOk,
                   outcome>>

\* check_self_test: the driver's hook rewrites the configuration, so the part is
\* configured again after it, whatever it said.  A part without the hook is
\* clear.  Out of its window is a failure only if the platform was still.
SelfTest ==
    /\ Goto("selftest", "faces") /\ phasesRun' = phasesRun \union {"passive"}
    /\ \/ imu' = imu /\ Grade("selftest", {"pass"})
       \/ \E ok \in BOOLEAN : Restored(ok) /\ Grade("selftest", IF ok THEN Graded ELSE {"fail", "other"})
    /\ UNCHANGED <<job, sigint, aborted, mag, bridge, image, misfired, line, todo, seen,
                   magOk, outcome>>

(* ---------------------------- guided phases ------------------------------ *)

\* imt_run_ops: the simulator is not moved, and a phase not asked for, or asked
\* for after an abort, is passed over.
PassOver(here, phase, there) ==
    /\ Goto(here, there) /\ (job.sim \/ ~Want(phase) \/ Stopped)
    /\ UNCHANGED <<job, sigint, aborted, part, line, todo, seen, report, phasesRun, magOk, outcome>>

Enter(here, phase, there, count) ==
    /\ Goto(here, there) /\ ~job.sim /\ Want(phase) /\ ~Stopped
    /\ phasesRun' = phasesRun \union {phase}
    /\ todo' = 1..count /\ seen' = NoFace
    /\ UNCHANGED <<job, sigint, aborted, part, line, report, magOk, outcome>>

\* The operator ends the run at a prompt.
AbortAt(here, there) ==
    /\ Goto(here, there) /\ todo # {} /\ ~sigint
    /\ aborted' = TRUE /\ todo' = {} /\ seen' = NoFace
    /\ UNCHANGED <<job, sigint, part, line, report, phasesRun, magOk, outcome>>

\* One orientation: passed over, too few samples, out of scale, right or wrong.
Face ==
    /\ Goto("facing", "facing") /\ ~sigint
    /\ \E f \in todo : todo' = todo \ {f}
    /\ \/ seen' = seen /\ Aside({"skip"})
       \/ seen' = [seen EXCEPT !.measured = @ + 1, !.unusable = TRUE] /\ Aside({"fail"})
       \/ seen' = [seen EXCEPT !.measured = @ + 1] /\ Aside({"pass"})
       \/ seen' = [seen EXCEPT !.measured = @ + 1, !.bad = TRUE] /\ Aside({"fail"})
    /\ UNCHANGED <<job, sigint, aborted, part, line, phasesRun, magOk, outcome>>

FacesDone ==
    /\ Goto("facing", "gyro") /\ (todo = {} \/ sigint) /\ todo' = {}
    /\ IF seen.measured < Orientations \/ seen.unusable
       THEN Grade("frame", {"skip"})
       ELSE Grade("frame", IF seen.bad THEN {"fail"} ELSE {"pass"})
    /\ seen' = NoFace
    /\ UNCHANGED <<job, sigint, aborted, part, line, phasesRun, magOk, outcome>>

\* gyro_bias: the resting mean of each axis, unless the rest check gave it.
GyroBias ==
    /\ Goto("bias", "turning")
    /\ UNCHANGED <<job, sigint, aborted, part, line, todo, seen, report, phasesRun, magOk, outcome>>

\* One rotation: passed over, too few samples, the right way round, or not.
Turn ==
    /\ Goto("turning", "turning") /\ ~sigint
    /\ \E t \in todo : todo' = todo \ {t}
    /\ \/ seen' = seen /\ Aside({"skip"})
       \/ seen' = [seen EXCEPT !.unusable = TRUE] /\ Aside({"skip"})
       \/ seen' = [seen EXCEPT !.measured = @ + 1] /\ Aside(Graded)
       \/ seen' = [seen EXCEPT !.bad = TRUE] /\ Aside({"fail"})
    /\ UNCHANGED <<job, sigint, aborted, part, line, phasesRun, magOk, outcome>>

\* Any turn not passed over also tells whether the FIFO carried gravity and the
\* gyro's registers moved.
TurnsDone ==
    /\ Goto("turning", "spin") /\ (todo = {} \/ sigint) /\ todo' = {}
    /\ Grade("turns", CASE seen.measured = Turns -> {"pass", "other"}
                         [] seen = NoFace -> {"skip"}
                         [] OTHER -> {"skip", "fail"})
    /\ seen' = NoFace
    /\ UNCHANGED <<job, sigint, aborted, part, line, phasesRun, magOk, outcome>>

\* phase_spin, which needs the magnetometer: without it the phase has not run.
SpinWithout ==
    /\ Goto("spin", "after") /\ ~job.sim /\ Want("spin") /\ ~Stopped /\ ~magOk
    /\ UNCHANGED <<job, sigint, aborted, part, line, todo, seen, report, phasesRun, magOk, outcome>>

\* Turned about the vertical, until every sector is covered, or time is up.
Spin ==
    /\ Goto("spinning", "spun") /\ todo' = {}
    /\ UNCHANGED <<job, sigint, aborted, part, line, seen, report, phasesRun, magOk, outcome>>

\* Its magnitude, coverage and agreement with the gyro; nothing to grade in a
\* spin passed over or with too few samples.
SpinDone ==
    /\ Goto("spun", "after")
    /\ Grade("magspin", IF mag = "polled" THEN Any \union {"other"} ELSE {"skip"})
    /\ UNCHANGED <<job, sigint, aborted, part, line, todo, seen, phasesRun, magOk, outcome>>

(* ------------------------------- the end --------------------------------- *)

\* imu.regs.after_run: the registers against the image taken after init.  Some may
\* have changed by themselves, unseen by the scan.
RegsAfterRun ==
    /\ Goto("after", "close")
    /\ Aside(IF image = "none" \/ job.sim THEN {"skip"} ELSE IF imu # Base THEN {"skip", "fail"} ELSE Any)
    /\ UNCHANGED <<job, sigint, aborted, part, line, todo, seen, phasesRun, magOk, outcome>>

Close ==
    /\ Goto("close", "verdict") /\ line' = "none" /\ aborted' = (aborted \/ sigint)
    /\ UNCHANGED <<job, sigint, part, todo, seen, report, phasesRun, magOk, outcome>>

\* imt_decide_verdict.
Complete ==
    /\ ~aborted /\ ~failed /\ job.phases = Phases /\ phasesRun = Phases
    /\ ~job.sim /\ ~job.daemon

Required == ImuRequired \union (IF job.mag THEN MagRequired ELSE {})
Blocked == Complete /\ clear < Cardinality(Required)

Verdict ==
    /\ Goto("verdict", "write")
    /\ verdict' =
        [recommend |-> Complete /\ ~Blocked,
         text |-> CASE job.sim -> "simulated"
                    [] aborted -> "aborted"
                    [] failed -> "failed"
                    [] job.daemon -> "daemon was running"
                    [] Blocked -> "did not run"
                    [] job.phases # Phases -> "some phases"
                    [] OTHER -> "all required checks passed"]
    /\ UNCHANGED <<job, sigint, aborted, part, line, todo, seen, report, phasesRun, magOk, exit>>

\* imt_exit_code (3 for warnings alone is 0 here); a report that cannot be written never ends with 0.
ExitCode == IF aborted THEN "130" ELSE IF failed THEN "2" ELSE "0"

Write ==
    /\ Goto("write", "done")
    /\ exit' \in {ExitCode, IF ExitCode = "0" THEN "1" ELSE ExitCode}
    /\ UNCHANGED <<job, sigint, aborted, part, line, todo, seen, report, phasesRun, magOk, verdict>>

(* ----------------------------- specification ----------------------------- *)

EnterFaces == Enter("faces", "faces", "facing", Orientations)
EnterTurns == Enter("gyro", "gyro", "bias", Turns)
EnterSpin == magOk /\ Enter("spin", "spin", "spinning", 1)
PassFaces == PassOver("faces", "faces", "gyro")
PassTurns == PassOver("gyro", "gyro", "spin")
PassSpin == PassOver("spin", "spin", "after")

Program ==
    \/ Refused \/ Begin \/ RecoverBegin \/ RecoverReset \/ RecoverSet \/ RecoverEnd
    \/ BringUp \/ Integrity \/ RegDiff \/ BringUpMag \/ FuseRom \/ MagIntegrity \/ DrainInit
    \/ Rate \/ Sequence \/ Clock \/ ErrorContract \/ Fifo \/ Rest \/ Temperature \/ DirectVsFifo
    \/ Park \/ Drdy \/ Resume
    \/ MagRate \/ MagData \/ DegaussSet \/ DegaussReset \/ DegaussEnd \/ MagIrq \/ MagEdges \/ MagPolled
    \/ SweepBegin \/ SweepRange \/ SweepEnd \/ SelfTest
    \/ EnterFaces \/ EnterTurns \/ EnterSpin \/ PassFaces \/ PassTurns \/ PassSpin
    \/ FacesDone \/ GyroBias \/ TurnsDone \/ SpinWithout \/ SpinDone
    \/ RegsAfterRun \/ Close \/ Verdict \/ Write

Operator ==
    \/ Face \/ Turn \/ Spin
    \/ AbortAt("facing", "gyro") \/ AbortAt("turning", "spin") \/ AbortAt("spinning", "after")

TestNext == Program \/ Operator \/ Signal \/ Die

TestSpec == TestInit /\ [][TestNext]_testVars /\ WF_testVars(Program)

(* ------------------------------ properties ------------------------------- *)

Measuring == {"rate", "sequence", "clock", "errors", "fifo", "rest", "temp", "direct", "drdy", "sweep", "selftest",
              "facing", "turning", "spinning", "after"}

\* Every measurement is made on the part as it was configured, or the report
\* already says that something failed: no disturbance of one check (a sweep, a
\* self-test, interrupt mode) is still there for a later one, also when a
\* signal arrives in the middle of it.
MeasuredAsConfigured ==
    /\ step \in Measuring /\ ~failed => imu = Base
    /\ step \in {"magpassive", "spinning", "spun"} /\ ~failed => mag \in {"polled", "fuse"}

\* The line is free when its edges are counted (a second request would be busy
\* and the check skipped) and given back before the report.
LineFree == step \in {"drdy", "verdict", "write"} => line = "none"

\* A recommendation comes from a run that did it all, on a part that was left
\* configured: no abort, no failure, no phase passed over, no required check
\* missing.
RecommendationEarned ==
    verdict.recommend =>
        /\ phasesRun = Phases /\ clear = Cardinality(Required) /\ ~failed /\ ~aborted
        /\ imu = Base /\ mag \in {"polled", "fuse", "foreign"}

\* The magnetometer is left with its field the right way round: in a run of checks
\* any RESET, also one that was reported to have failed and reached the part, is
\* followed by a SET.  It stays reversed only where that SET failed, where the
\* process was killed between the two, and where --degauss says, with its exit
\* code, that its RESET failed.
LeftSet ==
    bridge = "reset" => \/ step \in {"between", "reversed", "undriven"}
                        \/ exit = "killed"
                        \/ misfired = "set"
                        \/ misfired = "reset" /\ exit = "1"

\* A run nobody has to answer ends, whatever the part answers.
PassiveRunEnds == (job.phases = {"passive"}) => <>(step = "done")

\* All three: every check finds part, line and bridge as its predecessors found
\* them, and the run leaves them so.
LeftAsFound == MeasuredAsConfigured /\ LineFree /\ LeftSet

=============================================================================
