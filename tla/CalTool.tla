------------------------------- MODULE CalTool -------------------------------
(***************************************************************************)
(* imud-cal (cal_main.c) and the file it keeps (cal.c, fileio.h,           *)
(* cal_capture.c).                                                         *)
(*                                                                         *)
(* A run of the tool loads cal.json, measures one section of it - on the   *)
(* sensors (mag, gyro, accel) or from a capture (characterize, fit-temp) - *)
(* asks the operator and writes the whole file back; fit-ra only reports.  *)
(* The file is read again by the next run and by the daemon's startup, so  *)
(* the model keeps what the directory and the inodes hold in memory, what  *)
(* of it has reached the disk, and lets a run be killed and the power cut  *)
(* anywhere.                                                               *)
(*                                                                         *)
(* A section is named by the run that measured it.  What a fit computes is *)
(* abstracted to whether its numbers are usable.                           *)
(***************************************************************************)
EXTENDS MagKeep, FiniteSets

CONSTANTS
  Tools,      \* processes that may run imud-cal
  Together,   \* whether two of them may run at a time
  Runs,       \* runs of the tool
  Cuts,       \* power cuts
  Swing,      \* samples of a swing
  Faces       \* positions of the accelerometer (6)

ASSUME CalAssumption == Together \in BOOLEAN /\ Runs \in Nat /\ Cuts \in Nat
                        /\ Swing \in Nat /\ Faces \in Nat \ {0}

VARIABLES
  ino,    \* the inodes: what a reader sees (text), what is on the disk (hard)
  dir,    \* the inode cal.json and cal.json.tmp name
  may,    \* the inodes the disk may hold under the name of cal.json
  proc,   \* the processes
  runs, cuts

calVars == <<ino, dir, may, proc, runs, cuts>>

Sections == {"mag", "gyro", "accel", "noise", "gyro_temp"}
Offline  == {"characterize", "fit-temp", "fit-ra"}
Modes    == {"mag", "gyro", "accel"} \cup Offline

SectionOf(m) == CASE m = "characterize" -> "noise"
                  [] m = "fit-temp"     -> "gyro_temp"
                  [] OTHER              -> m

\* What a section holds: the number of the run that measured it, or
Absent  == 0
Broken  == -1       \* a number that is not finite, or overflows when applied
Mixed   == -2       \* some axes of a new analysis, some of the old
Earlier == Runs + 1 \* the calibration that was there before the first run

Inodes  == 0 .. Runs
NoInode == Runs + 1

Empty == [s \in Sections |-> Absent]
Whole(sec) == [whole |-> TRUE, sec |-> sec]
Torn  == [whole |-> FALSE, sec |-> Empty]

\* What fopen(cal_file) reads; no file is an empty calibration.
CalText == IF dir.cal = NoInode THEN Whole(Empty) ELSE ino[dir.cal].text

\* Every number that would be loaded or written is finite and stays so when
\* it is applied to a sample.
Applicable(sec) == \A s \in Sections : sec[s] # Broken

\* cal_load succeeds: the object closed, every array with its numbers.
Loads(text) == text.whole /\ Applicable(text.sec)

Idle == [pc |-> "off", mode |-> "mag", run |-> 0, settle |-> FALSE, cal |-> Empty,
         found |-> Torn, bus |-> {}, stop |-> FALSE, keep |-> KeepInit,
         done |-> 0, rough |-> FALSE, own |-> Absent, said |-> FALSE,
         fd |-> NoInode, ok |-> FALSE, code |-> 0, saved |-> FALSE]

CalInit ==
  /\ \E text \in {Whole(Empty), Whole([s \in Sections |-> Earlier]), Torn,
                  Whole([Empty EXCEPT !["gyro"] = Broken])} :
       ino = [i \in Inodes |-> [text |-> text, hard |-> text]]
  /\ \E c \in {0, NoInode} : dir = [cal |-> c, tmp |-> NoInode] /\ may = {c}
  /\ proc = [t \in Tools |-> Idle]
  /\ runs = 0 /\ cuts = 0

P(t, pc) == proc[t].pc = pc

Busy(t) == proc[t].pc \notin {"off", "done"}

Disk == <<ino, dir, may, cuts>>

Becomes(t, p) == proc' = [proc EXCEPT ![t] = p]

\* The process goes on in p, and the disk stays as it is.
To(t, p) == Becomes(t, p) /\ UNCHANGED <<Disk, runs>>

Exit(p, code) == [p EXCEPT !.pc = "done", !.code = code]

\* A mode gives up: return -1, with the buses it still holds closed.
Fail(p) == Exit([p EXCEPT !.bus = {}], 1)

\* A mode ends with 0 and its buses closed; main goes on to the write.
Over(p) == [p EXCEPT !.pc = "end", !.bus = {}]

(***************************************************************************)
(* main: the configuration, the permission to write, cal_load.             *)
(***************************************************************************)
StartRun(t, m) ==
  /\ runs < Runs
  /\ ~Busy(t) /\ (Together \/ \A u \in Tools : ~Busy(u))
  /\ runs' = runs + 1
  /\ \E conf \in {"read", "missing", "unparsable"}, can, settle \in BOOLEAN :
       LET p == [Idle EXCEPT !.mode = m, !.run = runs + 1, !.settle = settle,
                             !.found = CalText, !.pc = "load"]
           refused == \/ conf = "unparsable"
                      \/ conf = "missing" /\ m \notin Offline
                      \/ m # "fit-ra" /\ ~can
       IN  Becomes(t, IF refused THEN Exit(p, 1) ELSE p)
  /\ UNCHANGED Disk

CalLoad(t) ==
  LET p == proc[t]
      next == CASE p.mode \in Offline -> "capture"
                [] p.mode = "mag"     -> "imu"
                [] OTHER              -> "open"
  IN  /\ P(t, "load")
      /\ To(t, IF Loads(CalText)
                 THEN [p EXCEPT !.cal = CalText.sec, !.pc = next]
                 ELSE Exit(p, 1))

(***************************************************************************)
(* The sensor modes: the buses, the settling time.                         *)
(***************************************************************************)
\* do_mag's start_imu: the accelerometer is wanted, not needed.
StartImu(t) ==
  /\ P(t, "imu")
  /\ \E b \in {{}, {"imu"}} : To(t, [proc[t] EXCEPT !.bus = b, !.pc = "open"])

\* The mode's own sensor: driver and full scale known, bus open, and the chip
\* brought up.  The simulated sensor goes on without a bus.
Open(t) ==
  LET p == proc[t]
      own == IF p.mode = "mag" THEN "mag" ELSE "imu"
  IN  /\ P(t, "open")
      /\ \/ To(t, Fail(p))
         \/ \E b \in {{}, {own}} :
              To(t, [p EXCEPT !.bus = p.bus \cup b,
                              !.pc = IF p.settle THEN "settle" ELSE "measure"])

\* The samples of the settling time are read and dropped; Ctrl-C ends the
\* mode.  No handler is installed before this, so an earlier Ctrl-C kills.
Settle(t) ==
  /\ P(t, "settle")
  /\ To(t, IF proc[t].stop THEN Over(proc[t]) ELSE [proc[t] EXCEPT !.pc = "measure"])

\* on_sigint: the handler only sets g_stop, and only while one is installed.
CtrlC(t) ==
  /\ proc[t].pc \in {"settle", "measure", "collect"} /\ ~proc[t].stop
  /\ To(t, [proc[t] EXCEPT !.stop = TRUE])

(***************************************************************************)
(* imud-cal mag: one sample of the swing, its end, the fit.                *)
(***************************************************************************)
MagSample(t) ==
  /\ P(t, "measure") /\ proc[t].mode = "mag"
  /\ ~proc[t].stop /\ proc[t].keep.seen < Swing
  /\ To(t, [proc[t] EXCEPT !.keep = Keep(proc[t].keep)])

\* cal_mag_fit: the values it may come to, none when it fails.  Five samples
\* are needed, and a circle or a sphere through them.
MagFits(p) == IF Len(p.keep.s) < 5 THEN {Absent} ELSE {Absent, p.run, Broken}

\* Ctrl-C or a read error ends the swing; the accelerometer's bus is closed
\* and the fit made of what was kept.
MagFit(t) ==
  LET p == [proc[t] EXCEPT !.bus = @ \ {"imu"}]
  IN  /\ P(t, "measure") /\ p.mode = "mag"
      /\ \E v \in MagFits(p) :
           To(t, IF v = Absent THEN Fail(p) ELSE [p EXCEPT !.own = v, !.pc = "ask"])

(***************************************************************************)
(* imu_collect, as the gyro mode (two halves of the window) and the accel  *)
(* mode (one window at each position) use it: it ends early at Ctrl-C, and *)
(* enough samples may have come by then.                                   *)
(***************************************************************************)
Parts(m) == IF m = "gyro" THEN 2 ELSE Faces

\* The operator steadies the sensor in the next position and presses Enter;
\* the gyro mode goes straight to its halves.  The loop over the positions
\* ends at Ctrl-C.
NextPart(t) ==
  LET p == proc[t]
  IN  /\ P(t, "measure") /\ p.mode \in {"gyro", "accel"}
      /\ To(t, IF p.done < Parts(p.mode) /\ (p.mode = "accel" => ~p.stop)
                 THEN [p EXCEPT !.pc = "collect"]
                 ELSE [p EXCEPT !.pc = "fit"])

\* A position with too few samples aborts at once, a half is counted first.
Collect(t) ==
  LET p == proc[t]
  IN  /\ P(t, "collect")
      /\ \/ ~p.stop /\ To(t, [p EXCEPT !.done = @ + 1, !.pc = "measure"])
         \/ p.mode = "accel" /\ To(t, Fail(p))
         \/ p.mode = "gyro"
            /\ To(t, [p EXCEPT !.done = @ + 1, !.rough = TRUE, !.pc = "measure"])

\* Ctrl-C while the window is open, after enough samples of it.
CollectCut(t) ==
  /\ P(t, "collect") /\ ~proc[t].stop
  /\ To(t, [proc[t] EXCEPT !.done = @ + 1, !.stop = TRUE, !.pc = "measure"])

\* The mean of the halves needs five samples in each.
GyroFit(t) ==
  LET p == proc[t]
  IN  /\ P(t, "fit") /\ p.mode = "gyro"
      /\ IF p.rough THEN To(t, Fail(p))
                    ELSE \E v \in {p.run, Broken} : To(t, [p EXCEPT !.own = v, !.pc = "ask"])

\* A slip: the positions measured before Ctrl-C are fitted.
AccelFitAnyway(t) ==
  LET p == proc[t]
  IN  /\ P(t, "fit") /\ p.mode = "accel"
      /\ To(t, Fail(p)) \/ To(t, [p EXCEPT !.own = p.run, !.bus = {}, !.pc = "ask"])

\* After Ctrl-C there is no fit.  Otherwise the bus is closed first, and the
\* readings must have the geometry of the six positions.
AccelFit(t) ==
  LET p == proc[t]
  IN  /\ P(t, "fit") /\ p.mode = "accel"
      /\ IF p.stop THEN To(t, Over(p))
         ELSE \E v \in {Absent, p.run, Broken} :
                To(t, IF v = Absent THEN Fail(p)
                      ELSE [p EXCEPT !.own = v, !.bus = {}, !.pc = "ask"])

\* "[y/N]": anything else, and the end of the input, is no.
Answer(t) ==
  LET p == proc[t]
  IN  /\ P(t, "ask")
      /\ \E yes \in BOOLEAN :
           To(t, Over(IF yes THEN [p EXCEPT !.said = TRUE, !.cal[p.mode] = p.own]
                             ELSE p))

(***************************************************************************)
(* The modes that read a capture.                                          *)
(***************************************************************************)
\* load_capture: not a capture, a record with a bad checksum, no memory, or
\* fewer than sixteen records or none past the settling time.
ReadCapture(t) ==
  /\ P(t, "capture") /\ proc[t].mode # "fit-ra"
  /\ To(t, Fail(proc[t])) \/ To(t, [proc[t] EXCEPT !.pc = "analyse"])

\* A slip: a record too short ends the mode like one that was analysed.
CharacterizeUnchecked(t) ==
  LET p == proc[t]
  IN  /\ P(t, "analyse") /\ p.mode = "characterize"
      /\ \E v \in {p.run, Mixed} : To(t, Over([p EXCEPT !.cal["noise"] = v]))

\* The analysis goes axis by axis into the calibration itself: one that fails
\* half-way leaves the section mixed, and main must not write it.
Characterize(t) ==
  LET p == proc[t]
      noise(v) == [p EXCEPT !.cal["noise"] = v]
  IN  /\ P(t, "analyse") /\ p.mode = "characterize"
      /\ \/ To(t, Fail(IF p.cal["noise"] = Absent THEN p ELSE noise(Mixed)))
         \/ \E v \in {p.run, Broken} :
              To(t, Over([noise(v) EXCEPT !.own = v, !.said = TRUE]))

\* One temperature span for the three axes: all are fitted or none.
FitTemp(t) ==
  LET p == proc[t]
  IN  /\ P(t, "analyse") /\ p.mode = "fit-temp"
      /\ \/ To(t, Fail(p))
         \/ \E v \in {p.run, Broken} :
              To(t, Over([p EXCEPT !.cal["gyro_temp"] = v, !.own = v, !.said = TRUE]))

\* The capture is replayed through the filter; no alignment, no field or too
\* few updates is an error, and what is found goes to the operator only.
FitRa(t) ==
  /\ P(t, "capture") /\ proc[t].mode = "fit-ra"
  /\ To(t, Fail(proc[t])) \/ To(t, Over(proc[t]))

(***************************************************************************)
(* The end of main, and cal_write.                                         *)
(***************************************************************************)
Finish(t) ==
  LET p == proc[t]
  IN  /\ P(t, "end")
      /\ To(t, IF p.mode # "fit-ra" /\ \E s \in Sections : p.cal[s] # Absent
                 THEN [p EXCEPT !.pc = "write"]
                 ELSE Exit(p, 0))

\* The gate on the numbers, then fcreate of the file beside cal.json: the one
\* a dead run left there is truncated, otherwise it is a new inode.
Create(t) ==
  LET p == proc[t]
      i == IF dir.tmp = NoInode THEN p.run ELSE dir.tmp
  IN  /\ P(t, "write")
      /\ \/ To(t, Exit(p, 1))
         \/ /\ Applicable(p.cal)
            /\ ino' = [ino EXCEPT ![i] = [text |-> Torn, hard |-> Torn]]
            /\ dir' = [dir EXCEPT !.tmp = i]
            /\ Becomes(t, [p EXCEPT !.fd = i, !.pc = "flush"])
            /\ UNCHANGED <<may, runs, cuts>>

\* fflush, and the error any fprintf before it latched: the disk may be full.
Flush(t) ==
  LET p == proc[t]
  IN  /\ P(t, "flush")
      /\ \E ok \in BOOLEAN :
           /\ ino' = [ino EXCEPT ![p.fd].text = IF ok THEN Whole(p.cal) ELSE Torn]
           /\ Becomes(t, [p EXCEPT !.ok = ok, !.pc = "sync"])
      /\ UNCHANGED <<dir, may, runs, cuts>>

\* A slip: the file is renamed although it was not synced.
SyncSkipped(t) ==
  LET p == proc[t]
  IN  /\ P(t, "sync")
      /\ Becomes(t, [p EXCEPT !.pc = "rename"])
      /\ UNCHANGED <<ino, dir, may, runs, cuts>>

\* fsync, only of what was flushed, and fclose.
Sync(t) ==
  LET p == proc[t]
  IN  /\ P(t, "sync")
      /\ \E synced, closed \in BOOLEAN :
           LET hardened == p.ok /\ synced
           IN  /\ ino' = IF hardened THEN [ino EXCEPT ![p.fd].hard = ino[p.fd].text]
                                     ELSE ino
               /\ Becomes(t, [p EXCEPT !.ok = hardened /\ closed, !.pc = "rename"])
      /\ UNCHANGED <<dir, may, runs, cuts>>

\* rename over cal.json; a write that failed anywhere takes its file away.
Rename(t) ==
  LET p == proc[t]
  IN  /\ P(t, "rename")
      /\ \/ /\ p.ok /\ dir.tmp # NoInode
            /\ dir' = [cal |-> dir.tmp, tmp |-> NoInode]
            /\ may' = may \cup {dir.tmp}
            /\ Becomes(t, [p EXCEPT !.pc = "dirsync"])
         \/ /\ dir' = [dir EXCEPT !.tmp = NoInode]
            /\ Becomes(t, Exit(p, 1))
            /\ UNCHANGED may
      /\ UNCHANGED <<ino, runs, cuts>>

\* The directory is synced if the filesystem lets it be.
SyncDir(t) ==
  /\ P(t, "dirsync")
  /\ \E m \in {may, {dir.cal}} : may' = m
  /\ Becomes(t, Exit([proc[t] EXCEPT !.saved = TRUE], 0))
  /\ UNCHANGED <<ino, dir, runs, cuts>>

(***************************************************************************)
(* What may happen to the tool: killed (Ctrl-C without the handler), or    *)
(* the power cut, which leaves of every inode what had reached the disk    *)
(* and under the name of cal.json any inode the rename had moved since the *)
(* directory was last synced.                                              *)
(***************************************************************************)
Kill(t) == Busy(t) /\ To(t, Idle)

PowerCut ==
  /\ cuts < Cuts /\ \E t \in Tools : Busy(t)
  /\ cuts' = cuts + 1
  /\ ino' = [i \in Inodes |-> [text |-> ino[i].hard, hard |-> ino[i].hard]]
  /\ \E c \in may : \E left \in {NoInode, dir.tmp} \cup (may \ {c}) :
       dir' = [cal |-> c, tmp |-> left] /\ may' = {c}
  /\ proc' = [t \in Tools |-> Idle]
  /\ UNCHANGED runs

CalNext ==
  \/ \E t \in Tools :
       \/ \E m \in Modes : StartRun(t, m)
       \/ CalLoad(t) \/ StartImu(t) \/ Open(t) \/ Settle(t) \/ CtrlC(t)
       \/ MagSample(t) \/ MagFit(t) \/ NextPart(t) \/ Collect(t) \/ CollectCut(t)
       \/ GyroFit(t) \/ AccelFit(t) \/ Answer(t) \/ ReadCapture(t)
       \/ Characterize(t) \/ FitTemp(t) \/ FitRa(t)
       \/ Finish(t) \/ Create(t) \/ Flush(t) \/ Sync(t) \/ Rename(t) \/ SyncDir(t)
       \/ Kill(t)
  \/ PowerCut

CalSpec == CalInit /\ [][CalNext]_calVars

(***************************************************************************)
(* Properties                                                              *)
(***************************************************************************)
\* Whoever reads cal.json - the daemon starting, the next run - finds a
\* calibration it can load, if there was one before: no kill, no full disk
\* and no power cut in the middle of cal_write leaves part of a file there.
NeverTorn == [][Loads(CalText) => Loads(CalText)']_calVars

\* A run changes the section it measured, after the operator's yes, and
\* keeps the others: what is in the file when it is replaced is what the
\* load preserved ("previously calibrated fields are preserved").
SectionsKept ==
  [][cuts' = cuts =>
       \A s \in Sections : CalText'.sec[s] # CalText.sec[s] =>
         \E t \in Tools : /\ P(t, "rename")
                          /\ SectionOf(proc[t].mode) = s /\ proc[t].said]_calVars

\* What the exit of a run says is what it did: a run that fails leaves the
\* file as the run found it, one that says "Saved" leaves what it found with
\* the confirmed measurement in its place, and any other changes nothing.
ExitHonest ==
  [][\A t \in Tools :
       LET p == proc'[t]
           kept == p.found.sec
           confirmed == [kept EXCEPT ![SectionOf(p.mode)] = p.own]
       IN  (p.pc = "done" /\ proc[t].pc # "done") =>
             /\ (p.code = 1 \/ ~p.saved) => CalText' = p.found
             /\ p.saved => CalText' = Whole(IF p.said THEN confirmed ELSE kept)]_calVars

\* The operator is never shown a fit of something that was not measured: the
\* accelerometer's readings in all six positions (an array nothing clears),
\* both halves of the gyro's window (their counts divide).
FitsWhatWasMeasured ==
  \A t \in Tools : P(t, "ask") =>
    CASE proc[t].mode = "accel" -> proc[t].done = Faces
      [] proc[t].mode = "gyro"  -> proc[t].done = 2 /\ ~proc[t].rough
      [] OTHER -> Len(proc[t].keep.s) >= 5

\* The samples of a swing the fit is made from are spread evenly over all of
\* it, however often the buffer was thinned.
SwingSpread == \A t \in Tools : Spread(proc[t].keep)

\* Both: a fit rests on all of what the operator did, evenly.
FitEvidence == FitsWhatWasMeasured /\ SwingSpread

\* Both: the file changes where a confirmed measurement says, and the exit says so.
FileAsConfirmed == SectionsKept /\ ExitHonest
=============================================================================
