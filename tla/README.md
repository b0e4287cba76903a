# imud: specifications, model checking and proofs

imud is a daemon that reads an inertial unit and a magnetometer, fuses them into
an attitude and serves that attitude over UDP, TCP and local sockets; programs
beside it calibrate, test and forward. This directory holds TLA+ modules that
model their concurrency and control, TLC configurations that check them, and
TLAPS proofs. Every definition is translated from the C source; `PROJECT.json`
names the lines each one stands for, the properties, the hazards they are about
and the theorems.

To check: `tlc -config X.cfg M` for each run below, `tlapm M_proofs.tla` for each
of the eight proof modules.

## The system

| component | state it keeps | operations | how it meets the others |
|---|---|---|---|
| sample rings (`ring.c`) | slots, head, tail, count, a mutex, a condition variable | push a burst, pop with a deadline, count | reader pushes, fusion pops, stop broadcasts |
| reader threads (`imu.c`) | error and reset counters, time anchor, SET/RESET clock, last good sample | wait for an edge or a poll, drain the chip, reset it, push | rings, recorder tap, `SIGTERM` to main |
| acquisition (`ism330dhcx.c`, `chip_ts.h`, `st_fifo_ts.h`, `imu_math.c`) | half-assembled sets, the counter's guard, the wall clock anchor | drain, pair, stamp, anchor | called by the inertial reader |
| drivers (`drivers/`) | what the part was set to, gains, banks | probe, reset, init, read, self-test | called by the readers only, after open |
| buses (`bus*.c`) | shared USB bridges, their clocks and locks | open, message, close | called by the drivers, from two threads |
| fusion thread (`imu.c`, `fusion.c`) | filter, configuration snapshot, heading reference, settled | settle, estimate bias, align, predict and correct, sanitize, publish | pops both rings, reads hand-over flags, publishes under `shared.lock` |
| configuration hand-over (`imu.c` setters) | live configuration, `reconfigure`, `mref_update` | reload, set declination, set field invariants, set speed | main and position write, every thread snapshots |
| daemon lifecycle (`main.c`) | which threads started, exit status, stop flags, files | open, create threads, signals, replay watch, teardown | creates and joins everything |
| output threads (`output.c`, `netserv.c`) | rates, subscriber tables, sockets | tick, accept, send to each, shut down | read the published state, honour settled |
| client library (`lib/libimud.c`) | one connection, part of a frame | dial, read, deliver, close | the subscriber tables' far end; bridges and clients call it |
| position thread (`position.c`, `wmm.c`) | last fix, its age, a session | gpsd and Signal K sessions, time limits | writes declination, invariants, speed |
| health thread (`main.c`, `status_fmt.c`) | next stats line | watchdog, stats, status socket | reads everything's counters |
| recorder (`capture.c`) | tap ring, current file, file set | tap, write, rotate, prune | readers push, its thread writes |
| `imud-cal` (`cal*.c`, `fit_ra.c`) | the calibration in memory, `cal.json` | load, six modes, confirm, replace the file | the daemon and its next run read the file |
| `imutest` (`imutest*.c`) | the part's state, findings, a verdict | phases of checks, restore, report | drivers, the interrupt line |
| bridges (`bridge.c` and five programs) | configuration, socket, retained topics, a scrape | connect, reload, publish, serve, stop | the daemon through libimud, brokers |
| simulator and replay (`drivers/sim.c`) | playback position and clock | read the next records | readers, replay watch in main |
| clients (`imud-mon`, `imud-status`) | - | print what arrives | sockets only |

The behaviours that are hard to test lie between these: a stop that races with a
wait, a burst that laps a ring or a FIFO, a reload that races with the copy of
the configuration it changes, an edge that is missed, a thread that cannot be
created when others already run, two parts on one bridge, a bus that fails in
the middle of a message, a process killed between two register writes or two
system calls, a broker that comes back during a publish pass.

What makes each component correct:

* rings: samples reach fusion in order and once; every lost one is counted;
  nobody sleeps past stop for longer than the deadline;
* acquisition: the halves of a sample are of one instant, its stamps are true
  within stated bounds and never step back, a gap is always counted;
* field reader: a part that converts is heard whatever edges are missed, and an
  outage is said; a dead bus ends the daemon, for both readers;
* drivers: a reading is scaled and dated by what the part is really set to;
  whatever a killed process left, a start works;
* buses: a message gets its own bytes at its own clock; bridges are handed back;
* fusion: outputs see attitudes only; a reload and a new position reach the
  filter and never go backwards; a SET/RESET pulse is reported; stop ends it;
* lifecycle: contexts outlive their users; every exit path removes what was
  made; a failed start is reported as one; every request to end is honoured;
* recorder: every record is written or counted, names sort in the order
  recorded, the oldest names go first;
* position: a declination or a speed nobody refreshes is withdrawn in time, and
  comes back with the next fix;
* subscribers and library: a slow or vanished client costs only itself, the
  table is exactly the open sockets, whole packets arrive, and all that were sent;
* `imud-cal`: what is fitted was measured, what is written was confirmed, and
  the file is never torn;
* `imutest`: each check finds the part as configured; a recommendation is earned;
* bridges: no SIGHUP is lost, nothing outdated is published, all reconnect and
  stop.

## Modules

| module | what it is | composed of |
|---|---|---|
| `LossyQueue` | abstract: a bounded queue that loses its oldest and counts it | |
| `RingBuffer` | the slot arithmetic of `ring.c` as operators on a record | |
| `ImuRing` | reader, fusion and main around the inertial ring, lock and condition variable included | `RingBuffer`; implements `LossyQueue` |
| `ImuRing_proofs` | theorems about `ImuRing`, the refinement among them | |
| `FusionLoop` | `fusion_thread` with the setters, the SET/RESET mark and an output tick | |
| `FusionLoop_proofs` | theorems about `FusionLoop`: all its safety properties | |
| `Daemon` | `main` from the first open to the return, every thread's life, the high-rate output's last packets | |
| `Daemon_proofs` | theorems about `Daemon`: what it says of itself, how it leaves | |
| `Position` | `position_thread`: gpsd sessions, the Signal K poll, the two time limits | |
| `Inputs_proofs` | theorems about `Position`: all its safety properties; and `Drivers`: starts, probes and self-tests | extends the two, which share nothing |
| `Capture` | the recorder: tap ring, `capture_thread`, rotation, names, pruning, restarts | |
| `Capture_proofs` | theorems about `Capture`: all its properties | |
| `Subscribers` | a table of stream clients and the thread that serves it | |
| `Stream` | the library's end of one of those connections: dial, read, frame, deliver | extends `Subscribers` |
| `Stream_proofs` | theorems about `Subscribers` and `Stream`: all their properties, and that the second implements the first | |
| `Acquisition` | FIFO, drain, pairing, stamps, anchor and recovery of the inertial reader | |
| `MagReader` | the field reader: latched line, fallback, SET/RESET, stall watch, recovery | |
| `Readers` | the two readers together | extends `Acquisition`, instance of `MagReader` |
| `Drivers`, `MCDrivers` | twelve parts' probe, reset, init, read and self-test, access by access | |
| `UsbBus`, `MCUsbBus` | FT232H bridges shared by nodes: opening, messages in flushes, closing | |
| `Sensors_proofs` | theorems about the inertial reader (`Acquisition`: samples and stamps), the field reader in `Readers`, and `UsbBus`: bytes, clocks and bridges | extends `Readers` and `UsbBus`, which share nothing |
| `MagKeep` | the thinning of a swing's samples in `cal_capture.c` | |
| `CalTool` | runs of `imud-cal`, and `cal_write` down to inodes and `fsync` | `MagKeep` |
| `HwTest` | a run of `imutest`, or of its `--degauss`, from `main` to the exit code | |
| `Bridges` | the loop of the five bridges, the broker, the scrape | |
| `Programs_proofs` | theorems about `Bridges`, `CalTool` and `HwTest`: all their safety properties | extends the three, which share nothing |

Components that meet in the code but share no state worth a joint run meet here
as actions of each other's environment: `SetMagRef` of `FusionLoop` is
`Position`'s fix, `Stop` of each is a stage of `Daemon`'s teardown, a reader
that gives up in `Readers` is `ReaderGivesUp` of `Daemon`, and the TCP outputs of
the bridges are tables of `Subscribers`.

### How state and actions correspond to the code

`ImuRing` gives each thread a program counter and one action per stretch of code
between two points where another thread matters: taking the mutex, each
iteration of the push loop, unlocking, signalling, counting; testing the ring
and stop, waiting (which releases the mutex), waking by a signal, spuriously or
by the deadline. Samples are numbered in the order read. `StopSet` and
`StopBroadcast` are the two lines of `imu_ctx_stop`; neither holds the mutex.

`FusionLoop` represents a configuration value by the number of the write that
made it, so stale and fresh can be compared. The filter is four facts: it has an
attitude, it has a heading reference, which invariants the reference was scaled
to, and which tuning it was derived from. Each read or write of a shared flag is
a step of its own; the copy of the configuration is one step because it is made
under `live_lock`. The arithmetic between two such points is one action whose
outcome is a choice.

`Daemon` has one action per step of `main`; a failed `pthread_create` is an
action of each arm. A thread is none, running, exited or joined and exits when
the flag its loop tests is up. Joins are a list that `main` works off before its
next step. The high-rate loop is two steps (test, tick), because its flag is
tested before it sleeps.

`Position` keeps each instant the code stores as its age in seconds, and lets
time pass only where the thread waits. The program counter names the places
where the code can return to its limits or cannot: `midline` is `read_line` with
part of a line in hand.

`Capture` numbers a record in the order the tap's mutex admitted it. A file is
the second in its name together with the order in which files were created, so
that a name and an age can disagree. A record counts as written when stdio has
accepted it. The clock may be set to anything at any time, and the process may
end, by a crash or in order, at any step; only the directory survives.

`Subscribers` has the parallel arrays of `netserv.c` as two sequences, and one
action per outcome of `send()`. The kernel's buffer of a client is a number of
units; clients connect, read and hang up between any two sends. `Stream` gives
one of the clients a pipe of numbered bytes, and the library's `rx` buffer,
`rx_got` and delivery over it; `owed` is the number of whole packets the daemon
took as sent and the program has not seen.

`Acquisition` counts time in sample periods: a sample's value is the counter at
which it was taken, so a published sample shows by itself which readings were
put together and how far off its stamps are. The part writes words into a FIFO
that overflows while the driver drains it a transfer at a time. What the
properties need of the past (`ghost`) is the longest drain, whether a counter
read was bad, and what has lost words.

`MagReader` counts time in ticks, `Period` of them to a conversion. The latched
line is `ready`: a conversion raises an edge only when it was down, and only an
acknowledged read lowers it; a SET/RESET pulse takes a read's place and
acknowledges nothing. The thread is prompt, so ticks fall into its waits, and a
bounded number of them into its reads. A wait that returns an error is begun
again after 5 ms and changes nothing, so it is left out.

`Drivers` represents each operation by the sequence of its bus accesses
(`proc.steps`); registers hold what they decide: range, rate, mode, bank,
self-test force, FIFO. An access may fail with or without having landed, and
the process may be killed between two. `UsbBus` has the command and reply
queues of a bridge, and what a flush carries; a USB call is refused, lost or
answered late. `CalTool` has the directory, inodes and what of either is on the
disk; `HwTest` has one action per check with its outcomes, and one per pulse of the
degauss coil, whose write may have landed and be reported as failed. SIGINT only sets
a flag in a run of checks; `--degauss` is over before its handler is installed, and no
other signal has one, so the process may also die between any two steps (`Die`).
`Bridges` has one action per stretch of the loop between two waits, `on_connect` as a thread of its own.

## Runs

A run's properties are conjunctions of named parts; the parts are stated and
explained where they are defined.

| run | distinct states | question | properties |
|---|---|---|---|
| `imu_ring` | 24,796 | is the ring ordered, accounted for and live under bursts, timeouts, lost and spurious wakeups, and stop | `RingSound`, `ImplementsQueue`, `ThreadsProgress` |
| `fusion_loop` | 995,950 | do reloads, positions, pulses, resets and refused alignments leave filter and outputs consistent | `FilterInStep`, `SetResetNotLost`, `PublishedIsAttitude`, `NeverBackwards`, `FusionStops` |
| `daemon` | 233,530 | what is freed, announced, removed and reported on every path through startup and teardown | `SaysWhatItIs`, `LeavesCleanly`, `ProcessEnds` |
| `position` | 340,126 | are speed and declination fresh, do fixes apply, are polls spaced, does the thread stop | `PublishedFresh`, `FixIsApplied`, `PacedAndStopped` |
| `capture` | 900,222 | is every record accounted for and in order, and does pruning delete the right files | `NothingLostSilently`, `ReadBackInOrder`, `FilesSafe` |
| `stream` | 702,810 | is the table the open sockets, is a stall its own, and does the library get whole packets, all of them | `TableIsOpenSockets`, `EachOnItsOwn`, `Aligned`, `DeliveredFirst` |
| `readers` | 563,515 | are samples and stamps true through overflows, faults and recoveries; do edges missed or pulses sent stop the field | `SamplesTrue`, `FieldWatched`, `BurstsFollow`, `ReadersGiveUp` |
| `drivers` | 1,515,492 | is a reading scaled and dated by what the part was set to, whatever failed or was killed before | `ReadingsTrue`, `StartWorks`, `LeavesNoTrace` |
| `usb_bus` | 3,762,502 | do two sensors on shared bridges get their own bytes at their own clocks, and is everything handed back | `MessagesWhole`, `HandedBack`, `BridgeStops` |
| `cal_tool` | 1,015,661 | is what is fitted measured, what is written confirmed, and the file never torn | `FitEvidence`, `NeverTorn`, `FileAsConfirmed` |
| `hwtest` | 2,075,008 | does each check find what it needs and leave what it found, is the magnetometer left set, also by `--degauss`, and is a recommendation earned | `LeftAsFound`, `RecommendationEarned`, `PassiveRunEnds` |
| `bridges` | 333,542 | is no SIGHUP lost, nothing outdated published, and does every loop reconnect, serve and stop | `ReloadsHonoured`, `NothingOutdated`, `BridgesProgress` |

Properties with a stated exception name it: `FilterInStep` leaves out the
copy-and-clear window (`hotMissed`, `refMissed`), `LeavesCleanly` the arm of the
health thread, `PublishedFresh` allows for the time spent in the middle of a
line, `StampsTrack` and `WallHonest` ask that the guard and the anchor are not
adrift, `StartWorks` leaves out the ICM-42688-P, `MessagesWhole` speaks of bytes
and clocks until a flush has failed, `FieldWatched` leaves out a pulse due more
often than the fallback wait. Each exception is a place where the code does
otherwise; they are listed under "Divergences".

### Bounds, and why they are enough

* `ImuRing`: a ring of 2, bursts of up to 3, five samples, one chip overflow. A
  single burst laps the ring, starts at any offset, and a pop falls before,
  inside (by lock order) and after it. The theorems remove the bounds.
* `FusionLoop`: three configuration writes: the one at start, one in flight, and
  one that lands inside or after the window of the first. The theorems remove it.
* `Daemon`: three configurations that between them start every thread and fail
  in every arm, one reload, one poll of the drain. Threads interact only through
  `main`, which handles one at a time. (The run with all six optional threads,
  1.7 million states, gives the same answers.)
* `Position`: limits of two and three seconds, a poll every three, a retry of
  one, connections and responses of up to one; ages saturate at `Old`, which an
  assumption places beyond every limit. What matters is the order of the limits'
  expiry relative to the waits, and these values allow each order.
* `Capture`: a ring of 3, batches of 2, one record to a file, limits 0 to 3 that
  a restart may change, a listing of 3 names (256 in the code), so that a
  directory larger than the listing occurs; four files ever and two clock values
  far enough apart that a set-back collides with older names.
* `Stream`: three clients, one of them the bridge, for two places, a buffer of
  three units and a payload of two, so that a send can be whole, partial or
  refused; a stall of two ticks. The table alone was explored with four clients
  for three places to 15 million states, with the same answers.
* `Readers`: a FIFO of 7 words read by 3 with a timestamp to two sets, so that a
  drain is cut in every place and an overflow falls inside it; five periods, two
  failing transfers, one bad counter read, two errors to a reset and two failed
  resets to the end. For the field: a conversion of 2 ticks against a fallback of
  4 and a poll of 1, a stall limit of 6, two missed edges, two faults, one slow
  read; a pulse every 4 ticks (as often as the fallback, which leaves no turn to a
  read with a line) or 7. No horizon: the field's state space is closed. The two
  threads share nothing but stop, so a behaviour follows one of them (`side`).
* `Drivers`: every part with six requests whose rates lie below, on, between and
  above the rungs of the parts' tables; three measurements, two failing accesses,
  one killed process: a failure during the recovery of a failure is inside.
* `UsbBus`: five nodes of two bridges, three kinds of SPI part, two devices, two
  transfers and three USB calls that go wrong, each in any of three ways. A
  message is longer than the bridge's buffer, so it takes several flushes. Three is
  the least with which a part can be clocked while another is selected (below).
* `CalTool`: two runs, so that the second loads what the first wrote or left;
  one power cut; a buffer of 6 under a swing of 26, so that it is thinned
  twice. `Together` lets runs overlap; the tool does nothing against it, and two
  at once tear the file (below), so the run has it FALSE.
* `HwTest`: two ranges to the sweep, two orientations and two turns to the operator's
  phases: a first, and a last that is not the first.
* `Bridges`: all five programs, two destinations so that a reload can move the
  output, two prefixes, one retained topic.

### Fairness

Weak fairness of each thread's own steps: the daemon's threads are ordinary POSIX
threads with no priorities, and every sleep or wait in a modelled loop has a
deadline, which is what `DeadlinePasses`, the ticks and the seconds stand for.
Nothing is assumed of the environment: no sample, edge, fix, signal or wakeup
need ever come, no alignment window need be accepted, no creation, connection or
access succeed. `ScrapeEnds` is conditional on the serving place of the loop
being reached again and again; without it the code starves the scrape.
`BridgeStops` assumes that a stop comes, and is about what follows.
`PassiveRunEnds` is about runs nobody has to answer. `Stream`, `Capture`,
`Drivers` and `CalTool` are checked for safety only.

Deadlock is checked except for `hwtest`, `drivers` and `cal_tool`, which model
programs, or a budget of runs of them, that end.

## Proofs

`ImuRing_proofs` proves, for every ring length, burst size and run length:

* `RingSafe`: `RingSound`, that is types, `WindowInv` (the ring holds exactly the
  newest samples, in order) and `LossAccounted`;
* `RingOrdered`: deliveries are strictly increasing, and what a delivery skipped
  is what has been counted as overwritten;
* `RingImplementsQueue`: the threads implement `LossyQueue`.

The inductive invariant adds to those three what they cannot do without: who
holds the mutex at each place of each program counter (a push step is then never
concurrent with a pop), how much of a burst is left at each place, and that the
last delivery is the number of samples consumed plus those overwritten before
it. The assumptions are that the ring has at least one slot and bounds are
naturals; the code's masking is the remainder because its lengths are powers of
two.

`FusionLoop_proofs` proves every safety property of `FusionLoop` for any number
of configuration writes, from `MaxWrites \in Nat` alone. Each property has an
inductive invariant of its own that says what is known at each place of the
loop, and all of them rest on `FusionTypes`:

* `SettledInv`, for `SettledMeansAlignedHolds` and `PublishedIsAttitudeHolds`:
  outputs are never released before the first alignment, the place that
  releases them has an attitude, and only `mekf_sanitize` takes one away;
* `MarkInv`, for `SetResetNotLostHolds`: an unreported pulse is in the flag or
  in the packet of this very pass;
* `ReloadInv`, for `ReloadAppliedHolds`: between the copy and the clearing of
  the flag the copy is the live tuning unless a reload fell into that window;
* `OrderInv`, for `NeverBackwardsHolds`: what is used is no newer than the
  snapshot, and the snapshot no newer than the live configuration;
* `RefInv`, with `OrderInv`, for `ReferenceFollowsPositionHolds`: the order is
  needed because an invalid copy (0) leaves the reference alone, which is right
  only because the reference then has none either.

`FilterInStepHolds` puts together the types, `SettledMeansAligned`,
`ReloadApplied` and `ReferenceFollowsPosition`.

`Inputs_proofs` proves of `Position`, for every choice of limits, waits and
places, that published values are fresh, that a fix is applied, and that Signal K is not asked
too often. The assumption is that the model's `Old`, where ages stop counting,
lies beyond every limit plus one whole cycle of the thread, so that no
comparison of the code can tell. The strengthenings:

* `AppliedInv`: the last position is that of the fix, or `POS_FORCE_UPDATE_DEG`
  when none counts, and then the next fix is always far enough to be applied;
* `SpeedInv`, `DeclInv`: at each place of the thread, how long ago a limit can
  have been looked at. `Overdue` is that bound; the time in the middle of a line,
  which the code does not limit, is a term of its own;
* `PollInv`: what a sleep has left and the age of the last poll add up to the
  interval.

It also proves two properties of `Drivers`, for any requests and any number of
measurements, failing accesses and kills:

* an operation is a list of accesses, and `MayDo` says which a list of an operation
  on a part may have; the lemmas `ProbesMay` to `TestsMay` check every table of
  `Drivers` against it, once, and `Onward` keeps it through a list;
* `DriversInv`, for `StartWorksHolds`: a part with one bank never leaves it, the
  ICM-20948 is in bank 0 when it is asked who it is (`AnswersInBank`), and an
  operation with an error has met a fault. Nothing else can fail a start. The
  ICM-42688-P is excluded by the property, as its probe does not select its bank;
* the same invariant, for `LeavesNoTraceHolds`: a probe writes none of what it must
  keep (`Own`), and the RM3100's, which borrows the cycle count, has the write that
  puts it back at the end of what it still has to do (`Borrows`); a self-test's last
  access turns the force off, and an error on the way leaves by it (`Forcing`).

`Capture_proofs` proves its three properties for any ring, batch, listing, clock
and number of files. The directory part (`DirInv`, `RotatorInv`) says that no two
files are of one second and that the open one is among them; that a listing of
the `DirMax` earliest names can be taken at all is an argument about least elements
of finite sets. `DrainInv` says what a writer that ended left in the ring.
`OrderInv` is why files read back in order: what has gone further is earlier, in
the ring, the batch and the log, and no file of this run is later than the
current one, which needs `lastStamp` since the clock may go back.
`FreeNameAssumption` (more seconds are tried than files exist) is the code's
600 tries; without it an open may replace a file.

`Stream_proofs` proves, for any number of clients, places and packets:

* `SubInv`, for `TableHolds` and `EachOnItsOwnHolds`: each open socket has one
  place, and the index of a broadcast splits the table into those tried and those
  not, which the swap of a removal keeps only because the index is not advanced;
* `StreamInv`, for `AlignedHolds` and `DeliveredFirstHolds`: what is on its way is
  as many whole packets as are owed, and part of one only after the final
  broadcast was cut short. The facts it rests on are one lemma per way of
  moving units (received, delivered, framed, sent, cut short);
* `StreamImplementsTable`: every step of the composition is a step of
  `Subscribers` or leaves its variables alone, so the table's theorems hold with
  the library as one of the clients.

`Daemon_proofs` proves both properties of `Daemon` for any set of
configurations, length of a replay's drain and number of reloads. The threads come
in a fixed order (`Rank`); `StartInv` says that those before `at` were created
when wanted, `OpenInv` what is open at each place of `main`, `WireInv` what the
high-rate socket has carried, and `JoinInv` that each stage of the teardown
still owes a join to every thread it stopped, which is why nothing is freed
under a thread - but for the recorder after a failed health thread, which
`JoinInv` names as the code forgets it.

`Sensors_proofs` proves `FieldWatchedHolds` for any period, waits, limits and
numbers of faults that `MagConstants` admits. `GapInv` is a ranking argument: the
time since the last sample, plus the longest it may still take from this place
(`ToPush`: the rest of the wait, one more wait if a SET/RESET pulse may take this
turn, two when a sample was acknowledged unread), stays within the bound.
`QuietInv` is the same for the stall warning. `Starved` excludes pulse periods no
longer than the fallback wait, for which the bound is false (below).

`SamplesTrueHolds` is about `Acquisition`, for any FIFO of three words or more (a
part's holds hundreds; three is what it takes to keep both halves of some sample
wherever an overflow cuts it), transfer size, timestamp batch, limits, bad counter
reads and faults. `AcqInv` follows the words, which the part writes in a fixed order:

* the lemmas on the order (`Layout`, `Boundary`, `Stream`) say what comes at each
  word and how many slots have passed there (`Passed`), batch or none; they need
  that a set of numbers has a least, and no induction over data;
* `StreamInv`: a drain that lost no words is `Whole` at every cut - its sets are of
  consecutive slots up to the last passed, and a timestamp word names one of them
  or the next - and no later than the second drain after a loss it is `Paired` again. `TakenKeeps` carries
  both through a transfer of any number of words;
* `GuardInv`: the guard remembers the slot before the next set, at most `Ahead` of it
  and one behind it, or the drain is `Told` of an overflow that still left it a set,
  after which the guard starts again. `StampBounds` is the arithmetic of the ways a
  burst is stamped (batched word, counter, shifted, refused), from these two;
* `AnchorInv`: the anchor pairs a stamp and a time of one drain, so the wall time of a
  sample is off by what the stamp was then, and is now.

It also proves two properties of `UsbBus`, for any nodes and bridges, table of
devices, number of transfers and of calls that go wrong:

* `BridgesInv`, for `HandedBackHolds`: a device's reference count is the number of
  handles on it, and no two devices are of one bridge, at every place of the
  opening and of its failures;
* `MessagesInv`, for `MessagesWholeHolds`, has one part to each of three things a
  message can lose. `BytesInv`: on a bridge where nothing has gone wrong, what the
  message has collected, what the bridge has to answer and what is still to be sent
  are together exactly what was asked for, in order (the pieces of a message are a
  sequence of tags, so this is about concatenation). `ClockInv`: the divisor is the
  part's, or the first flush, which sets it, is not yet sent. `SelectInv` counts
  faults: each place says how many calls must have gone wrong for another's part to
  be selected there (`Paid`), where late replies count as one (`Behind`). All three
  rest on `LockInv`: the lock of a bridge is held by the one reader in the middle of
  a message on it.

`Programs_proofs` is about three programs that share nothing:

* `Bridges`, for any destinations, prefixes, topics, edits and outages:
  `SinkInv` ties the open UDP socket to the configuration in force, and `StaleInv`
  says which retained values may be out of date in the middle of a publish pass:
  those of the sample the bridge is at;
* `CalTool`, for any runs, tools and cuts. `FitEvidenceHolds` needs only
  `ToolInv`, which carries at each place what was measured, and the lemmas on
  `MagKeep` (the kept samples are every `stride`-th one, through every halving).
  `NeverTornHolds` and `FileAsConfirmedHolds` are from `FileInv`: no name the disk
  may know is that of the file being written, each inode the power cut may leave
  under `cal.json` loads if it does, and a run about to rename has its whole text
  on the disk. Both assume `~Together`, one run at a time, which the tool is
  used by and does not enforce: with two, they are false (below);
* `HwTest`, for any ranges, orientations and rotations: what each place may find
  of part, magnetometer and line unless a failure was reported; that the bridge is
  reset only between the two pulses, or by a kill there, or by the last pulse that
  was reported as failed (`misfired`): a SET, or a RESET of a `--degauss` that says
  so with its exit code (`BridgeInv`); and how
  many required groups can have been graded by then (`ClearInv`): reaching the
  number required therefore means all of them, once each.

Left to TLC:

* liveness under fairness (`ThreadsProgress`, `FusionStops`, `ProcessEnds`,
  `PacedAndStopped`, `ReadersGiveUp`, `BridgeStops`, `PassiveRunEnds`,
  `BridgesProgress`), which is out of the prover's reach. The safety half of
  `PacedAndStopped`, the spacing of polls, is proved (`PollsAreSpacedHolds`);
* `BurstsFollow` of `Acquisition`. It counts losses modulo a bound, so a theorem would
  need that bound to exceed what can be lost; and its stamps increase only while the
  slack of bad reads stays within the jitter bound;
* `ReadingsTrue` of `Drivers`. That a reading is scaled by its own range would need,
  for each part, which registers are set at each access of a reset and a bring-up;
  that it has the rate asked for, that rounding a rounded rate gives it again, which
  is nonlinear division for the parts with a divider. TLC enumerates the parts whole.

## Divergences met while modelling

Places where the code does otherwise than a comment, a doc or the reader would
have it. None is an invariant of a run; the exceptions named above stand for those
that a property would meet.

Fusion, lifecycle, position, recorder:

* a reload can be consumed with the values it replaced: `reconfigure` is cleared
  after a copy that was made before the reload;
* settled is raised before the first publication, so an output can send the
  zero-filled state, or the one a reset leaves;
* when the health thread cannot be created, main frees the sensor context under
  a running recorder;
* a session that falls silent in the middle of a line is waited on without a look
  at the limits, so its speed stays in use;
* a fix counts for the age limit though no model file could turn it into a
  declination, and when it expires the configured declination is withdrawn;
* files are pruned by name, and a restart with the clock behind gives the newest
  capture an older name: the newest go first, where the docs keep the newest;
* `imu_ctx_stop` broadcasts without the mutex, so the consumer may sleep out its
  100 ms; high-rate packets can follow the shutdown packet.

Readers and drivers:

* after a SET/RESET pulse the comment says to wait for the next edge, but the
  line is still up and gives none before it is acknowledged: each pulse costs a
  whole fallback wait; with `set_period_s` no longer than that, no field is ever
  read and no stall is said;
* a wait for an edge that always fails loops without reads, and unsaid; read
  errors reset the stall watch and clear its warning;
* a recovery restarts the part's counter and keeps the anchor, so wall times are
  wrong until the next one is due;
* a failed read of TIMESTAMP0 leaves the stamp 0; a drain that fails after it has
  seen the overflow flag consumes it uncounted; a failed block read loses sets
  without an overflow;
* words lost in the middle of a drain leave a gap inside its burst; the stamps of a
  burst step back by one period to a sample and know of no gap, so the samples
  before it are dated late by what was lost;
* comparisons of `ism330dhcx.c` that "should never fire" do after one late
  counter read;
* a recovery whose init fails half-way can leave a part that answers and samples
  nothing: empty reads for ever, and no error to start the next recovery;
* an ICM-42688-P killed in another register bank does not identify itself at the
  next start; a bus error in the middle of `imutest`'s fuse-ROM check leaves the
  AK8963 in that mode;
* the first interrupt-driven read of an MMC5983MA after a bring-up has nothing to
  compare its bytes with and hands them on, whether the part has measured or not.

Buses:

* one refused USB write in a long read makes the read succeed with part of its
  bytes; a USB write that times out counts as a success on Linux and FreeBSD: that
  of an SPI set-up too, after which a divisor is believed in that the bridge never
  got (`Believed`), and that of the engine's own set-up, whose sync exchange is
  answered all the same (not modelled: the properties would except the bridge as
  they do after any lost write);
* the divisor is noted as set before the flush that sets it; replies that come
  after their time limit are collected by the next message;
* three calls that go wrong in a row - a late reply, a lost level that lets a part
  go, a lost first flush of the other's long message, which takes the late replies
  for its own and goes on - clock a part while the other's message is meant;
* two node texts that name one dongle claim it twice; two SPI nodes with one
  chip select are not refused.

Programs:

* two `imud-cal` at once share the temporary file and can tear `cal.json`, which
  a comment of `cal.c` excludes; one that loaded before the other wrote loses the
  other's section; a declined or interrupted run rewrites the file with what it
  loaded; a damaged `cal.json` stops `imud-cal` itself;
* Ctrl-C in the second half of the gyro mode, after five samples, accepts a
  shortened window;
* `imutest --degauss` runs before the SIGINT handler is installed: Ctrl-C, like any
  other signal, between its RESET and its SET ends it with the magnetometer's field
  reversed, and nothing says so until the daemon's next SET; a RESET that reaches the
  part and is reported as failed ends it without a SET. In a run of checks a SIGTERM
  between the two pulses does the same, and the result of the last SET is not looked
  at, where the comment says "Leave the part SET however this went". `LeftSet` excepts
  these and nothing else;
* `imutest`'s headline recommends without a magnetometer though the flag does
  not; its bus integrity check passes when every read fails; its last check of the
  registers can fail for a part that is as it should be; the daemon may be
  started during a run;
* `imud-signalk` copies the UDP enable at a reload, so off, then on with a new
  destination, leaves the old socket;
* `imud-mqtt` warns that a new prefix needs a restart and applies it to the state
  topics at once; retained values under the old one stay;
* a daemon that stays connected and silent has its last sample republished; one
  that cuts every connection before the first poll starves the scrapes; writes to
  slow peers are limited each and not in number;
* a bad destination at a reload ends a bridge with exit code 0, which
  `Restart=on-failure` does not restart; a configuration file that is missing at a
  reload is the defaults, and a success.

## Not modelled, and the plan

Floating-point arithmetic (the Kalman filter, WMM, ellipsoid fits, heave and
engine estimators) is out of TLC's reach and is represented by its outcomes.
Configuration parsing, the wire packet, NMEA and JSON are encodings without
control of their own; GPIO, host time, log, command line and service
notification are thin wrappers. The simulator's readings and a capture's records
are data; the pacing of a replay is left out. Of the buses, a Linux device node
is one ioctl per message; the other two USB layers differ from the one modelled
in that a write that times out is an error on macOS. A UDP handle of the library
keeps no state. stdio buffering of a capture file is abstracted: what `fclose`
drops is not seen. A read that meets the wrong register bank of an ICM part is
taken as finding nothing new; on a part the other bank's bytes could read as anything.

What remains to be proved, in order:

1. `Drivers`: that a reading is scaled by the range it was measured in (the first part
   of `ReadingsTrue`), from what each part's registers hold at each place of a bring-up;
2. `Acquisition`: that stamps never step back (the second half of `BurstsFollow`), from
   `AcqInv`, the guard's memory being the last burst's stamp, and a bound on bad reads.
