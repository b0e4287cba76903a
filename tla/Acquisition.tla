------------------------------ MODULE Acquisition ------------------------------
(***************************************************************************)
(* How a sample gets its slot and its time: an ST six-axis part with its   *)
(* FIFO (src/src/drivers/ism330dhcx.c; lsm6dso.c drains and stamps the     *)
(* same way), the timestamp guard (chip_ts.h), the batched timestamp       *)
(* (st_fifo_ts.h), the inertial reader thread with its recovery            *)
(* (src/src/imu.c ism_reader_thread) and the wall clock anchor             *)
(* (src/src/imu_math.c).                                                   *)
(*                                                                         *)
(* Time is counted in sample periods, on one clock: the chip counter is    *)
(* the time since the part was configured, and a sample's value is the     *)
(* counter at which it was taken.  So a published sample shows by itself   *)
(* which readings were put together, and how far off its stamps are.       *)
(***************************************************************************)
EXTENDS Integers, Sequences, FiniteSets, SequencesExt

CONSTANTS
    FifoWords,      \* the part's FIFO
    BurstWords,     \* words to one transfer (ST_FIFO_BURST_WORDS, 32)
    Batch,          \* sets to one timestamp word (DEC_TS_BATCH), 0 = none
    Slack,          \* TS_FWD_SLACK_SETS (8)
    Jitter,         \* TS_MAX_JITTER_TICKS and ST_TS_MAX_LAG_TICKS, in periods
    MaxRefusals,    \* CHIP_TS_MAX_REFUSALS (3)
    MaxErrors,      \* consecutive read errors before a reset (10)
    MaxFailures,    \* failed resets before the daemon is stopped (3)
    AnchorEvery,    \* 60 s
    BadCounters,    \* what a bad counter read returns
    Horizon,        \* periods the part runs for
    Faults,         \* transfers that fail on a working bus
    BadReads        \* bad counter reads

\* A FIFO of three words holds both halves of a sample wherever it is cut.
ASSUME FifoAssumption == FifoWords \in Nat /\ FifoWords >= 3 /\ BurstWords \in 1..FifoWords /\ Batch \in Nat
ASSUME LimitAssumption == /\ Slack \in Nat /\ Jitter \in Nat /\ MaxRefusals \in Nat
                          /\ MaxErrors \in Nat \ {0} /\ MaxFailures \in Nat \ {0}
                          /\ AnchorEvery \in Nat /\ BadCounters \subseteq Nat \ {0}
                          /\ Horizon \in Nat /\ Faults \in Nat /\ BadReads \in Nat

VARIABLES
    now,        \* true time
    bus,        \* working, or dead for good
    chip,       \* start: when its counter began; on: it samples; first, next: the words
                \* its FIFO holds; ovr: FIFO_OVR_IA
    guard,      \* chip_ts_guard_t
    drain,      \* the read in progress
    rd,         \* the reader thread: consecutive errors, failed resets, the anchor
    out,        \* the burst last pushed into the ring
    left,       \* faults and bad reads still to come
    ghost       \* what the properties remember of the past

vars == <<now, bus, chip, guard, drain, rd, out, left, ghost>>

None == 0       \* no reading taken yet: slots count from 1
Idle == [pc |-> "wait", before |-> 0, words |-> 0, ovf |-> FALSE, accel |-> None, gyro |-> None,
         sets |-> <<>>, setCnt |-> None, idx |-> None, ts |-> 0]
NoGuard == [last |-> 0, have |-> FALSE, refusals |-> 0]
NoAnchor == [valid |-> FALSE, chip |-> 0, wall |-> 0, at |-> 0]
NoBurst == [sets |-> <<>>, newest |-> 0, start |-> 0]
Clean == [late |-> 0,            \* the longest drain, from status to stamp
          bad |-> 0,             \* counter reads that were bad
          adrift |-> FALSE,      \* since the guard was seeded, from a bad read, or before sets
                                 \* it was not shown
          hurt |-> 0,            \* drains since the part, or a transfer, last lost words
          stale |-> FALSE]       \* the anchor pairs a stamp that was wrong, or of a counter
                                 \* that has been restarted since

Init ==
    /\ now = 0 /\ bus = "ok"
    /\ chip = [start |-> 0, on |-> TRUE, first |-> 0, next |-> 0, ovr |-> FALSE]
    /\ guard = NoGuard /\ drain = Idle /\ out = NoBurst
    /\ rd = [errs |-> 0, fails |-> 0, stop |-> FALSE, counted |-> 0, anchor |-> NoAnchor]
    /\ left = [faults |-> Faults, bad |-> BadReads] /\ ghost = Clean

(* -------------------------------- the part ------------------------------- *)

\* The words the part writes, in order: gyro and acceleration of each slot, and
\* a timestamp word after one slot in Batch.
PerBatch == 2 * Batch + 1
SampleWord(j) == [kind |-> IF j % 2 = 0 THEN "gyro" ELSE "accel", slot |-> (j \div 2) + 1]
Word(i) ==
    LET group == i \div PerBatch
        k == i % PerBatch
    IN IF Batch = 0 THEN SampleWord(i)
       ELSE IF k = 2 THEN [kind |-> "time", slot |-> group * Batch + 1]
       ELSE SampleWord(2 * group * Batch + IF k < 2 THEN k ELSE k - 1)

\* TAG_CNT of a set; a timestamp word carries 0.
TagCnt(slot) == slot % Batch

Counter == now - chip.start
WordsBy(slot) == 2 * slot + IF Batch = 0 THEN 0 ELSE (slot + Batch - 1) \div Batch

\* One sample period: a set is appended, and in continuous mode the oldest words
\* make room.  What it does on a dead bus nobody sees.
Tick ==
    /\ now < Horizon /\ now' = now + 1 /\ bus = "ok"
    /\ IF chip.on
       THEN LET to == WordsBy(now + 1 - chip.start)
                from == IF to - chip.first > FifoWords THEN to - FifoWords ELSE chip.first
            IN /\ chip' = [chip EXCEPT !.next = to, !.first = from,
                                       !.ovr = @ \/ from # chip.first]
               /\ ghost' = IF from = chip.first THEN ghost
                            ELSE [ghost EXCEPT !.hurt = IF drain.pc = "words" THEN 3 ELSE Max({@, 2}),
                                               !.adrift = @ \/ drain.pc = "words"]
       ELSE UNCHANGED <<chip, ghost>>
    /\ UNCHANGED <<bus, guard, drain, rd, out, left>>

Die == bus = "ok" /\ drain.pc = "wait" /\ bus' = "dead" /\ UNCHANGED <<now, chip, guard, drain, rd, out, left, ghost>>

(* -------------------------------- mutants -------------------------------- *)

\* Bugs the checks must notice: a guard that does not know of an overflow, and a
\* shift one short.
KnownThroughout(d, counter) == guard
ShiftOneShort(g, first) ==
    IF g.have /\ first <= g.last /\ g.last - first <= Jitter THEN g.last - first ELSE 0

(* ------------------------------- the driver ------------------------------ *)

\* st_fifo_ts_note_word: the word dates the set just completed if it has that
\* set's counter, else the one being assembled.
NoteWord(d, w) ==
    [d EXCEPT !.idx = IF d.sets # <<>> /\ d.setCnt = 0 THEN Len(d.sets) ELSE Len(d.sets) + 1,
              !.ts = w.slot]

\* A sample is an acceleration and a rotation; whatever was read last of each is
\* what it is made of.
Complete(d, slot) ==
    IF d.accel # None /\ d.gyro # None
    THEN [d EXCEPT !.sets = Append(@, [accel |-> d.accel, gyro |-> d.gyro]),
                   !.accel = None, !.gyro = None, !.setCnt = IF Batch = 0 THEN 0 ELSE TagCnt(slot)]
    ELSE d

TakeWord(d, w) ==
    IF w.kind = "accel" THEN Complete([d EXCEPT !.accel = w.slot], w.slot)
    ELSE IF w.kind = "gyro" THEN Complete([d EXCEPT !.gyro = w.slot], w.slot)
    ELSE NoteWord(d, w)

\* A drain after the next n words of the stream.
Taken(d, from, n) ==
    LET after[k \in 0..n] == IF k = 0 THEN d ELSE TakeWord(after[k - 1], Word(from + k - 1))
    IN after[n]

\* chip_ts_guard_shift: a burst that overlaps the last one starts after it.
Shift(g, first) ==
    IF g.have /\ first <= g.last /\ g.last - first <= Jitter THEN g.last - first + 1 ELSE 0

\* st_fifo_ts_apply: the batched word stands unless it names a set that was not
\* completed or disagrees with the counter read after the drain.
Newest(d) == d.ts + (Len(d.sets) - d.idx)
Anchored(d, counter) ==
    /\ d.idx # None /\ d.idx <= Len(d.sets)
    /\ counter - Newest(d) \in 0..Jitter

\* The slot of the newest sample.
LastSlot(burst) == burst.sets[Len(burst.sets)].gyro

\* Without one the counter read is the newest sample's time, if the guard finds
\* it credible.  An overflow breaks the chain, so the guard starts again; and so
\* does a guard that has refused too often.
Known(d, counter) == IF d.ovf /\ ~Anchored(d, counter) THEN NoGuard ELSE guard
First(d, counter) == counter - (Len(d.sets) - 1)
Refused(g, first) == g.have /\ (g.last - first > Jitter \/ first - g.last > Slack)
Reseed(g) == g.refusals + 1 > MaxRefusals

\* The stamp of the newest sample, and the guard's memory after it.
Stamped(d, counter) ==
    LET g == Known(d, counter)
        span == Len(d.sets) - 1
    IN IF Anchored(d, counter)
       THEN [g EXCEPT !.have = TRUE, !.last = Newest(d) + Shift(g, Newest(d) - span)]
       ELSE IF Refused(g, First(d, counter)) /\ ~Reseed(g)
       THEN [g EXCEPT !.last = @ + 1 + span, !.refusals = @ + 1]
       ELSE [have |-> TRUE, refusals |-> 0,
             last |-> counter + IF Refused(g, First(d, counter)) THEN 0 ELSE Shift(g, First(d, counter))]

\* The counter read stands for lack of anything to judge it by.
Unjudged(d, counter) ==
    LET g == Known(d, counter)
    IN ~Anchored(d, counter) /\ (~g.have \/ (Refused(g, First(d, counter)) /\ Reseed(g)))

(* ------------------------------- the reader ------------------------------ *)

\* anchor_update and anchor_wall_ns: the newest sample is paired with the time
\* before the read.
AnchorDue == ~rd.anchor.valid \/ now - rd.anchor.at >= AnchorEvery
AnchorOn(stamp) == [valid |-> TRUE, chip |-> stamp, wall |-> drain.before, at |-> now]

\* chip_to_wall.
ToWall(anchor, stamp) == anchor.wall + (stamp - anchor.chip)

\* A drain went to its end: what a loss left half-assembled is gone.
Settled == [ghost EXCEPT !.hurt = IF @ > 0 THEN @ - 1 ELSE 0]

\* The two loss counters, as one, modulo more than can be lost between two bursts.
CountWrap == 16
More(counted) == (counted + 1) % CountWrap

\* A read that returned 0, or 1 for an overflow, which is counted whether or not
\* the drain delivered anything.
Delivered(ovf) == [rd EXCEPT !.errs = 0, !.counted = IF ovf THEN More(@) ELSE @]

\* The wait is over, and the part says how many words it holds.
ReadStatus ==
    /\ drain.pc = "wait" /\ ~rd.stop /\ bus = "ok"
    /\ chip' = [chip EXCEPT !.ovr = FALSE]
    /\ drain' = IF chip.first = chip.next THEN Idle
                ELSE [Idle EXCEPT !.pc = "words", !.before = now, !.words = chip.next - chip.first,
                                  !.ovf = chip.ovr]
    /\ rd' = IF chip.first = chip.next THEN Delivered(chip.ovr) ELSE rd
    /\ UNCHANGED <<now, bus, guard, out, left, ghost>>

\* One transfer of the drain.
Want == IF drain.words < BurstWords THEN drain.words ELSE BurstWords
ReadBlock ==
    /\ drain.pc = "words" /\ drain.words > 0 /\ bus = "ok"
    /\ drain' = [Taken(drain, chip.first, Want) EXCEPT !.words = @ - Want]
    /\ chip' = [chip EXCEPT !.first = @ + Want]
    /\ UNCHANGED <<now, bus, guard, rd, out, left, ghost>>

\* A read that returned -1: counted, and the tenth in a row restarts the part.
Errored(lost) ==
    /\ drain' = [Idle EXCEPT !.pc = IF rd.errs + 1 >= MaxErrors THEN "recover" ELSE "wait"]
    /\ rd' = [rd EXCEPT !.errs = @ + 1, !.counted = More(@)]
    /\ ghost' = [ghost EXCEPT !.adrift = @ \/ lost \/ drain.ovf, !.hurt = IF lost THEN Max({@, 2}) ELSE @]

\* A transfer fails on a bus that otherwise works, or because the bus is dead.  The
\* part may have given up the words of a failed block all the same.
Fails == IF bus = "dead" THEN left' = left
         ELSE left.faults > 0 /\ left' = [left EXCEPT !.faults = @ - 1]
StatusFails ==
    /\ drain.pc = "wait" /\ ~rd.stop /\ Fails /\ Errored(FALSE)
    /\ UNCHANGED <<now, bus, chip, guard, out>>
Begun == drain.sets # <<>> \/ drain.accel # None \/ drain.gyro # None \/ drain.idx # None
BlockFails ==
    /\ drain.pc = "words" /\ drain.words > 0 /\ Fails
    /\ \E taken \in {0, Want} :
          /\ chip' = [chip EXCEPT !.first = @ + taken]
          /\ Errored(taken > 0 \/ Begun)
    /\ UNCHANGED <<now, bus, guard, out>>

\* The drain is over.  Nothing made a set: an empty burst, skipped.
NothingPaired ==
    /\ drain.pc = "words" /\ drain.words = 0 /\ drain.sets = <<>>
    /\ drain' = Idle /\ rd' = Delivered(drain.ovf) /\ ghost' = Settled
    /\ UNCHANGED <<now, bus, chip, guard, out, left>>

Publish(newest, anchor, judged) ==
    /\ rd' = [Delivered(drain.ovf) EXCEPT !.anchor = anchor]
    /\ out' = [sets |-> drain.sets, newest |-> newest, wall |-> ToWall(anchor, IF newest = 0 THEN 0 ELSE newest - (Len(drain.sets) - 1)),
               start |-> chip.start, counted |-> rd'.counted, was |-> ghost', judged |-> judged]
    /\ drain' = Idle

\* The counter is read after the drain, the burst is stamped, anchored if it is
\* time, and pushed.
Finish ==
    /\ drain.pc = "words" /\ drain.words = 0 /\ drain.sets # <<>> /\ bus = "ok"
    /\ \E counter \in BadCounters \union {Counter} :
          /\ counter # Counter => left.bad > 0
          /\ left' = [left EXCEPT !.bad = IF counter = Counter THEN @ ELSE @ - 1]
          /\ LET g == Stamped(drain, counter)
             IN /\ guard' = g
                /\ LET adrift == IF Unjudged(drain, counter) THEN counter # Counter ELSE ghost.adrift
                   IN ghost' = [Settled EXCEPT !.bad = IF counter = Counter THEN @ ELSE @ + 1, !.adrift = adrift,
                                    !.stale = IF AnchorDue THEN adrift ELSE @,
                                    !.late = Max({@, now - drain.before, Counter - LastSlot(drain)})]
                /\ Publish(g.last, IF AnchorDue THEN AnchorOn(g.last) ELSE rd.anchor, ~Unjudged(drain, counter))
    /\ UNCHANGED <<now, bus, chip>>

\* The counter cannot be read: the samples keep the stamp 0 they were made with.
FinishUnstamped ==
    /\ drain.pc = "words" /\ drain.words = 0 /\ drain.sets # <<>>
    /\ Fails
    /\ ghost' = [Settled EXCEPT !.stale = @ \/ AnchorDue, !.adrift = TRUE]
    /\ Publish(0, IF AnchorDue THEN AnchorOn(0) ELSE rd.anchor, FALSE)
    /\ UNCHANGED <<now, bus, chip, guard>>

\* Failed resets in a row.
Failures(ok) == IF ok THEN 0 ELSE rd.fails + 1

\* reset and init.  Either may fail, before or after the part has stopped.  Only
\* a success clears what the driver remembers of the part; the anchor stays.
Recover ==
    /\ drain.pc = "recover"
    /\ \E how \in {"ok", "untouched", "stopped"} :
          /\ how # "untouched" => bus = "ok"
          /\ how # "ok" => Fails
          /\ how = "ok" => left' = left
          /\ chip' = IF how = "ok" THEN [start |-> now, on |-> TRUE, first |-> 0, next |-> 0, ovr |-> FALSE]
                     ELSE IF how = "stopped" THEN [chip EXCEPT !.on = FALSE, !.first = chip.next, !.ovr = FALSE]
                     ELSE chip
          /\ guard' = IF how = "ok" THEN NoGuard ELSE guard
          /\ LET fails == Failures(how = "ok")
             IN rd' = [rd EXCEPT !.errs = 0, !.fails = fails, !.stop = fails >= MaxFailures]
          /\ ghost' = IF how = "ok" THEN [ghost EXCEPT !.stale = rd.anchor.valid, !.adrift = FALSE, !.hurt = 0]
                      ELSE ghost
    /\ drain' = Idle
    /\ UNCHANGED <<now, bus, out>>

Stopped == rd.stop /\ UNCHANGED vars

Read == \/ ReadStatus \/ ReadBlock \/ StatusFails \/ BlockFails \/ NothingPaired
        \/ Finish \/ FinishUnstamped \/ Recover

Next == Tick \/ Die \/ Read \/ Stopped

\* The reader is a thread that runs whenever it can: each wait has a deadline.
Spec == Init /\ [][Next]_vars /\ WF_vars(Read)
(* ------------------------------- properties ------------------------------ *)

\* Types and bounds.
TypeOK ==
    /\ now \in 0..Horizon /\ bus \in {"ok", "dead"}
    /\ chip.first <= chip.next /\ chip.next - chip.first <= FifoWords
    /\ drain.pc \in {"wait", "words", "recover"} /\ drain.words \in 0..FifoWords
    /\ guard.refusals \in 0..MaxRefusals /\ rd.errs \in 0..MaxErrors /\ rd.fails \in 0..MaxFailures

Burst(burst) == burst.sets # <<>>
NextBurst == out' # out /\ Burst(out) /\ out'.start = out.start

\* A sample's acceleration and rotation are of one slot.  Words lost to an
\* overflow or a failed transfer put them out of step, for the drain they were
\* lost in and the next at most: what is half-assembled at the end of a drain is
\* dropped (ism330dhcx.c ism_read).
PairsRecover ==
    Burst(out) /\ out.was.hurt = 0 => \A i \in DOMAIN out.sets : out.sets[i].accel = out.sets[i].gyro

\* No sample goes missing silently: if a burst does not go on where the last one
\* ended, the overflow or error count has grown, or the part still holds the flag
\* (imu.c fifo_overflow_count, imu_error_count).
LossCounted ==
    [][ (NextBurst /\ out'.sets[1].gyro # LastSlot(out) + 1)
        => (out'.counted # out.counted \/ chip.ovr) ]_vars

\* How far a stamp may be ahead: as long as the longest drain, and by the slack for
\* each bad counter read that was not noticed.
Ahead(was) == was.late + was.bad * Slack

\* A stamp says when its sample was taken, up to that.  Overflows, long drains, bursts
\* with and without a batched timestamp do not move it further; only sets the guard
\* was not shown do, or a guard seeded from a bad read (chip_ts.h, st_fifo_ts.h).
StampsTrack ==
    (Burst(out) /\ out.newest # 0 /\ ~out.was.adrift) =>
        out.newest - LastSlot(out) \in -1 .. Ahead(out.was)

\* The stamps increase from burst to burst, whichever of the two ways each was
\* stamped and whatever one bad counter read returned, as long as a drain is short
\* against the jitter bound; only a burst that starts the guard again may step
\* back (chip_ts.h).
StampsIncrease ==
    [][ (NextBurst /\ out'.judged /\ out'.was.late < Jitter /\ out.newest # 0 /\ ~out.was.adrift)
        => out'.newest - (Len(out'.sets) - 1) > out.newest ]_vars

\* The wall time of a sample is when it was taken, within the same bounds, before and
\* after each new anchor, unless words were lost between it and the newest of its
\* burst: stamps step back by a period to a sample, and know of no gap (imu_math.c
\* anchor_update, chip_to_wall).
WallOff(i) == (out.wall + i - 1) - (out.start + out.sets[i].gyro)
WallHonest ==
    (Burst(out) /\ out.newest # 0 /\ ~out.was.adrift /\ ~out.was.stale) =>
        \A i \in DOMAIN out.sets :
            (LastSlot(out) - out.sets[i].gyro = Len(out.sets) - i) => WallOff(i) \in -(1 + Ahead(out.was)) .. (1 + Ahead(out.was))

\* A bus that answers nothing any more ends the daemon, and does not leave it
\* running without samples (imu.c ism_reader_thread, the third failed reset).
DeadBusStops == (bus = "dead") ~> rd.stop

\* A sample is what it says: its halves of one instant, and its times true, on the
\* part's clock and on the wall's.
SamplesTrue == TypeOK /\ PairsRecover /\ StampsTrack /\ WallHonest

\* Burst follows burst: no gap that is not counted, no stamp that steps back.
BurstsFollow == LossCounted /\ StampsIncrease
=============================================================================
