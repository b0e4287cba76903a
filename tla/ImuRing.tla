------------------------------- MODULE ImuRing -------------------------------
(***************************************************************************)
(* The hand-over of inertial samples from ism_reader_thread to             *)
(* fusion_thread through the ring of src/src/ring.c: its mutex, its        *)
(* condition variable with the 100 ms deadline of imu_ring_pop, bursts     *)
(* that overwrite the oldest samples, and imu_ctx_stop, which raises the   *)
(* stop flag and broadcasts without taking the mutex.                      *)
(*                                                                         *)
(* Samples are numbered 1, 2, 3, ... in the order the driver returned      *)
(* them.  Each thread has a program counter; a step of the model is what   *)
(* a thread does between two points where another thread's step can matter.*)
(***************************************************************************)
EXTENDS Integers, Sequences

CONSTANTS RingLen,       \* IMU_RING_LEN
          MaxBurst,      \* IMU_DRAIN_MAX: samples one driver read can return
          MaxSamples,    \* bound on the samples read in a behaviour
          MaxOverflows   \* bound on the overflows of the chip's own FIFO

ASSUME RingLenAssumption  == RingLen \in Nat \ {0}
ASSUME MaxBurstAssumption == MaxBurst \in Nat \ {0}
ASSUME BoundsAssumption == MaxSamples \in Nat /\ MaxOverflows \in Nat

RB == INSTANCE RingBuffer WITH Size <- RingLen

VARIABLES
    ring,                  \* ctx->imu_ring
    lock,                  \* holder of ring.lock: "free", "reader" or "fusion"
    stop,                  \* ctx->stop
    rpc, burst, left, dropped,     \* ism_reader: where it is, n, n - i, locals
    fifo_overflow_count, imu_sample_count,   \* ctx totals the reader keeps
    fpc, expired, out,     \* fusion: where it is, deadline passed, last sample
    mpc,                   \* main: inside imu_ctx_stop or not
    accepted, consumed, overwritten,  \* history: samples stored, popped, lost
    hwOverflows            \* history: overflows of the chip's FIFO

ringVars    == <<ring, accepted, overwritten>>
readerVars  == <<rpc, burst, left, dropped, fifo_overflow_count, imu_sample_count,
                 hwOverflows>>
fusionVars  == <<fpc, expired, out, consumed>>
vars == <<ring, lock, stop, rpc, burst, left, dropped, fifo_overflow_count,
          imu_sample_count, fpc, expired, out, mpc, accepted, consumed, overwritten,
          hwOverflows>>

Init ==
    /\ ring = RB!EmptyRing(0)
    /\ lock = "free"
    /\ stop = FALSE
    /\ rpc = "read" /\ burst = 0 /\ left = 0 /\ dropped = 0
    /\ fifo_overflow_count = 0 /\ imu_sample_count = 0
    /\ fpc = "top" /\ expired = FALSE /\ out = 0
    /\ mpc = "running"
    /\ accepted = 0 /\ consumed = 0 /\ overwritten = 0 /\ hwOverflows = 0

(* -------------------------------- mutants -------------------------------- *)

\* Bugs the checks must notice: the burst's losses not added to the totals, and
\* `count == 0 || !*stop` as the condition of the wait.
ReaderCountForgetsDropped ==
    /\ rpc = "count"
    /\ imu_sample_count' = imu_sample_count + burst
    /\ rpc' = "read" /\ burst' = 0 /\ dropped' = 0
    /\ UNCHANGED <<ringVars, lock, stop, left, fifo_overflow_count, fusionVars, mpc,
                   hwOverflows>>
PopCheckWaitsForStop ==
    /\ fpc = "check"
    /\ fpc' = IF RB!IsEmpty(ring) \/ ~stop THEN "wait" ELSE "take"
    /\ UNCHANGED <<ringVars, lock, stop, readerVars, expired, out, consumed, mpc>>

(* --------------------------- ism_reader_thread --------------------------- *)

\* The head of the reader loop: leave when stop is up.
ReaderExit ==
    /\ rpc = "read" /\ stop
    /\ rpc' = "exit"
    /\ UNCHANGED <<ring, lock, stop, burst, left, dropped, fifo_overflow_count,
                   imu_sample_count, fusionVars, mpc, accepted, overwritten, hwOverflows>>

\* The driver returned n samples, and rc = 1 when the chip's FIFO had
\* overflowed, which is counted even when the drain is empty.  Stop is tested
\* before the read, so a burst may still follow it.
ReaderBurst(n, rc) ==
    /\ rpc = "read"
    /\ accepted + n <= MaxSamples /\ hwOverflows + rc <= MaxOverflows
    /\ hwOverflows' = hwOverflows + rc
    /\ fifo_overflow_count' = fifo_overflow_count + rc
    /\ rpc' = IF n > 0 THEN "lock" ELSE "read"
    /\ burst' = n /\ left' = n /\ dropped' = 0
    /\ UNCHANGED <<ring, lock, stop, imu_sample_count, fusionVars, mpc, accepted,
                   overwritten>>

PushLock ==
    /\ rpc = "lock" /\ lock = "free"
    /\ lock' = "reader" /\ rpc' = "push"
    /\ UNCHANGED <<ring, stop, burst, left, dropped, fifo_overflow_count,
                   imu_sample_count, fusionVars, mpc, accepted, overwritten, hwOverflows>>

\* One iteration of the loop of imu_ring_push, under the lock.
PushStep ==
    /\ rpc = "push" /\ left > 0
    /\ ring' = RB!PushOne(ring, accepted + 1)
    /\ accepted' = accepted + 1
    /\ left' = left - 1
    /\ IF RB!IsFull(ring)
       THEN dropped' = dropped + 1 /\ overwritten' = overwritten + 1
       ELSE UNCHANGED <<dropped, overwritten>>
    /\ UNCHANGED <<lock, stop, rpc, burst, fifo_overflow_count, imu_sample_count,
                   fusionVars, mpc, hwOverflows>>

PushUnlock ==
    /\ rpc = "push" /\ left = 0
    /\ lock' = "free" /\ rpc' = "signal"
    /\ UNCHANGED <<ringVars, stop, burst, left, dropped, fifo_overflow_count,
                   imu_sample_count, fusionVars, mpc, hwOverflows>>

\* A wakeup reaches the fusion thread only while it is blocked.
WakeFusion == fpc' = IF fpc = "blocked" THEN "relock" ELSE fpc

\* pthread_cond_signal after the unlock, then the reader's totals.
PushSignal ==
    /\ rpc = "signal"
    /\ WakeFusion
    /\ rpc' = "count"
    /\ UNCHANGED <<ringVars, lock, stop, burst, left, dropped, fifo_overflow_count,
                   imu_sample_count, expired, out, consumed, mpc, hwOverflows>>

ReaderCount ==
    /\ rpc = "count"
    /\ fifo_overflow_count' = fifo_overflow_count + dropped
    /\ imu_sample_count' = imu_sample_count + burst
    /\ rpc' = "read" /\ burst' = 0 /\ dropped' = 0
    /\ UNCHANGED <<ringVars, lock, stop, left, fusionVars, mpc, hwOverflows>>

(* ----------------------------- fusion_thread ----------------------------- *)

\* The head of the fusion loop, then a new deadline: host_cond_deadline(100).
FusionTop ==
    /\ fpc = "top"
    /\ fpc' = IF stop THEN "exit" ELSE "lock"
    /\ expired' = FALSE
    /\ UNCHANGED <<ringVars, lock, stop, readerVars, out, consumed, mpc>>

PopLock ==
    /\ fpc \in {"lock", "relock"} /\ lock = "free"
    /\ lock' = "fusion" /\ fpc' = "check"
    /\ UNCHANGED <<ringVars, stop, readerVars, expired, out, consumed, mpc>>

\* while (r->count == 0 && !*stop): stop is read here, before the wait begins.
PopCheck ==
    /\ fpc = "check"
    /\ fpc' = IF RB!IsEmpty(ring) /\ ~stop THEN "wait" ELSE "take"
    /\ UNCHANGED <<ringVars, lock, stop, readerVars, expired, out, consumed, mpc>>

\* pthread_cond_timedwait releases the mutex and blocks in one step.
PopWait ==
    /\ fpc = "wait"
    /\ fpc' = "blocked" /\ lock' = "free"
    /\ UNCHANGED <<ringVars, stop, readerVars, expired, out, consumed, mpc>>

\* POSIX allows a wakeup nobody asked for.
SpuriousWakeup ==
    /\ fpc = "blocked" /\ fpc' = "relock"
    /\ UNCHANGED <<ringVars, lock, stop, readerVars, expired, out, consumed, mpc>>

\* The deadline is absolute: once it has passed it stays passed for this pop.
DeadlinePasses ==
    /\ fpc \in {"lock", "check", "wait", "blocked", "relock"} /\ ~expired
    /\ expired' = TRUE
    /\ UNCHANGED <<ringVars, lock, stop, readerVars, fpc, out, consumed, mpc>>

\* ETIMEDOUT: the wait takes the mutex back, the pop releases it and fails,
\* without looking at the ring again.
PopTimeout ==
    /\ fpc = "blocked" /\ expired /\ lock = "free"
    /\ fpc' = "top"
    /\ UNCHANGED <<ringVars, lock, stop, readerVars, expired, out, consumed, mpc>>

\* After the loop: -1 when the ring is empty, the oldest sample otherwise,
\* even when it was stop that ended the wait.
PopTake ==
    /\ fpc = "take"
    /\ lock' = "free" /\ fpc' = "top"
    /\ IF RB!IsEmpty(ring)
       THEN UNCHANGED <<ring, out, consumed>>
       ELSE /\ out' = RB!Oldest(ring)
            /\ ring' = RB!PopOne(ring)
            /\ consumed' = consumed + 1
    /\ UNCHANGED <<stop, readerVars, expired, mpc, accepted, overwritten>>

(* ------------------------- imu_ctx_stop, in main ------------------------- *)

StopSet ==
    /\ mpc = "running"
    /\ stop' = TRUE /\ mpc' = "broadcast"
    /\ UNCHANGED <<ringVars, lock, readerVars, fusionVars>>

\* pthread_cond_broadcast, with ring.lock not held.
StopBroadcast ==
    /\ mpc = "broadcast"
    /\ WakeFusion
    /\ mpc' = "done"
    /\ UNCHANGED <<ringVars, lock, stop, readerVars, expired, out, consumed>>

AllExited == rpc = "exit" /\ fpc = "exit" /\ mpc = "done"
Terminated == AllExited /\ UNCHANGED vars

Reader == \/ ReaderExit \/ \E n \in 0 .. MaxBurst, rc \in {0, 1} : ReaderBurst(n, rc)
          \/ PushLock \/ PushStep \/ PushUnlock \/ PushSignal \/ ReaderCount
Fusion == \/ FusionTop \/ PopLock \/ PopCheck \/ PopWait \/ PopTimeout \/ PopTake
Main   == StopSet \/ StopBroadcast

Next == Reader \/ Fusion \/ SpuriousWakeup \/ DeadlinePasses \/ Main \/ Terminated

\* Every thread keeps running and time passes.  Nothing makes main call
\* imu_ctx_stop, the chip deliver a sample, or a wakeup come unasked.
Fairness ==
    /\ WF_vars(ReaderExit) /\ WF_vars(PushLock) /\ WF_vars(PushStep)
    /\ WF_vars(PushUnlock) /\ WF_vars(PushSignal) /\ WF_vars(ReaderCount)
    /\ WF_vars(Fusion) /\ WF_vars(DeadlinePasses) /\ WF_vars(StopBroadcast)

Spec == Init /\ [][Next]_vars
FairSpec == Spec /\ Fairness

-----------------------------------------------------------------------------

NumbersOK ==
    /\ ring \in RB!RingType(Nat)
    /\ lock \in {"free", "reader", "fusion"}
    /\ rpc \in {"read", "lock", "push", "signal", "count", "exit"}
    /\ burst \in 0 .. MaxBurst /\ left \in 0 .. MaxBurst /\ dropped \in Nat
    /\ fifo_overflow_count \in Nat /\ imu_sample_count \in Nat
    /\ fpc \in {"top", "lock", "check", "wait", "blocked", "relock", "take", "exit"}
    /\ out \in Nat
    /\ mpc \in {"running", "broadcast", "done"}
    /\ accepted \in Nat /\ consumed \in Nat /\ overwritten \in Nat /\ hwOverflows \in Nat

FlagsOK == stop \in BOOLEAN /\ expired \in BOOLEAN

\* Types of the variables (imu_ring_t, the locals of the two threads).
TypeOK == NumbersOK /\ FlagsOK

\* Only the thread inside its critical section holds ring.lock.
LockHeld ==
    /\ (lock = "reader") <=> (rpc = "push")
    /\ (lock = "fusion") <=> (fpc \in {"check", "wait", "take"})

\* The ring always holds exactly the most recent `count` samples the reader
\* stored, oldest at tail, whatever bursts wrapped over it (ring.c push/pop):
\* no sample is ever duplicated, torn out of order, or lost from the middle.
WindowInv ==
    /\ RB!WellFormed(ring)
    /\ \A k \in 0 .. (RingLen - 1) :
          k < ring.count => ring.buf[RB!SlotOf(ring, k)] = accepted - ring.count + k + 1

\* Every sample the driver delivered is accounted for: it was fused, is still
\* queued, or was overwritten; and between two bursts the totals are exact:
\* fifo_overflow_count is the samples overwritten here and the overflows of
\* the chip's own FIFO, imu_sample_count the samples that reached the ring.
LossAccounted ==
    /\ accepted = consumed + overwritten + ring.count
    /\ fifo_overflow_count + dropped = overwritten + hwOverflows
    /\ imu_sample_count + burst = accepted + left

\* The ring is a sliding window over what the reader stored, and the counters
\* account for all that ever fell out of it, at every step of the two threads.
RingSound == TypeOK /\ WindowInv /\ LossAccounted

\* Fusion sees samples in the order they were read, never one twice, and the
\* number it skipped between two deliveries was already counted as overwritten.
DeliveredInOrder ==
    [][ out' # out => /\ out' > out
                      /\ out' - consumed' = overwritten ]_vars

\* imu_ctx_stop ends both threads, though the broadcast can miss the waiter:
\* the 100 ms deadline bounds the wait (imu.c imu_ctx_stop, ring.c).
StopEndsThreads == stop ~> AllExited

\* A sample in the ring is not slept on: it is fused, or overwritten by a
\* newer one that is, unless the daemon stops first.
SamplesReachFusion ==
    \A i \in 1 .. MaxSamples : (accepted >= i) ~> (out >= i \/ stop)

\* Both: whatever the reader stored is fused or overwritten in the end, and both
\* threads end when they are told to.
ThreadsProgress == SamplesReachFusion /\ StopEndsThreads

LQ == INSTANCE LossyQueue
        WITH Capacity <- RingLen, queue <- RB!Contents(ring)

\* The threads, slots and wakeups implement the lossy queue.
ImplementsQueue == LQ!Spec
=============================================================================
