-------------------------------- MODULE Capture --------------------------------
(***************************************************************************)
(* The recorder: the tap ring that both reader threads push raw records    *)
(* into, the rotating writer, and capture_thread between them              *)
(* (src/src/capture.c, capture_thread of src/src/imu.c).                   *)
(*                                                                         *)
(* A record is its number in the order the ring's mutex admitted it; a     *)
(* file is the second in its name and the order in which files were ever   *)
(* created; a size is a number of records.  A record counts as written     *)
(* once stdio has it: after a power cut a reader sees a prefix of that.    *)
(* The wall clock may be set to anything at any time, and the daemon may   *)
(* be restarted or killed at any time with another max_files; only the     *)
(* directory survives.                                                     *)
(***************************************************************************)
EXTENDS Integers, Sequences, FiniteSets

CONSTANTS
    RingLen,      \* CAP_RING_LEN
    BatchMax,     \* records per cap_ring_pop
    MaxRecs,      \* max_mb, in records; 0 for no limit
    Limits,       \* the max_files a start may find configured; 0 for no limit
    DirMax,       \* names cap_rot_prune can hold, 256
    Bumps,        \* seconds cap_rot_open_file tries, 600
    Clocks,       \* what the wall clock may read
    MaxOffered,   \* bound: records per run of the daemon
    MaxBorn       \* bound: files ever created

ASSUME CaptureAssumption ==
    /\ {RingLen, BatchMax, DirMax, Bumps} \subseteq Nat \ {0}
    /\ {MaxRecs, MaxOffered, MaxBorn} \subseteq Nat
    /\ Limits \subseteq Nat /\ Clocks \subseteq Nat \ {0}
\* Fewer captures than seconds tried: a free name is always found.
ASSUME FreeNameAssumption == Bumps > MaxBorn

VARIABLES
    offered, ring, dropped,      \* the tap: records offered, queued, refused
    pc, batch, failed, stop,     \* capture_thread and the flag it tests
    open, cur, bytes, lastStamp, \* cap_rotator_t: open, cur_path, w.bytes, last_stamp
    maxFiles, unlinks,           \* its limit; whether the directory lets it delete
    files, clock,                \* the directory and the wall clock
    born, first,                 \* history: files ever created, those of earlier runs
    log, atStop                  \* history: records written and the file they are
                                 \* in, what had been offered when stop was raised

tap == <<offered, ring, dropped>>
thread == <<pc, batch, failed>>
rotator == <<open, cur, bytes, lastStamp, maxFiles, unlinks, files, born>>
history == <<first, atStop>>
vars == <<tap, thread, stop, rotator, clock, log, history>>

None == [stamp |-> 0, born |-> 0]

Init ==
    /\ offered = 0 /\ ring = <<>> /\ dropped = 0
    /\ pc = "open" /\ batch = <<>> /\ failed = FALSE /\ stop = FALSE
    /\ open = FALSE /\ cur = None /\ bytes = 0 /\ lastStamp = 0
    /\ maxFiles \in Limits /\ unlinks \in BOOLEAN
    /\ files = {} /\ clock \in Clocks
    /\ born = 0 /\ first = 0 /\ log = <<>> /\ atStop = 0

Later(f, fs) == {g \in fs : g.stamp > f.stamp}

(* -------------------------------- mutants -------------------------------- *)

\* Bugs the checks must notice: a thread that closes as soon as it sees stop, names
\* from the clock alone, and a pruning that keeps one file too few.
LoopThenClose ==
    /\ pc = "loop"
    /\ pc' = IF stop THEN "failed" ELSE "pop"
    /\ UNCHANGED <<tap, batch, failed, stop, rotator, clock, log, history>>
StartAtClock == clock
VictimsOneMore(listed, keep) ==
    {f \in listed : f # keep /\ Cardinality(Later(f, listed)) >= maxFiles - 1}

(* -------------------------------- the tap -------------------------------- *)

\* ring_push, by either reader thread, whole under the mutex: a full ring
\* refuses the newest.
Offer ==
    /\ offered < MaxOffered /\ offered' = offered + 1
    /\ IF Len(ring) = RingLen
       THEN dropped' = dropped + 1 /\ UNCHANGED ring
       ELSE ring' = Append(ring, offered + 1) /\ UNCHANGED dropped
    /\ UNCHANGED <<thread, stop, rotator, clock, log, history>>

\* cap_ring_pop, whole under the mutex.
Take(n) == batch' = SubSeq(ring, 1, n) /\ ring' = SubSeq(ring, n + 1, Len(ring))

(* ------------------------------ the rotator ------------------------------ *)

\* The first second a name is tried for, and the first one that is free.
StartStamp == IF clock <= lastStamp THEN lastStamp + 1 ELSE clock
FreeStamp(start) ==
    CHOOSE t \in start .. start + Bumps - 1 :
        /\ \A f \in files : f.stamp # t
        /\ \A u \in start .. t - 1 : \E f \in files : f.stamp = u

\* cap_rot_prune: of the names it could list, all but the maxFiles latest go,
\* and never the one just opened.
Victims(listed, keep) ==
    {f \in listed : f # keep /\ Cardinality(Later(f, listed)) >= maxFiles}

\* The listing is the whole directory, or any DirMax of its names.
Listings(fs) ==
    IF Cardinality(fs) <= DirMax THEN {fs} ELSE {l \in SUBSET fs : Cardinality(l) = DirMax}

Prune(fs, keep) ==
    IF maxFiles = 0 THEN files' = fs
    ELSE \E listed \in Listings(fs) :
            files' = IF unlinks THEN fs \ Victims(listed, keep) ELSE fs

\* cap_rot_open_file: a new file, in place of one whose name it took, and the
\* rotator's size once n records follow.
OpenFile(n) ==
    LET t == FreeStamp(StartStamp)
        f == [stamp |-> t, born |-> born + 1]
    IN /\ born < MaxBorn /\ born' = born + 1
       /\ cur' = f /\ lastStamp' = t /\ open' = TRUE /\ bytes' = n
       /\ Prune({g \in files : g.stamp # t} \cup {f}, f)
       /\ UNCHANGED <<maxFiles, unlinks>>

\* The same when the file cannot be created.
OpenFails ==
    /\ lastStamp' = FreeStamp(StartStamp) /\ open' = FALSE
    /\ UNCHANGED <<cur, bytes, maxFiles, unlinks, files, born>>

RotationDue == MaxRecs > 0 /\ bytes >= MaxRecs

(* ----------------------------- capture_thread ---------------------------- *)

\* cap_rot_open.
Start ==
    /\ pc = "open"
    /\ \/ OpenFile(0) /\ pc' = "loop"
       \/ OpenFails /\ pc' = "done"
    /\ UNCHANGED <<tap, batch, failed, stop, clock, log, history>>

\* The head of the loop.
Loop ==
    /\ pc = "loop" /\ pc' = IF stop THEN "drain" ELSE "pop"
    /\ UNCHANGED <<tap, batch, failed, stop, rotator, clock, log, history>>

\* A batch, of the loop or of the drain; an empty ring ends the drain.
Pop ==
    /\ pc \in {"pop", "drain"}
    /\ \E n \in {IF Len(ring) < BatchMax THEN Len(ring) ELSE BatchMax} :
          /\ Take(n)
          /\ pc' = IF n > 0 THEN IF pc = "pop" THEN "write" ELSE "drainwrite"
                   ELSE IF pc = "pop" THEN "loop" ELSE "done"
          /\ open' = (open /\ pc' # "done")
    /\ UNCHANGED <<offered, dropped, failed, stop, cur, bytes, lastStamp, maxFiles,
                   unlinks, files, born, clock, log, history>>

Writing == pc \in {"write", "drainwrite"}

\* cap_rot_write of the next record of the batch, rotating first when the file
\* is full; after the last one the thread looks again.
Write ==
    /\ Writing
    /\ IF RotationDue THEN OpenFile(1)
       ELSE bytes' = bytes + 1
            /\ UNCHANGED <<open, cur, lastStamp, maxFiles, unlinks, files, born>>
    /\ log' = Append(log, [rec |-> Head(batch), stamp |-> cur'.stamp])
    /\ batch' = Tail(batch)
    /\ pc' = IF Len(batch) > 1 THEN pc ELSE IF pc = "write" THEN "loop" ELSE "drain"
    /\ UNCHANGED <<tap, failed, stop, clock, history>>

\* The new file or the record could not be written: the rest of the batch is
\* abandoned, and nothing more is tried.
WriteFails ==
    /\ Writing
    /\ \/ RotationDue /\ (OpenFails \/ OpenFile(0))
       \/ ~RotationDue /\ UNCHANGED rotator
    /\ failed' = TRUE /\ batch' = <<>> /\ pc' = "failed"
    /\ UNCHANGED <<tap, stop, clock, log, history>>

\* cap_rot_close after a failure.
Close ==
    /\ pc = "failed" /\ pc' = "done" /\ open' = FALSE
    /\ UNCHANGED <<tap, batch, failed, stop, cur, bytes, lastStamp, maxFiles, unlinks,
                   files, born, clock, log, history>>

Stop ==
    /\ ~stop /\ stop' = TRUE /\ atStop' = offered
    /\ UNCHANGED <<tap, thread, rotator, clock, log, first>>

(* ---------------------------- the environment ---------------------------- *)

ClockSet(c) ==
    /\ clock' = c /\ c # clock
    /\ UNCHANGED <<tap, thread, stop, rotator, log, history>>

\* The process ends, in order or not, and starts again; the daemon's memory is
\* gone and its configuration may be another.
Restart(limit) ==
    /\ pc # "open" /\ pc' = "open"
    /\ offered' = 0 /\ ring' = <<>> /\ dropped' = 0
    /\ batch' = <<>> /\ failed' = FALSE /\ stop' = FALSE
    /\ open' = FALSE /\ cur' = None /\ bytes' = 0 /\ lastStamp' = 0
    /\ maxFiles' = limit /\ first' = born /\ log' = <<>> /\ atStop' = 0
    /\ UNCHANGED <<unlinks, files, clock, born>>

Thread == Start \/ Loop \/ Pop \/ Write \/ WriteFails \/ Close

Next ==
    \/ Offer \/ Thread \/ Stop
    \/ \E c \in Clocks : ClockSet(c)
    \/ \E limit \in Limits : Restart(limit)

Spec == Init /\ [][Next]_vars

-----------------------------------------------------------------------------

FileType == [stamp : Nat, born : 0 .. MaxBorn]

\* Types, and the ring within its length.
TypeOK ==
    /\ offered \in 0 .. MaxOffered /\ dropped \in 0 .. offered /\ atStop \in 0 .. offered
    /\ Len(ring) <= RingLen /\ Len(batch) <= BatchMax
    /\ pc \in {"open", "loop", "pop", "write", "drain", "drainwrite", "failed", "done"}
    /\ {failed, stop, open, unlinks} \subseteq BOOLEAN
    /\ cur \in FileType /\ files \subseteq FileType /\ bytes \in Nat /\ lastStamp \in Nat
    /\ maxFiles \in Limits /\ clock \in Clocks /\ first \in 0 .. born

\* While nothing failed every record a reader offered is written, queued, in
\* hand or counted as dropped: the count in the status is all that is missing.
RecordsAccounted ==
    ~failed => offered = dropped + Len(ring) + Len(batch) + Len(log)

\* What a run recorded reads back in order when its files are read in the order
\* of their names, through rotations, names already taken and a clock that is
\* set back.
ReadBackInOrder ==
    \A i, j \in 1 .. Len(log) :
        i < j => log[i].rec < log[j].rec /\ log[i].stamp <= log[j].stamp

\* What was pushed before stop is in a file when an unfailed writer has ended.
DrainedAtStop ==
    (pc = "done" /\ ~failed /\ cur # None) =>
        \A i \in 1 .. Len(ring) : ring[i] > atStop

\* A file goes only when as many later names stay as the limit says, and never
\* the one being written; this also holds if only part of a large directory
\* could be listed.
OldestNamesGoFirst ==
    [][/\ \A f \in files : (\A g \in files' : g.stamp # f.stamp) =>
              Cardinality(Later(f, files')) >= maxFiles
       /\ open' => cur' \in files']_vars

\* Opening a file leaves the limit and one more, beyond what a single listing
\* cannot hold: the current file is spared when its name is not among the last.
FilesBounded ==
    [][(born' # born /\ maxFiles > 0 /\ unlinks) =>
         \/ Cardinality(files') <= maxFiles + 1
         \/ Cardinality(files') <= Cardinality(files) + 2 + maxFiles - DirMax]_vars

\* No capture is ever opened over an older one.
NothingOverwritten ==
    [][\A f \in files, g \in files' : f.stamp = g.stamp => f = g]_vars

\* No record is lost without being counted, not at stop either.
NothingLostSilently == TypeOK /\ RecordsAccounted /\ DrainedAtStop

\* The directory stays within its limit, and loses neither the current file, nor
\* a later name before an earlier one, nor a file that was there.
FilesSafe == OldestNamesGoFirst /\ FilesBounded /\ NothingOverwritten
=============================================================================
