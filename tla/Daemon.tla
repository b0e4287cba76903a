-------------------------------- MODULE Daemon --------------------------------
(***************************************************************************)
(* The life of the daemon: main() of src/src/main.c opens the sensors and  *)
(* the outputs, creates the threads one by one, waits for signals (or for  *)
(* the end of a replay), and takes everything down again; with it the part *)
(* of src/src/output.c that the order of those steps is about.  Any open   *)
(* and any pthread_create may fail, the readers give up after three failed *)
(* resets, the recorder stops when its storage does.                       *)
(*                                                                         *)
(* What each thread does while it runs is left to the other modules; here  *)
(* a thread runs until it sees its stop flag.  The exception is the        *)
(* high-rate output, whose packets are told from the shutdown packet that  *)
(* main sends on the same socket.                                          *)
(***************************************************************************)
EXTENDS Naturals, Sequences

CONSTANTS
    Configurations,   \* sets of optional threads a configuration can ask for
    DrainPolls,       \* REPLAY_DRAIN_MAX_MS / REPLAY_POLL_MS
    MaxReloads        \* bound on the SIGHUPs of a behaviour

Optional == {"mag", "capture", "nmea", "hirate", "stream", "position"}

ASSUME ConfigurationsAssumption == Configurations \subseteq SUBSET Optional
ASSUME BoundsAssumption == DrainPolls \in Nat /\ MaxReloads \in Nat

VARIABLES
    want, replay,       \* the configuration, and --replay
    mpc, at, todo,      \* main: where it is, next thread to create, joins owed
    rc, ready,          \* exit_rc, READY=1 has been sent
    th,                 \* each thread: none, running, exited, joined
    flag,               \* stop flags: main's stop, pos_ctx, out_ctx, imu_ctx
    imuOpen, outOpen,   \* the contexts are allocated
    socks, enabled,     \* nmea and hirate: sockets open, cfg.*_enabled
    files,              \* what exists in /run/imud: pid, status, stream
    term, reloads, hup, \* pending SIGTERM/SIGINT, SIGHUPs sent, one pending
    playback, draining, polls,   \* replay: the sim driver, replay_watch_t
    hpc, wire,          \* hirate: place in its loop, what its socket carried
    failed              \* history: the thread whose creation was fatal

environment == <<want, replay>>
mainVars    == <<mpc, at, todo, rc, ready>>
resources   == <<imuOpen, outOpen, socks, enabled, files>>
signals     == <<term, reloads, hup>>
replayVars  == <<playback, draining, polls>>
packets     == <<hpc, wire>>
vars == <<environment, mainVars, th, flag, resources, signals, replayVars, packets, failed>>

StartOrder == <<"ism", "mag", "fusion", "capture", "health", "nmea", "hirate",
                "stream", "position">>
Threads  == {StartOrder[i] : i \in DOMAIN StartOrder}
Wanted(t) == t \in Threads \ Optional \/ t \in want
Outputs  == {"nmea", "hirate"}        \* the ones that may fail to start

\* The flag each thread's loop tests.
FlagOf == [t \in Threads |->
    CASE t \in {"ism", "mag", "fusion", "capture"} -> "imu"
      [] t \in {"nmea", "hirate", "stream"}        -> "out"
      [] t = "health"                              -> "main"
      [] t = "position"                            -> "pos"]
Flags == {"main", "pos", "out", "imu"}

Init ==
    /\ want \in Configurations /\ replay \in BOOLEAN
    /\ mpc = "open_imu" /\ at = 1 /\ todo = << >> /\ rc = 0 /\ ready = FALSE
    /\ th = [t \in Threads |-> "none"]
    /\ flag = [f \in Flags |-> FALSE]
    /\ imuOpen = FALSE /\ outOpen = FALSE
    /\ socks = {} /\ enabled = want \cap Outputs /\ files = {}
    /\ term = FALSE /\ reloads = 0 /\ hup = FALSE
    /\ playback = "playing" /\ draining = FALSE /\ polls = 0
    /\ hpc = "test" /\ wire = "nothing"
    /\ failed = "none"

Next1 == StartOrder[at]

(* -------------------------------- mutants -------------------------------- *)

\* Bugs the checks must notice: a fatal arm that forgets a reader, a stream whose
\* failure exits 0, a reader that signals its own thread.
UnwindForgetsMag(t) ==
    CASE t = "health" -> <<"fusion", "mag", "ism">> [] t = "ism" -> << >>
      [] OTHER -> <<"ism">>
StreamFails(code, to) ==
    /\ mpc = "create" /\ at <= Len(StartOrder) /\ Next1 = "stream" /\ Wanted("stream")
    /\ mpc' = to /\ rc' = code /\ at' = at + 1
    /\ UNCHANGED <<environment, todo, ready, th, flag, resources, signals, replayVars,
                   packets, failed>>
StreamFailsExits0  == StreamFails(0, "teardown")
ReaderRaises(t) ==
    /\ t \in {"ism", "mag"} /\ th[t] = "running" /\ mpc # "gone"
    /\ th' = [th EXCEPT ![t] = "exited"]
    /\ UNCHANGED <<environment, mainVars, flag, resources, signals, replayVars, packets,
                   failed>>


(* ------------------------------- opening --------------------------------- *)

\* imu_ctx_open: on failure nothing is left open and the process exits 1.
OpenImu ==
    /\ mpc = "open_imu"
    /\ \/ imuOpen' = TRUE /\ mpc' = "open_out" /\ UNCHANGED rc
       \/ mpc' = "gone" /\ rc' = 1 /\ UNCHANGED imuOpen
    /\ UNCHANGED <<environment, at, todo, ready, th, flag, outOpen, socks, enabled, files,
                   signals, replayVars, packets, failed>>

\* out_ctx_open: every configured output is bound before any thread exists; a
\* bind that fails closes the others and unlinks the stream's socket.
OpenOut ==
    /\ mpc = "open_out"
    /\ \/ /\ mpc' = "open_files" /\ outOpen' = TRUE
          /\ socks' = want \cap Outputs /\ files' = want \cap {"stream"}
          /\ UNCHANGED <<imuOpen, rc>>
       \/ /\ mpc' = "gone" /\ rc' = 1 /\ imuOpen' = FALSE
          /\ UNCHANGED <<outOpen, socks, files>>
    /\ UNCHANGED <<environment, at, todo, ready, th, flag, enabled, signals, replayVars,
                   packets, failed>>

\* The status socket and the PID file; either may fail, neither is fatal.
OpenFiles(made) ==
    /\ mpc = "open_files" /\ mpc' = "create"
    /\ files' = files \cup made
    /\ UNCHANGED <<environment, at, todo, rc, ready, th, flag, imuOpen, outOpen, socks,
                   enabled, signals, replayVars, packets, failed>>

(* --------------------------- starting threads ---------------------------- *)

CreateThread ==
    /\ mpc = "create" /\ at <= Len(StartOrder)
    /\ at' = at + 1
    /\ th' = IF Wanted(Next1) THEN [th EXCEPT ![Next1] = "running"] ELSE th
    /\ UNCHANGED <<environment, mpc, todo, rc, ready, flag, resources, signals, replayVars,
                   packets, failed>>

\* The recorder and the position thread: a warning.
CreateFailsWarn ==
    /\ mpc = "create" /\ at <= Len(StartOrder)
    /\ Next1 \in want \cap {"capture", "position"}
    /\ at' = at + 1
    /\ UNCHANGED <<environment, mpc, todo, rc, ready, th, flag, resources, signals,
                   replayVars, packets, failed>>

\* nmea and hirate: a warning, and the output disowned: its flag down for
\* imud-status, its sockets closed (out_ctx_disable_nmea, ..._hirate).
CreateFailsDisable ==
    /\ mpc = "create" /\ at <= Len(StartOrder)
    /\ Next1 \in want \cap Outputs
    /\ at' = at + 1
    /\ enabled' = enabled \ {Next1} /\ socks' = socks \ {Next1}
    /\ UNCHANGED <<environment, mpc, todo, rc, ready, th, flag, imuOpen, outOpen, files,
                   signals, replayVars, packets, failed>>

\* What each fatal arm joins, in its order, after imu_ctx_stop.
UnwindJoins(t) ==
    CASE t = "ism"    -> << >>
      [] t = "mag"    -> <<"ism">>
      [] t = "fusion" -> <<"mag", "ism">>
      [] t = "health" -> <<"fusion", "mag", "ism">>

CreateFailsFatal ==
    /\ mpc = "create" /\ at <= Len(StartOrder)
    /\ Wanted(Next1) /\ Next1 \in {"ism", "mag", "fusion", "health"}
    /\ mpc' = "free" /\ rc' = 1 /\ failed' = Next1
    /\ todo' = UnwindJoins(Next1)
    /\ flag' = [flag EXCEPT !["imu"] = Next1 # "ism"]
    /\ UNCHANGED <<environment, at, ready, th, resources, signals, replayVars, packets>>

\* The stream: fatal, through the ordinary teardown.
CreateFailsStream ==
    /\ mpc = "create" /\ at <= Len(StartOrder)
    /\ Next1 = "stream" /\ Wanted("stream")
    /\ mpc' = "teardown" /\ rc' = 1 /\ failed' = "stream"
    /\ UNCHANGED <<environment, at, todo, ready, th, flag, resources, signals, replayVars,
                   packets>>

\* READY=1 goes out once the threads are running.
NotifyReady ==
    /\ mpc = "create" /\ at > Len(StartOrder)
    /\ ready' = TRUE /\ mpc' = "loop"
    /\ UNCHANGED <<environment, at, todo, rc, th, flag, resources, signals, replayVars,
                   packets, failed>>

(* ------------------------------ the signals ------------------------------ *)

\* SIGTERM, SIGINT and SIGHUP are blocked before the contexts are opened: one
\* that comes during startup stays pending.
SendTerm ==
    /\ ~term /\ mpc # "gone" /\ term' = TRUE
    /\ UNCHANGED <<environment, mainVars, th, flag, resources, reloads, hup, replayVars,
                   packets, failed>>

SendHup ==
    /\ reloads < MaxReloads /\ mpc # "gone"
    /\ reloads' = reloads + 1 /\ hup' = TRUE
    /\ UNCHANGED <<environment, mainVars, th, flag, resources, term, replayVars, packets,
                   failed>>

CatchTerm ==
    /\ mpc = "loop" /\ term
    /\ term' = FALSE /\ mpc' = "teardown"
    /\ UNCHANGED <<environment, at, todo, rc, ready, th, flag, resources, reloads, hup,
                   replayVars, packets, failed>>

\* The reload publishes hot fields only, none of which is among these variables
\* (config_apply_hot; FusionLoop has what it does to fusion).
CatchHup ==
    /\ mpc = "loop" /\ hup /\ hup' = FALSE
    /\ UNCHANGED <<environment, mainVars, th, flag, resources, term, reloads, replayVars,
                   packets, failed>>

\* The capture being replayed runs out, or cannot be read.
PlaybackEnds ==
    /\ replay /\ th["ism"] = "running" /\ playback = "playing"
    /\ playback' \in {"eof", "error"}
    /\ UNCHANGED <<environment, mainVars, th, flag, resources, signals, draining, polls,
                   packets, failed>>

\* replay_poll, when no signal came for REPLAY_POLL_MS: after the end of the
\* file it waits for the ring to empty, but only so long.
ReplayPoll(backlog) ==
    /\ mpc = "loop" /\ replay /\ ~term /\ ~hup /\ playback # "playing"
    /\ \/ /\ playback = "error" /\ ~draining
          /\ mpc' = "teardown" /\ rc' = 1 /\ UNCHANGED <<draining, polls>>
       \/ /\ playback = "eof" \/ draining
          /\ draining' = TRUE
          /\ \/ backlog /\ polls < DrainPolls /\ polls' = polls + 1 /\ UNCHANGED <<mpc, rc>>
             \/ ~(backlog /\ polls < DrainPolls) /\ mpc' = "teardown" /\ rc' = 0
                /\ UNCHANGED polls
    /\ UNCHANGED <<environment, at, todo, ready, th, flag, resources, signals, playback,
                   failed, packets>>

(* -------------------------------- teardown ------------------------------- *)

\* One stage of step 12: when the joins of the last stage are done, raise a
\* flag and owe the next joins.
Stage(from, f, joins, to) ==
    /\ mpc = from /\ todo = << >> /\ mpc' = to
    /\ flag' = [flag EXCEPT ![f] = TRUE] /\ todo' = joins
    /\ UNCHANGED <<environment, at, rc, ready, th, resources, signals, replayVars, packets,
                   failed>>

StopMain      == Stage("teardown", "main", << >>, "shutdown")
StopPosition  == Stage("position", "pos", <<"position">>, "outputs")
StopOutputs   == Stage("outputs", "out", <<"nmea", "hirate", "stream">>, "sensors")
StopSensors   == Stage("sensors", "imu",
                       <<"health", "fusion", "mag", "ism", "capture">>, "free")

\* out_ctx_send_shutdown, from main, while the high-rate thread still runs.
SendShutdown ==
    /\ mpc = "shutdown" /\ mpc' = "position"
    /\ wire' = IF "hirate" \in socks THEN "shutdown" ELSE wire
    /\ UNCHANGED <<environment, at, todo, rc, ready, th, flag, resources, signals,
                   replayVars, hpc, failed>>

\* pthread_join blocks until the thread has returned; a thread that was not
\* started is passed over.
Join ==
    /\ todo # << >> /\ th[Head(todo)] \in {"none", "exited"}
    /\ todo' = Tail(todo)
    /\ th' = IF th[Head(todo)] = "none" THEN th ELSE [th EXCEPT ![Head(todo)] = "joined"]
    /\ UNCHANGED <<environment, mpc, at, rc, ready, flag, resources, signals, replayVars,
                   packets, failed>>

\* out_ctx_free then imu_ctx_free.
FreeContexts ==
    /\ mpc = "free" /\ todo = << >> /\ mpc' = "unlink"
    /\ outOpen' = FALSE /\ imuOpen' = FALSE /\ socks' = {} /\ files' = files \ {"stream"}
    /\ UNCHANGED <<environment, at, todo, rc, ready, th, flag, enabled, signals, replayVars,
                   packets, failed>>

\* The status socket, the PID file, and the return from main.
UnlinkFiles ==
    /\ mpc = "unlink" /\ mpc' = "gone"
    /\ files' = files \ {"status", "pid"}
    /\ UNCHANGED <<environment, at, todo, rc, ready, th, flag, imuOpen, outOpen, socks,
                   enabled, signals, replayVars, packets, failed>>

(* ------------------------------- the threads ----------------------------- *)

Alive(t) == th[t] = "running" /\ mpc # "gone"

\* The loop tests its flag and the thread returns.
ThreadStops(t) ==
    /\ Alive(t) /\ flag[FlagOf[t]]
    /\ t = "hirate" => hpc = "test"
    /\ th' = [th EXCEPT ![t] = "exited"]
    /\ UNCHANGED <<environment, mainVars, flag, resources, signals, replayVars, packets,
                   failed>>

\* Three failed chip resets: a process-directed SIGTERM, and the reader leaves.
ReaderGivesUp(t) ==
    /\ t \in {"ism", "mag"} /\ Alive(t)
    /\ term' = TRUE /\ th' = [th EXCEPT ![t] = "exited"]
    /\ UNCHANGED <<environment, mainVars, flag, resources, reloads, hup, replayVars,
                   packets, failed>>

\* The capture file cannot be opened, or a write fails: recording stops, the
\* daemon goes on.
RecorderGivesUp ==
    /\ Alive("capture") /\ th' = [th EXCEPT !["capture"] = "exited"]
    /\ UNCHANGED <<environment, mainVars, flag, resources, signals, replayVars, packets,
                   failed>>

\* while (!stop) { sleep; if settled, sendto }: the flag is tested before the
\* sleep, so one packet can follow it.
HirateTest ==
    /\ Alive("hirate") /\ hpc = "test" /\ ~flag["out"] /\ hpc' = "tick"
    /\ UNCHANGED <<environment, mainVars, th, flag, resources, signals, replayVars, wire,
                   failed>>

HirateTick(settled) ==
    /\ Alive("hirate") /\ hpc = "tick" /\ hpc' = "test"
    /\ wire' = IF ~settled THEN wire
               ELSE IF wire \in {"nothing", "data"} THEN "data" ELSE "data after shutdown"
    /\ UNCHANGED <<environment, mainVars, th, flag, resources, signals, replayVars, failed>>

Main ==
    \/ OpenImu \/ OpenOut \/ \E made \in SUBSET {"status", "pid"} : OpenFiles(made)
    \/ CreateThread \/ CreateFailsWarn \/ CreateFailsDisable \/ CreateFailsFatal
    \/ CreateFailsStream \/ NotifyReady \/ CatchTerm \/ CatchHup
    \/ \E backlog \in BOOLEAN : ReplayPoll(backlog)
    \/ StopMain \/ SendShutdown \/ StopPosition \/ StopOutputs \/ StopSensors
    \/ Join \/ FreeContexts \/ UnlinkFiles
HirateLoop == HirateTest \/ \E settled \in BOOLEAN : HirateTick(settled)
ReaderFails == ReaderGivesUp("ism") \/ ReaderGivesUp("mag")
Terminated == mpc = "gone" /\ UNCHANGED vars

Next == \/ Main \/ HirateLoop \/ RecorderGivesUp \/ ReaderFails
        \/ \E t \in Threads : ThreadStops(t)
        \/ SendTerm \/ SendHup \/ PlaybackEnds \/ Terminated

Spec == Init /\ [][Next]_vars

\* Every thread is scheduled and each of its waits is bounded.  Signals,
\* failures and the end of a capture need not come.
FairSpec == Spec /\ WF_vars(Main) /\ WF_vars(HirateLoop)
                 /\ \A t \in Threads : WF_vars(ThreadStops(t))

-----------------------------------------------------------------------------

\* Types of main's locals, the contexts' flags and the sockets.
TypeOK ==
    /\ want \in SUBSET Optional /\ replay \in BOOLEAN
    /\ mpc \in {"open_imu", "open_out", "open_files", "create", "loop", "teardown",
                "shutdown", "position", "outputs", "sensors", "free", "unlink", "gone"}
    /\ at \in 1 .. Len(StartOrder) + 1 /\ todo \in Seq(Threads)
    /\ rc \in {0, 1} /\ ready \in BOOLEAN
    /\ th \in [Threads -> {"none", "running", "exited", "joined"}]
    /\ flag \in [Flags -> BOOLEAN]
    /\ imuOpen \in BOOLEAN /\ outOpen \in BOOLEAN
    /\ socks \subseteq Outputs /\ enabled \subseteq Outputs
    /\ files \subseteq {"status", "pid", "stream"}
    /\ term \in BOOLEAN /\ hup \in BOOLEAN /\ reloads \in 0 .. MaxReloads
    /\ playback \in {"playing", "eof", "error"} /\ draining \in BOOLEAN
    /\ polls \in 0 .. DrainPolls
    /\ hpc \in {"test", "tick"}
    /\ wire \in {"nothing", "data", "shutdown", "data after shutdown"}
    /\ failed \in Threads \cup {"none"}

Running == {t \in Threads : th[t] = "running"}

\* output.h out_ctx_free, imu.h imu_ctx_free: both contexts outlive the threads
\* that use them, on every path through startup and teardown, but for the one
\* arm of main that forgets the recorder, which goes on using what is freed.
FreedAfterJoin ==
    mpc = "unlink" => Running \subseteq (IF failed = "health" THEN {"capture"} ELSE {})

\* READY=1 is told to systemd only by a daemon whose sensor pipeline, health
\* thread and (when asked for) stream were all created.
ReadyMeansStarted ==
    ready => /\ failed = "none"
             /\ \A t \in {"ism", "mag", "fusion", "health", "stream"} :
                    Wanted(t) => th[t] # "none"

\* A start that fails never reports success to the supervisor, whichever of
\* the steps it was that failed.
FailedStartExits1 == (mpc = "gone" /\ ~ready) => rc = 1

\* Every exit path removes the PID file, the status socket and the stream
\* socket, and frees both contexts.
NothingLeftBehind ==
    mpc = "gone" => files = {} /\ socks = {} /\ ~imuOpen /\ ~outOpen

\* Once the daemon is ready, what imud-status says of nmea and hirate, the
\* sockets that are open and the threads that serve them are the same outputs.
OutputsHonest ==
    mpc = "loop" => /\ enabled = socks
                    /\ enabled = {t \in Outputs : th[t] # "none"}

\* A high-rate stream that carried data is announced ended on every way out,
\* and none is announced whose thread never ran.
ShutdownAnnounced ==
    /\ mpc = "gone" => wire # "data"
    /\ wire = "shutdown" => th["hirate"] # "none"

\* A SIGTERM, a reader that gives up or the end of a replay, at any time from
\* the first open on, ends the process, and so does a teardown or an unwinding
\* once it has threads to join: no join, and no drain, waits for ever.
ProcessEnds ==
    (term \/ todo # <<>> \/ playback # "playing" \/ \E t \in {"ism", "mag"} : th[t] = "exited")
        ~> mpc = "gone"

\* What the daemon tells of itself - READY, the exit code, the outputs it
\* reports - is so.
SaysWhatItIs == TypeOK /\ ReadyMeansStarted /\ FailedStartExits1 /\ OutputsHonest

\* Every way out frees what no thread uses any more, removes what the daemon
\* put into the file system, and announces the end of a stream it began.
LeavesCleanly == FreedAfterJoin /\ NothingLeftBehind /\ ShutdownAnnounced
=============================================================================
