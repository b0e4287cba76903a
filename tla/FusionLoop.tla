------------------------------ MODULE FusionLoop ------------------------------
(***************************************************************************)
(* fusion_thread of src/src/imu.c and what it shares with the others: the  *)
(* live configuration under live_lock with its two hand-over flags         *)
(* (reconfigure, mref_update), the settled flag that holds the outputs,    *)
(* the published state, and the SET/RESET note of mag_reader.  Main        *)
(* reloads on SIGHUP, the position thread pushes field invariants and      *)
(* declination, an output thread ticks.                                    *)
(*                                                                         *)
(* A configuration value is the number of the write that made it, so a     *)
(* later value is a larger number; invariants 0 means pos_mref_valid is    *)
(* false.  A step is what a thread does between two accesses to something  *)
(* another thread writes.                                                  *)
(***************************************************************************)
EXTENDS Integers

CONSTANT MaxWrites     \* bound on the configuration writes of a behaviour
ASSUME MaxWritesAssumption == MaxWrites \in Nat

VARIABLES
    livePosition,      \* gpsd or Signal K is enabled; not hot, so it never changes
    cfg,               \* ctx->cfg: tuning, declination, field invariants
    reconfigure, mref_update, settled, mag_set_flag, stop,    \* ctx atomics
    fpc, snap, flt, pkt,   \* fusion: where it is, its snapshot, mekf_t, packet
    shared,            \* ctx->shared.state: attitude, declination, SET mark
    opc, sent,         \* output thread: where it is, attitude last sent
    writes,            \* configuration writes so far
    hotMissed, refMissed, unreported   \* history, see the properties

flags == <<reconfigure, mref_update, settled, mag_set_flag>>
history == <<writes, hotMissed, refMissed, unreported>>
outVars == <<opc, sent>>
vars == <<livePosition, cfg, flags, stop, fpc, snap, flt, pkt, shared, outVars, history>>

Attitudes == {"none", "reset", "aligned"}     \* "none": calloc's zeroes

\* mekf_t: has an attitude, has a heading reference, the invariants the
\* reference was scaled to (0: as measured), the tuning it was derived from.
Filter(init, ref, inv, hot) == [init |-> init, ref |-> ref, inv |-> inv, hot |-> hot]

Init ==
    /\ livePosition \in BOOLEAN
    /\ cfg \in [hot : {1}, decl : {1}, inv : IF livePosition THEN {0} ELSE {0, 1}]
    /\ reconfigure = FALSE /\ mref_update = FALSE
    /\ settled = FALSE /\ mag_set_flag = FALSE /\ stop = FALSE
    /\ fpc = "start" /\ snap = cfg /\ flt = Filter(FALSE, FALSE, 0, 0) /\ pkt = FALSE
    /\ shared = [att |-> "none", decl |-> 0, set |-> FALSE]
    /\ opc = "check" /\ sent = "nothing"
    /\ writes = 1 /\ hotMissed = FALSE /\ refMissed = FALSE /\ unreported = FALSE

Goto(from, to) == fpc = from /\ fpc' = to
KeepOthers == UNCHANGED <<livePosition, cfg, stop, outVars, history>>

\* Fusion has copied the configuration and not yet cleared the flag.
HotWindow == fpc \in {"reconf", "reconfclear"}
RefWindow == HotWindow \/ fpc \in {"mref", "mrefclear"}

(* -------------------------------- mutants -------------------------------- *)

\* The static declination of main's file written over a live one.
UpdateConfigClobbers(hasField) ==
    LET new == writes + 1 IN
    /\ writes < MaxWrites /\ writes' = new
    /\ cfg' = [hot |-> new, decl |-> 1, inv |-> cfg.inv]
    /\ reconfigure' = TRUE /\ hotMissed' = HotWindow
    /\ UNCHANGED <<livePosition, mref_update, settled, mag_set_flag, stop, fpc, snap,
                   flt, pkt, shared, outVars, refMissed, unreported>>
\* A wait that does not test stop.
LeaveNotFromBias ==
    /\ fpc \in {"settle", "top"} /\ stop /\ fpc' = "exit"
    /\ KeepOthers /\ UNCHANGED <<flags, snap, flt, pkt, shared>>
\* A late reference left as measured.
FilterStepKeepsMeasured(acquires) ==
    /\ Goto("filter", "setflag")
    /\ flt' = IF acquires /\ ~flt.ref THEN [flt EXCEPT !.ref = TRUE] ELSE flt
    /\ KeepOthers /\ UNCHANGED <<flags, snap, pkt, shared>>
\* A reset that leaves the outputs released until the next pass.
HoldForgotten ==
    /\ Goto("hold", "setflag")
    /\ KeepOthers /\ UNCHANGED <<flags, snap, flt, pkt, shared>>
\* The mark cleared whether or not the test saw it.
MagSetTestClears ==
    /\ pkt' = mag_set_flag /\ Goto("setflag", "setclear")
    /\ KeepOthers /\ UNCHANGED <<flags, snap, flt, shared>>

(* ---------------------- main and the position thread --------------------- *)

\* imu_ctx_update_config: one critical section, flags included.  A static
\* position brings its declination and, when it has a field, its invariants;
\* with a live source both stay the position thread's.
UpdateConfig(hasField) ==
    LET new == writes + 1
        refToo == ~livePosition /\ hasField IN
    /\ writes < MaxWrites
    /\ writes' = new
    /\ cfg' = [ hot  |-> new,
                decl |-> IF livePosition THEN cfg.decl ELSE new,
                inv  |-> IF refToo THEN new ELSE cfg.inv ]
    /\ reconfigure' = TRUE
    /\ mref_update' = (mref_update \/ refToo)
    /\ hotMissed' = HotWindow
    /\ refMissed' = IF refToo THEN RefWindow ELSE refMissed
    /\ UNCHANGED <<livePosition, settled, mag_set_flag, stop, fpc, snap, flt, pkt,
                   shared, outVars, unreported>>

\* A fix: imu_ctx_set_declination, imu_ctx_set_mag_ref.
SetDeclination ==
    /\ livePosition /\ writes < MaxWrites
    /\ writes' = writes + 1
    /\ cfg' = [cfg EXCEPT !.decl = writes + 1]
    /\ UNCHANGED <<livePosition, flags, stop, fpc, snap, flt, pkt, shared, outVars,
                   hotMissed, refMissed, unreported>>

SetMagRef ==
    /\ livePosition /\ writes < MaxWrites
    /\ writes' = writes + 1
    /\ cfg' = [cfg EXCEPT !.inv = writes + 1]
    /\ mref_update' = TRUE
    /\ refMissed' = RefWindow
    /\ UNCHANGED <<livePosition, reconfigure, settled, mag_set_flag, stop, fpc, snap,
                   flt, pkt, shared, outVars, hotMissed, unreported>>

Stop ==
    /\ ~stop /\ stop' = TRUE
    /\ UNCHANGED <<livePosition, cfg, flags, fpc, snap, flt, pkt, shared, outVars, history>>

\* mag_reader after a SET/RESET pulse.
MagSetReset ==
    /\ mag_set_flag' = TRUE /\ unreported' = TRUE
    /\ UNCHANGED <<livePosition, cfg, reconfigure, mref_update, settled, stop, fpc, snap,
                   flt, pkt, shared, outVars, writes, hotMissed, refMissed>>

(* ----------------------------- fusion_thread ----------------------------- *)

\* cfg_snapshot at thread start, then settling and the gyro bias window, which
\* end when enough samples came.
Start ==
    /\ Goto("start", "settle") /\ snap' = cfg
    /\ KeepOthers /\ UNCHANGED <<flags, flt, pkt, shared>>

StartupDone ==
    \/ /\ Goto("settle", "bias") /\ ~stop
       /\ KeepOthers /\ UNCHANGED <<flags, snap, flt, pkt, shared>>
    \/ /\ Goto("bias", "top") /\ ~stop
       /\ flt' = Filter(FALSE, FALSE, 0, snap.hot)     \* mekf_init
       /\ KeepOthers /\ UNCHANGED <<flags, snap, pkt, shared>>

\* Both waits, and the loop, test stop.
Leave ==
    /\ fpc \in {"settle", "bias", "top"} /\ stop /\ fpc' = "exit"
    /\ KeepOthers /\ UNCHANGED <<flags, snap, flt, pkt, shared>>

\* The head of the loop: with no attitude the outputs are held first.
Top ==
    /\ ~stop
    /\ \/ flt.init  /\ Goto("top", "pop") /\ UNCHANGED settled
       \/ ~flt.init /\ Goto("top", "alignsnap") /\ settled' = FALSE
    /\ KeepOthers
    /\ UNCHANGED <<reconfigure, mref_update, mag_set_flag, snap, flt, pkt, shared>>

AlignSnapshot ==
    /\ Goto("alignsnap", "align") /\ snap' = cfg
    /\ KeepOthers /\ UNCHANGED <<flags, flt, pkt, shared>>

\* The invariants reach a reference only if there is one and they are valid.
SetInvariants(f, inv) == IF f.ref /\ inv > 0 THEN [f EXCEPT !.inv = inv] ELSE f

\* fusion_align with a window that is gravity, with field samples or without
\* (mekf_align: the reference is measured only when there is none).
Align(mag) ==
    /\ Goto("align", "release")
    /\ flt' = SetInvariants([flt EXCEPT !.init = TRUE, !.ref = flt.ref \/ mag], snap.inv)
    /\ KeepOthers /\ UNCHANGED <<flags, snap, pkt, shared>>

\* Stop ended the window, or its mean was nowhere near gravity.
AlignFails ==
    /\ Goto("align", "top")
    /\ KeepOthers /\ UNCHANGED <<flags, snap, flt, pkt, shared>>

Release ==
    /\ Goto("release", "pop") /\ settled' = TRUE
    /\ KeepOthers
    /\ UNCHANGED <<reconfigure, mref_update, mag_set_flag, snap, flt, pkt, shared>>

\* imu_ring_pop: a sample, or the timeout.
Pop ==
    /\ fpc = "pop" /\ fpc' \in {"snapshot", "top"}
    /\ KeepOthers /\ UNCHANGED <<flags, snap, flt, pkt, shared>>

Snapshot ==
    /\ Goto("snapshot", "reconf") /\ snap' = cfg
    /\ KeepOthers /\ UNCHANGED <<flags, flt, pkt, shared>>

\* if (reconfigure) { mekf_reconfigure; reconfigure = 0; }
Reconfigure ==
    /\ \/ reconfigure  /\ Goto("reconf", "reconfclear") /\ flt' = [flt EXCEPT !.hot = snap.hot]
       \/ ~reconfigure /\ Goto("reconf", "mref") /\ UNCHANGED flt
    /\ KeepOthers /\ UNCHANGED <<flags, snap, pkt, shared>>

ReconfigureClear ==
    /\ Goto("reconfclear", "mref") /\ reconfigure' = FALSE
    /\ KeepOthers
    /\ UNCHANGED <<mref_update, settled, mag_set_flag, snap, flt, pkt, shared>>

\* if (mref_update) { mekf_set_mref_invariants; mref_update = 0; }
MrefUpdate ==
    /\ \/ mref_update  /\ Goto("mref", "mrefclear") /\ flt' = SetInvariants(flt, snap.inv)
       \/ ~mref_update /\ Goto("mref", "filter") /\ UNCHANGED flt
    /\ KeepOthers /\ UNCHANGED <<flags, snap, pkt, shared>>

MrefClear ==
    /\ Goto("mrefclear", "filter") /\ mref_update' = FALSE
    /\ KeepOthers
    /\ UNCHANGED <<reconfigure, settled, mag_set_flag, snap, flt, pkt, shared>>

\* mekf_predict, the drained field samples, mekf_update_accel, with a finite
\* result.  Enough field samples give a filter without a reference its own
\* (mref_acquire), scaled like that of an alignment.
FilterStep(acquires) ==
    /\ Goto("filter", "setflag")
    /\ flt' = IF acquires /\ ~flt.ref
              THEN SetInvariants([flt EXCEPT !.ref = TRUE], snap.inv) ELSE flt
    /\ KeepOthers /\ UNCHANGED <<flags, snap, pkt, shared>>

\* mekf_sanitize found a value that is not finite and reset the filter.
Sanitize ==
    /\ Goto("filter", "hold")
    /\ flt' = Filter(FALSE, FALSE, 0, flt.hot)
    /\ KeepOthers /\ UNCHANGED <<flags, snap, pkt, shared>>

Hold ==
    /\ Goto("hold", "setflag") /\ settled' = FALSE
    /\ KeepOthers
    /\ UNCHANGED <<reconfigure, mref_update, mag_set_flag, snap, flt, pkt, shared>>

\* if (mag_set_flag) { the packet carries the mark; mag_set_flag = 0; }
MagSetTest ==
    /\ pkt' = mag_set_flag
    /\ \/ mag_set_flag  /\ Goto("setflag", "setclear")
       \/ ~mag_set_flag /\ Goto("setflag", "publish")
    /\ KeepOthers /\ UNCHANGED <<flags, snap, flt, shared>>

MagSetClear ==
    /\ Goto("setclear", "publish") /\ mag_set_flag' = FALSE
    /\ KeepOthers
    /\ UNCHANGED <<reconfigure, mref_update, settled, snap, flt, pkt, shared>>

Publish ==
    /\ Goto("publish", "top")
    /\ shared' = [ att  |-> IF flt.init THEN "aligned" ELSE "reset",
                   decl |-> snap.decl, set |-> pkt ]
    /\ unreported' = (unreported /\ ~pkt)
    /\ UNCHANGED <<livePosition, cfg, stop, outVars, writes, hotMissed, refMissed,
                   flags, snap, flt, pkt>>

(* ---------------------- a tick of an output thread ----------------------- *)

OutputCheck ==
    /\ opc = "check" /\ settled /\ opc' = "send"
    /\ UNCHANGED <<livePosition, cfg, flags, stop, fpc, snap, flt, pkt, shared, sent, history>>

\* imu_get_state, under shared.lock, then the datagram, sentence or stream.
OutputSend ==
    /\ opc = "send" /\ opc' = "check" /\ sent' = shared.att
    /\ UNCHANGED <<livePosition, cfg, flags, stop, fpc, snap, flt, pkt, shared, history>>

Others == \/ \E field \in BOOLEAN : UpdateConfig(field)
          \/ SetDeclination \/ SetMagRef \/ Stop \/ MagSetReset
Fusion == \/ Start \/ StartupDone \/ Leave \/ Top \/ AlignSnapshot
          \/ \E mag \in BOOLEAN : Align(mag) \/ FilterStep(mag)
          \/ AlignFails \/ Release \/ Pop \/ Snapshot \/ Reconfigure
          \/ ReconfigureClear \/ MrefUpdate \/ MrefClear \/ Sanitize \/ Hold
          \/ MagSetTest \/ MagSetClear \/ Publish
Output == OutputCheck \/ OutputSend

Terminated == fpc = "exit" /\ opc = "check" /\ UNCHANGED vars

Next == Others \/ Fusion \/ Output \/ Terminated

Spec == Init /\ [][Next]_vars

\* The two threads are scheduled.  Samples need not come, the filter need not
\* stay finite, a window need not be accepted: Pop and Align only return.
FairSpec == Spec /\ WF_vars(Fusion /\ fpc \notin {"settle", "bias"})
                 /\ WF_vars(Leave) /\ WF_vars(Output)

-----------------------------------------------------------------------------

FusionPlaces == {"start", "settle", "bias", "top", "alignsnap", "align", "release",
                 "pop", "snapshot", "reconf", "reconfclear", "mref", "mrefclear",
                 "filter", "hold", "setflag", "setclear", "publish", "exit"}
Configs  == [hot : Nat, decl : Nat, inv : Nat]

TypeOK ==
    /\ livePosition \in BOOLEAN /\ stop \in BOOLEAN /\ pkt \in BOOLEAN
    /\ reconfigure \in BOOLEAN /\ mref_update \in BOOLEAN
    /\ settled \in BOOLEAN /\ mag_set_flag \in BOOLEAN
    /\ cfg \in Configs /\ snap \in Configs
    /\ flt \in [init : BOOLEAN, ref : BOOLEAN, inv : Nat, hot : Nat]
    /\ shared \in [att : Attitudes, decl : Nat, set : BOOLEAN]
    /\ fpc \in FusionPlaces /\ opc \in {"check", "send"}
    /\ sent \in Attitudes \cup {"nothing"}
    /\ writes \in Nat
    /\ hotMissed \in BOOLEAN /\ refMissed \in BOOLEAN /\ unreported \in BOOLEAN

\* The outputs are released only over a filter that has an attitude, except
\* between mekf_sanitize and the store that holds them (imu.c, settled).
SettledMeansAligned == settled => (flt.init \/ fpc = "hold")

Tuned == flt.hot # 0      \* mekf_init has run

\* A reload that does not fall between fusion's copy of the configuration and
\* the clearing of its flag is never lost: once the flag is down the filter is
\* tuned from the live values.
ReloadApplied ==
    (Tuned /\ ~reconfigure /\ ~hotMissed) => flt.hot = cfg.hot

\* The same for the field invariants, though the flag may be consumed while
\* the filter has no heading reference: whichever way the reference is later
\* made (alignment, or the first sample of a late magnetometer), and however
\* often the filter is reset, it carries the live invariants.
ReferenceFollowsPosition ==
    (flt.ref /\ ~mref_update /\ ~refMissed) => flt.inv = cfg.inv

\* The filter is in step with what the rest of the daemon asks of it: released
\* only when aligned, and, once no flag is up, tuned and referred to what the
\* setters handed over, each up to the one race it is exposed to.
FilterInStep ==
    /\ TypeOK /\ SettledMeansAligned
    /\ ReloadApplied /\ ReferenceFollowsPosition

\* A SET/RESET pulse of the magnetometer is marked in some published state:
\* testing and clearing mag_set_flag in two steps loses none.
SetResetNotLost == unreported => (mag_set_flag \/ pkt)

\* What is published while the outputs are released is always an attitude,
\* never the state a reset leaves behind.
PublishedIsAttitude ==
    [][(shared' # shared /\ settled) => shared'.att = "aligned"]_vars

\* Whatever races with a reload, no value goes back to an older one: not the
\* filter's tuning, the published declination, nor the invariants of a heading
\* reference for as long as the filter keeps it.
NeverBackwards ==
    [][ /\ flt'.hot >= flt.hot
        /\ shared'.decl >= shared.decl
        /\ flt'.ref => flt'.inv >= flt.inv ]_vars

\* Every wait of the thread ends when stop is raised.
FusionStops == stop ~> fpc = "exit"
=============================================================================
