-------------------------- MODULE FusionLoop_proofs --------------------------
(***************************************************************************)
(* Proofs about FusionLoop for behaviours with any number of configuration *)
(* writes: the outputs are released over attitudes only, reloads and field *)
(* invariants reach the filter and never go backwards, and no SET/RESET    *)
(* mark is lost.  Each property has an inductive invariant of its own,     *)
(* which says what is known at each place of fusion's loop.                *)
(***************************************************************************)
EXTENDS FusionLoop, TLAPS

(* ------------------------------- the types ------------------------------- *)

\* The types of the flags and of the numbers, apart.
FlagTypes ==
    /\ livePosition \in BOOLEAN /\ stop \in BOOLEAN /\ pkt \in BOOLEAN
    /\ reconfigure \in BOOLEAN /\ mref_update \in BOOLEAN
    /\ settled \in BOOLEAN /\ mag_set_flag \in BOOLEAN
    /\ hotMissed \in BOOLEAN /\ refMissed \in BOOLEAN /\ unreported \in BOOLEAN
FilterType == flt \in [init : BOOLEAN, ref : BOOLEAN, inv : Nat, hot : Nat]
ConfigTypes == cfg \in Configs /\ snap \in Configs /\ writes \in Nat
PlaceTypes ==
    /\ fpc \in FusionPlaces /\ opc \in {"check", "send"}
    /\ sent \in Attitudes \cup {"nothing"}
SharedType == shared \in [att : Attitudes, decl : Nat, set : BOOLEAN]

LEMMA TypeParts ==
    TypeOK <=> FlagTypes /\ FilterType /\ ConfigTypes /\ PlaceTypes /\ SharedType
  BY DEF TypeOK, FlagTypes, FilterType, ConfigTypes, PlaceTypes, SharedType

LEMMA InitTypes == Init => TypeOK
<1> SUFFICES ASSUME Init PROVE TypeOK
  OBVIOUS
<1>1. FlagTypes
  BY DEF Init, FlagTypes
<1>2. cfg.hot = 1 /\ cfg.decl = 1 /\ cfg.inv \in {0, 1}
  BY DEF Init
<1>3. ConfigTypes
  BY <1>2 DEF Init, ConfigTypes, Configs
<1>4. FilterType
  BY DEF Init, FilterType, Filter
<1>5. PlaceTypes /\ SharedType
  BY DEF Init, PlaceTypes, SharedType, FusionPlaces, Attitudes
<1> QED BY <1>1, <1>3, <1>4, <1>5, TypeParts

\* The invariants of a reference become those of a configuration, or stay.
LEMMA SetInvariantsType ==
    ASSUME NEW f \in [init : BOOLEAN, ref : BOOLEAN, inv : Nat, hot : Nat], NEW v \in Nat
    PROVE  SetInvariants(f, v) \in [init : BOOLEAN, ref : BOOLEAN, inv : Nat, hot : Nat]
  BY DEF SetInvariants

LEMMA StepTypes == TypeOK /\ [Next]_vars => TypeOK'
<1> SUFFICES ASSUME TypeOK, [Next]_vars PROVE TypeOK'
  OBVIOUS
<1> USE DEF KeepOthers, Goto, flags, history, outVars
<1>1. FlagTypes /\ FilterType /\ ConfigTypes /\ PlaceTypes /\ SharedType
  BY TypeParts
<1>2. CASE Others
  <2>1. CASE \E field \in BOOLEAN : UpdateConfig(field)
    <3>1. PICK field \in BOOLEAN : UpdateConfig(field)
      BY <2>1
    <3>2. FlagTypes'
      BY <1>1, <3>1 DEF UpdateConfig, FlagTypes, HotWindow, RefWindow
    <3>3. ConfigTypes'
      BY <1>1, <3>1 DEF UpdateConfig, ConfigTypes, Configs
    <3>4. FilterType' /\ PlaceTypes' /\ SharedType'
      BY <1>1, <3>1 DEF UpdateConfig, FilterType, PlaceTypes, SharedType
    <3> QED BY <3>2, <3>3, <3>4 DEF TypeOK, FlagTypes, FilterType, ConfigTypes, PlaceTypes, SharedType
  <2>2. CASE SetDeclination \/ SetMagRef
    <3>1. FlagTypes'
      BY <1>1, <2>2 DEF SetDeclination, SetMagRef, FlagTypes, HotWindow, RefWindow
    <3>2. ConfigTypes'
      BY <1>1, <2>2 DEF SetDeclination, SetMagRef, ConfigTypes, Configs
    <3>3. FilterType' /\ PlaceTypes' /\ SharedType'
      BY <1>1, <2>2 DEF SetDeclination, SetMagRef, FilterType, PlaceTypes, SharedType
    <3> QED BY <3>1, <3>2, <3>3 DEF TypeOK, FlagTypes, FilterType, ConfigTypes, PlaceTypes, SharedType
  <2>3. CASE Stop \/ MagSetReset
    <3>1. FlagTypes'
      BY <1>1, <2>3 DEF Stop, MagSetReset, FlagTypes
    <3>2. ConfigTypes' /\ FilterType' /\ PlaceTypes' /\ SharedType'
      BY <1>1, <2>3 DEF Stop, MagSetReset, ConfigTypes, FilterType, PlaceTypes, SharedType
    <3> QED BY <3>1, <3>2 DEF TypeOK, FlagTypes, FilterType, ConfigTypes, PlaceTypes, SharedType
  <2> QED BY <1>2, <2>1, <2>2, <2>3 DEF Others
<1>3. CASE Fusion
  <2>1. FlagTypes'
    <3>1. CASE Publish
      BY <1>1, <3>1 DEF Publish, FlagTypes
    <3>2. CASE MagSetTest
      BY <1>1, <3>2 DEF MagSetTest, FlagTypes
    <3>3. CASE Top \/ Release \/ Hold
      <4>1. CASE Top
        BY <1>1, <4>1 DEF Top, FlagTypes
      <4>2. CASE Release
        BY <1>1, <4>2 DEF Release, FlagTypes
      <4>3. CASE Hold
        BY <1>1, <4>3 DEF Hold, FlagTypes
      <4> QED BY <3>3, <4>1, <4>2, <4>3
    <3>4. CASE ReconfigureClear \/ MrefClear \/ MagSetClear
      <4>1. CASE ReconfigureClear
        BY <1>1, <4>1 DEF ReconfigureClear, FlagTypes
      <4>2. CASE MrefClear
        BY <1>1, <4>2 DEF MrefClear, FlagTypes
      <4>3. CASE MagSetClear
        BY <1>1, <4>3 DEF MagSetClear, FlagTypes
      <4> QED BY <3>4, <4>1, <4>2, <4>3
    <3>5. CASE UNCHANGED <<livePosition, flags, stop, pkt, history>>
      BY <1>1, <3>5 DEF FlagTypes
    <3> QED BY <1>3, <3>1, <3>2, <3>3, <3>4, <3>5 DEF Fusion, Start, StartupDone, Leave,
                AlignSnapshot, Align, AlignFails, Pop, Snapshot, Reconfigure, MrefUpdate,
                FilterStep, Sanitize
  <2>2. ConfigTypes'
    BY <1>1, <1>3 DEF ConfigTypes, Fusion, Start, StartupDone, Leave, Top,
                AlignSnapshot, Align, AlignFails, Release, Pop, Snapshot, Reconfigure, ReconfigureClear, MrefUpdate, MrefClear, FilterStep, Sanitize, Hold,
                MagSetTest, MagSetClear, Publish
  <2>3. FilterType'
    <3>1. ASSUME NEW mag \in BOOLEAN, Align(mag) \/ FilterStep(mag)
          PROVE  FilterType'
      <4>1. snap.inv \in Nat
        BY <1>1 DEF ConfigTypes, Configs
      <4>2. /\ [flt EXCEPT !.init = TRUE, !.ref = flt.ref \/ mag] \in
                   [init : BOOLEAN, ref : BOOLEAN, inv : Nat, hot : Nat]
            /\ [flt EXCEPT !.ref = TRUE] \in
                   [init : BOOLEAN, ref : BOOLEAN, inv : Nat, hot : Nat]
        BY <1>1 DEF FilterType
      <4>3. /\ SetInvariants([flt EXCEPT !.init = TRUE, !.ref = flt.ref \/ mag], snap.inv) \in
                   [init : BOOLEAN, ref : BOOLEAN, inv : Nat, hot : Nat]
            /\ SetInvariants([flt EXCEPT !.ref = TRUE], snap.inv) \in
                   [init : BOOLEAN, ref : BOOLEAN, inv : Nat, hot : Nat]
        BY <4>1, <4>2, SetInvariantsType
      <4> QED BY <1>1, <3>1, <4>3, Zenon DEF Align, FilterStep, FilterType
    <3>2. CASE StartupDone \/ Reconfigure \/ MrefUpdate \/ Sanitize
      <4>1. snap.inv \in Nat /\ snap.hot \in Nat
        BY <1>1 DEF ConfigTypes, Configs
      <4>2. CASE StartupDone
        <5>1. flt' = flt \/ flt' = Filter(FALSE, FALSE, 0, snap.hot)
          BY <4>2 DEF StartupDone, Filter
        <5>2. Filter(FALSE, FALSE, 0, snap.hot) \in
                  [init : BOOLEAN, ref : BOOLEAN, inv : Nat, hot : Nat]
          BY <4>1 DEF Filter
        <5> QED BY <1>1, <5>1, <5>2, Zenon DEF FilterType
      <4>3. CASE Reconfigure
        BY <1>1, <4>1, <4>3 DEF Reconfigure, FilterType
      <4>4. CASE MrefUpdate
        <5>1. SetInvariants(flt, snap.inv) \in [init : BOOLEAN, ref : BOOLEAN, inv : Nat, hot : Nat]
          BY <1>1, <4>1, SetInvariantsType DEF FilterType
        <5> QED BY <1>1, <4>4, <5>1, Zenon DEF MrefUpdate, FilterType
      <4>5. CASE Sanitize
        BY <1>1, <4>5 DEF Sanitize, FilterType, Filter
      <4> QED BY <3>2, <4>2, <4>3, <4>4, <4>5
    <3>3. CASE UNCHANGED flt
      BY <1>1, <3>3 DEF FilterType
    <3> QED BY <1>3, <3>1, <3>2, <3>3 DEF Fusion, Start, Leave, Top, AlignSnapshot, AlignFails,
                Release, Pop, Snapshot, ReconfigureClear, MrefClear, Hold, MagSetTest,
                MagSetClear, Publish
  <2>4. PlaceTypes'
    BY <1>1, <1>3 DEF PlaceTypes, FusionPlaces, Fusion, Start, StartupDone, Leave, Top,
                AlignSnapshot, Align, AlignFails, Release, Pop, Snapshot, Reconfigure, ReconfigureClear, MrefUpdate, MrefClear, FilterStep, Sanitize, Hold,
                MagSetTest, MagSetClear, Publish
  <2>5. SharedType'
    <3>1. CASE Publish
      <4>1. snap.decl \in Nat /\ pkt \in BOOLEAN
        BY <1>1 DEF ConfigTypes, Configs, FlagTypes
      <4> QED BY <3>1, <4>1 DEF Publish, SharedType, Attitudes
    <3>2. CASE UNCHANGED shared
      BY <1>1, <3>2 DEF SharedType
    <3> QED BY <1>3, <3>1, <3>2 DEF Fusion, Start, StartupDone, Leave, Top, AlignSnapshot, Align,
                AlignFails, Release, Pop, Snapshot, Reconfigure, ReconfigureClear, MrefUpdate,
                MrefClear, FilterStep, Sanitize, Hold, MagSetTest, MagSetClear
  <2> QED BY <2>1, <2>2, <2>3, <2>4, <2>5 DEF TypeOK, FlagTypes, FilterType, ConfigTypes, PlaceTypes, SharedType
<1>4. CASE Output \/ Terminated \/ UNCHANGED vars
  <2>1. FlagTypes' /\ ConfigTypes' /\ FilterType' /\ SharedType'
    BY <1>1, <1>4 DEF Output, OutputCheck, OutputSend, Terminated, vars, FlagTypes, ConfigTypes,
                      FilterType, SharedType
  <2>2. PlaceTypes'
    BY <1>1, <1>4 DEF Output, OutputCheck, OutputSend, Terminated, vars, PlaceTypes, SharedType
  <2> QED BY <2>1, <2>2 DEF TypeOK, FlagTypes, FilterType, ConfigTypes, PlaceTypes, SharedType
<1> QED BY <1>2, <1>3, <1>4 DEF Next

\* Every variable keeps its type, however many configurations are written.
THEOREM FusionTypes == Spec => []TypeOK
<1> QED BY InitTypes, StepTypes, PTL DEF Spec

(* --------------- the outputs are released over attitudes ----------------- *)

\* What releases the outputs: never before the first alignment, and only a
\* filter that has an attitude.
SettledInv ==
    /\ SettledMeansAligned
    /\ fpc = "release" => flt.init
    /\ fpc \in {"start", "settle", "bias"} => ~settled

\* Setting the invariants of a reference leaves the rest of the filter.
LEMMA SetInvariantsKeeps ==
    ASSUME NEW f \in [init : BOOLEAN, ref : BOOLEAN, inv : Nat, hot : Nat], NEW v \in Nat
    PROVE  /\ SetInvariants(f, v).init = f.init
           /\ SetInvariants(f, v).ref = f.ref
           /\ SetInvariants(f, v).hot = f.hot
  BY DEF SetInvariants

LEMMA AlignMakes ==
    ASSUME TypeOK, NEW mag \in BOOLEAN, Align(mag)
    PROVE  /\ flt'.init = TRUE /\ flt'.ref = (flt.ref \/ mag) /\ flt'.hot = flt.hot
<1> DEFINE g == [flt EXCEPT !.init = TRUE, !.ref = flt.ref \/ mag]
<1>1. flt \in [init : BOOLEAN, ref : BOOLEAN, inv : Nat, hot : Nat] /\ snap.inv \in Nat
  BY DEF TypeOK, Configs
<1>2. /\ g \in [init : BOOLEAN, ref : BOOLEAN, inv : Nat, hot : Nat]
      /\ g.init = TRUE /\ g.ref = (flt.ref \/ mag) /\ g.hot = flt.hot
  BY <1>1
<1>3. flt' = SetInvariants(g, snap.inv)
  BY DEF Align
<1> HIDE DEF g
<1> QED BY <1>1, <1>2, <1>3, SetInvariantsKeeps

LEMMA FilterStepMakes ==
    ASSUME TypeOK, NEW acquires \in BOOLEAN, FilterStep(acquires)
    PROVE  /\ flt'.init = flt.init /\ flt'.ref = (flt.ref \/ acquires) /\ flt'.hot = flt.hot
<1> DEFINE g == [flt EXCEPT !.ref = TRUE]
<1>1. flt \in [init : BOOLEAN, ref : BOOLEAN, inv : Nat, hot : Nat] /\ snap.inv \in Nat
  BY DEF TypeOK, Configs
<1>2. /\ g \in [init : BOOLEAN, ref : BOOLEAN, inv : Nat, hot : Nat]
      /\ g.init = flt.init /\ g.ref = TRUE /\ g.hot = flt.hot
  BY <1>1
<1>3. flt' = IF acquires /\ ~flt.ref THEN SetInvariants(g, snap.inv) ELSE flt
  BY DEF FilterStep
<1>4. flt.ref \in BOOLEAN
  BY <1>1
<1> HIDE DEF g
<1>5. CASE acquires /\ ~flt.ref
  <2>1. flt' = SetInvariants(g, snap.inv)
    BY <1>3, <1>5
  <2> QED BY <1>1, <1>2, <1>5, <2>1, SetInvariantsKeeps
<1>6. CASE ~(acquires /\ ~flt.ref)
  BY <1>3, <1>4, <1>6
<1> QED BY <1>5, <1>6

LEMMA MrefUpdateKeeps ==
    ASSUME TypeOK, MrefUpdate
    PROVE  flt'.init = flt.init /\ flt'.ref = flt.ref /\ flt'.hot = flt.hot
<1>1. flt \in [init : BOOLEAN, ref : BOOLEAN, inv : Nat, hot : Nat] /\ snap.inv \in Nat
  BY DEF TypeOK, Configs
<1>2. flt' = SetInvariants(flt, snap.inv) \/ flt' = flt
  BY DEF MrefUpdate
<1> QED BY <1>1, <1>2, SetInvariantsKeeps

\* Only an alignment reaches the release, and it makes the attitude; only
\* mekf_sanitize takes one away, and it stops at "hold".
LEMMA SettledStep == TypeOK /\ SettledInv /\ [Next]_vars => SettledInv'
<1> SUFFICES ASSUME TypeOK, SettledInv, [Next]_vars PROVE SettledInv'
  OBVIOUS
<1> USE DEF KeepOthers, Goto, flags, history, outVars, SettledInv, SettledMeansAligned
<1>1. flt \in [init : BOOLEAN, ref : BOOLEAN, inv : Nat, hot : Nat] /\ settled \in BOOLEAN
  BY DEF TypeOK
<1>2. CASE Fusion
  <2>1. CASE Top \/ Release \/ Hold
    BY <1>1, <2>1 DEF Top, Release, Hold
  <2>2. ASSUME NEW mag \in BOOLEAN, Align(mag) PROVE SettledInv'
    BY <2>2, AlignMakes DEF Align
  <2>3. ASSUME NEW mag \in BOOLEAN, FilterStep(mag) PROVE SettledInv'
    BY <2>3, FilterStepMakes DEF FilterStep
  <2>4. CASE MrefUpdate
    BY <2>4, MrefUpdateKeeps DEF MrefUpdate
  <2>5. CASE Reconfigure
    BY <1>1, <2>5 DEF Reconfigure
  <2>6. CASE StartupDone
    BY <1>1, <2>6 DEF StartupDone, Filter
  <2>7. CASE Sanitize
    BY <1>1, <2>7 DEF Sanitize, Filter
  <2>8. CASE Start \/ Leave \/ AlignSnapshot \/ AlignFails \/ Pop
    BY <1>1, <2>8 DEF Start, Leave, AlignSnapshot, AlignFails, Pop
  <2>9. CASE Snapshot \/ ReconfigureClear \/ MrefClear \/ MagSetTest \/ MagSetClear \/ Publish
    BY <1>1, <2>9 DEF Snapshot, ReconfigureClear, MrefClear, MagSetTest, MagSetClear, Publish
  <2> QED BY <1>2, <2>1, <2>2, <2>3, <2>4, <2>5, <2>6, <2>7, <2>8, <2>9 DEF Fusion
<1>3. CASE Others \/ Output \/ Terminated \/ UNCHANGED vars
  BY <1>1, <1>3 DEF Others, UpdateConfig, SetDeclination, SetMagRef, Stop, MagSetReset,
                    Output, OutputCheck, OutputSend, Terminated, vars
<1> QED BY <1>2, <1>3 DEF Next

LEMMA SettledAlways == Spec => []SettledInv
<1>1. Init => SettledInv
  BY DEF Init, SettledInv, SettledMeansAligned, Filter
<1> QED BY <1>1, FusionTypes, SettledStep, PTL DEF Spec

\* The outputs are released only over a filter that has an attitude, up to the
\* store of fusion_thread that follows a reset.
THEOREM SettledMeansAlignedHolds == Spec => []SettledMeansAligned
<1>1. SettledInv => SettledMeansAligned
  BY DEF SettledInv
<1> QED BY <1>1, SettledAlways, PTL

\* What fusion_thread publishes while the outputs are released is an attitude.
THEOREM PublishedIsAttitudeHolds == Spec => PublishedIsAttitude
<1>1. ASSUME SettledInv, [Next]_vars, shared' # shared, settled
      PROVE  shared'.att = "aligned"
  <2>1. CASE Publish
    BY <1>1, <2>1 DEF Publish, Goto, SettledInv, SettledMeansAligned
  <2>2. CASE Others \/ Output \/ Terminated \/ UNCHANGED vars
    BY <1>1, <2>2 DEF Others, UpdateConfig, SetDeclination, SetMagRef, Stop, MagSetReset,
                      Output, OutputCheck, OutputSend, Terminated, vars
  <2> QED BY <1>1, <2>1, <2>2 DEF Next, Fusion, Start, StartupDone, Leave, Top, AlignSnapshot,
             Align, AlignFails, Release, Pop, Snapshot, Reconfigure, ReconfigureClear, MrefUpdate,
             MrefClear, FilterStep, Sanitize, Hold, MagSetTest, MagSetClear
<1>2. SettledInv /\ [Next]_vars => [shared' # shared /\ settled => shared'.att = "aligned"]_vars
  BY <1>1
<1> QED BY <1>2, SettledAlways, PTL DEF Spec, PublishedIsAttitude

(* --------------------- no SET/RESET mark is lost ------------------------- *)

\* An unreported pulse is in the flag, or in the packet of this very pass.
MarkInv ==
    /\ fpc = "setclear" => pkt
    /\ unreported => \/ mag_set_flag
                     \/ pkt /\ fpc \in {"setclear", "publish"}

LEMMA MarkStep == TypeOK /\ MarkInv /\ [Next]_vars => MarkInv'
<1> SUFFICES ASSUME TypeOK, MarkInv, [Next]_vars PROVE MarkInv'
  OBVIOUS
<1> USE DEF KeepOthers, Goto, flags, history, outVars, MarkInv
<1>1. pkt \in BOOLEAN /\ mag_set_flag \in BOOLEAN /\ unreported \in BOOLEAN
  BY DEF TypeOK
<1>2. CASE Fusion
  <2>1. CASE MagSetTest \/ MagSetClear \/ Publish
    BY <1>1, <2>1 DEF MagSetTest, MagSetClear, Publish
  <2>2. CASE fpc \notin {"setclear", "publish"} /\ fpc' # "setclear"
             /\ UNCHANGED <<mag_set_flag, pkt, unreported>>
    BY <1>1, <2>2
  <2> QED BY <1>2, <2>1, <2>2 DEF Fusion, Start, StartupDone, Leave, Top, AlignSnapshot,
             Align, AlignFails, Release, Pop, Snapshot, Reconfigure, ReconfigureClear, MrefUpdate,
             MrefClear, FilterStep, Sanitize, Hold
<1>3. CASE Others \/ Output \/ Terminated \/ UNCHANGED vars
  BY <1>1, <1>3 DEF Others, UpdateConfig, SetDeclination, SetMagRef, Stop, MagSetReset,
                    Output, OutputCheck, OutputSend, Terminated, vars
<1> QED BY <1>2, <1>3 DEF Next

\* No SET/RESET pulse of mag_reader is lost between the test and the clearing
\* of mag_set_flag, wherever it falls in fusion's pass.
THEOREM SetResetNotLostHolds == Spec => []SetResetNotLost
<1>1. Init => MarkInv
  BY DEF Init, MarkInv
<1>2. MarkInv => SetResetNotLost
  BY DEF MarkInv, SetResetNotLost
<1> QED BY <1>1, <1>2, FusionTypes, MarkStep, PTL DEF Spec

(* ------------------------- a reload is applied --------------------------- *)

\* In the window between fusion's copy and its clearing of the flag, the copy
\* is the live tuning, or a reload fell into the window.
ReloadInv ==
    /\ ReloadApplied
    /\ fpc \in {"start", "settle", "bias"} => ~Tuned
    /\ fpc \in {"settle", "bias"} /\ ~reconfigure => snap.hot = cfg.hot
    /\ HotWindow => snap.hot = cfg.hot \/ hotMissed
    /\ fpc = "reconfclear" => flt.hot = snap.hot

\* The steps that write the tuning of the filter are two.
LEMMA TuningKept ==
    ASSUME TypeOK, Fusion, ~StartupDone, ~Reconfigure
    PROVE  flt'.hot = flt.hot
<1>1. ASSUME NEW mag \in BOOLEAN, Align(mag) PROVE flt'.hot = flt.hot
  BY <1>1, AlignMakes
<1>2. ASSUME NEW mag \in BOOLEAN, FilterStep(mag) PROVE flt'.hot = flt.hot
  BY <1>2, FilterStepMakes
<1>3. CASE MrefUpdate
  BY <1>3, MrefUpdateKeeps
<1>4. CASE Sanitize
  BY <1>4 DEF Sanitize, Filter
<1>5. CASE flt' = flt
  BY <1>5
<1> QED BY <1>1, <1>2, <1>3, <1>4, <1>5 DEF Fusion, Start, Leave, Top, AlignSnapshot, AlignFails,
           Release, Pop, Snapshot, ReconfigureClear, MrefClear, Hold, MagSetTest, MagSetClear,
           Publish, KeepOthers

LEMMA ReloadStep == TypeOK /\ ReloadInv /\ [Next]_vars => ReloadInv'
<1> SUFFICES ASSUME TypeOK, ReloadInv, [Next]_vars PROVE ReloadInv'
  OBVIOUS
<1> USE DEF KeepOthers, Goto, flags, history, outVars, ReloadInv, ReloadApplied, Tuned, HotWindow
<1>1. flt \in [init : BOOLEAN, ref : BOOLEAN, inv : Nat, hot : Nat] /\ reconfigure \in BOOLEAN
  BY DEF TypeOK
<1>2. CASE Fusion
  <2>1. CASE StartupDone
    BY <1>1, <2>1 DEF StartupDone, Filter
  <2>2. CASE Reconfigure
    BY <1>1, <2>2 DEF Reconfigure
  <2>3. CASE flt'.hot = flt.hot
    <3>1. CASE ReconfigureClear
      BY <1>1, <2>3, <3>1 DEF ReconfigureClear
    <3>2. CASE Start \/ AlignSnapshot \/ Snapshot
      BY <1>1, <2>3, <3>2 DEF Start, AlignSnapshot, Snapshot
    <3>3. CASE /\ UNCHANGED <<reconfigure, snap, cfg, hotMissed>>
               /\ fpc' \notin {"start", "settle", "bias", "reconf", "reconfclear"}
      BY <1>1, <2>3, <3>3
    <3> QED BY <1>2, <2>1, <2>2, <3>1, <3>2, <3>3 DEF Fusion, Leave, Top, Align, AlignFails,
               Release, Pop, MrefUpdate, MrefClear, FilterStep, Sanitize, Hold, MagSetTest,
               MagSetClear, Publish
  <2> QED BY <1>2, <2>1, <2>2, <2>3, TuningKept
<1>3. ASSUME NEW field \in BOOLEAN, UpdateConfig(field) PROVE ReloadInv'
  BY <1>1, <1>3 DEF UpdateConfig
<1>4. CASE SetDeclination \/ SetMagRef
  <2>1. cfg'.hot = cfg.hot
    BY <1>4 DEF SetDeclination, SetMagRef, TypeOK, Configs
  <2> QED BY <1>1, <1>4, <2>1 DEF SetDeclination, SetMagRef
<1>5. CASE Stop \/ MagSetReset \/ Output \/ Terminated \/ UNCHANGED vars
  BY <1>1, <1>5 DEF Stop, MagSetReset, Output, OutputCheck, OutputSend, Terminated, vars
<1> QED BY <1>2, <1>3, <1>4, <1>5 DEF Next, Others

\* With the flag down the filter is tuned from the live configuration, unless
\* a reload fell between fusion's copy and its clearing of the flag.
THEOREM ReloadAppliedHolds == Spec => []ReloadApplied
<1>1. Init => ReloadInv
  BY DEF Init, ReloadInv, ReloadApplied, Tuned, HotWindow, Filter
<1>2. ReloadInv => ReloadApplied
  BY DEF ReloadInv
<1> QED BY <1>1, <1>2, FusionTypes, ReloadStep, PTL DEF Spec

(* -------------------- nothing goes back to an older value ---------------- *)

\* A value read is one that was written: what fusion uses is no newer than its
\* snapshot, the snapshot no newer than the live configuration.
Handed(used, copied, live) == used <= copied /\ copied <= live /\ live <= writes
OrderInv ==
    /\ Handed(flt.hot, snap.hot, cfg.hot)
    /\ Handed(flt.inv, snap.inv, cfg.inv)
    /\ Handed(shared.decl, snap.decl, cfg.decl)

Numbers ==
    /\ flt.hot \in Nat /\ flt.inv \in Nat /\ shared.decl \in Nat /\ writes \in Nat
    /\ snap.hot \in Nat /\ snap.inv \in Nat /\ snap.decl \in Nat
    /\ cfg.hot \in Nat /\ cfg.inv \in Nat /\ cfg.decl \in Nat

LEMMA TypeNumbers == TypeOK => Numbers
  BY DEF TypeOK, Numbers, Configs

\* What a step of fusion may leave in the filter.
FilterMoves ==
    /\ flt'.hot \in {flt.hot, snap.hot}
    /\ flt'.inv \in {0, flt.inv, snap.inv}
    /\ flt'.ref => flt'.inv \in {flt.inv, snap.inv}

LEMMA SetInvariantsMoves ==
    ASSUME NEW f \in [init : BOOLEAN, ref : BOOLEAN, inv : Nat, hot : Nat], NEW v \in Nat
    PROVE  SetInvariants(f, v).inv \in {f.inv, v}
  BY DEF SetInvariants

LEMMA FilterMovesOnly == TypeOK /\ Fusion => FilterMoves
<1> SUFFICES ASSUME TypeOK, Fusion PROVE FilterMoves
  OBVIOUS
<1>1. flt \in [init : BOOLEAN, ref : BOOLEAN, inv : Nat, hot : Nat] /\ snap.inv \in Nat
  BY DEF TypeOK, Configs
<1>2. ASSUME NEW mag \in BOOLEAN, Align(mag) PROVE FilterMoves
  <2> DEFINE g == [flt EXCEPT !.init = TRUE, !.ref = flt.ref \/ mag]
  <2>1. g \in [init : BOOLEAN, ref : BOOLEAN, inv : Nat, hot : Nat] /\ g.inv = flt.inv
    BY <1>1
  <2>2. flt' = SetInvariants(g, snap.inv)
    BY <1>2 DEF Align
  <2> HIDE DEF g
  <2> QED BY <1>1, <1>2, <2>1, <2>2, SetInvariantsMoves, AlignMakes DEF FilterMoves
<1>3. ASSUME NEW acquires \in BOOLEAN, FilterStep(acquires) PROVE FilterMoves
  <2> DEFINE g == [flt EXCEPT !.ref = TRUE]
  <2>1. g \in [init : BOOLEAN, ref : BOOLEAN, inv : Nat, hot : Nat] /\ g.inv = flt.inv
    BY <1>1
  <2>2. flt' = SetInvariants(g, snap.inv) \/ flt' = flt
    BY <1>3 DEF FilterStep
  <2> HIDE DEF g
  <2> QED BY <1>1, <1>3, <2>1, <2>2, SetInvariantsMoves, FilterStepMakes DEF FilterMoves
<1>4. CASE MrefUpdate
  <2>1. flt' = SetInvariants(flt, snap.inv) \/ flt' = flt
    BY <1>4 DEF MrefUpdate
  <2> QED BY <1>1, <1>4, <2>1, SetInvariantsMoves, MrefUpdateKeeps DEF FilterMoves
<1>5. CASE StartupDone \/ Reconfigure \/ Sanitize
  BY <1>1, <1>5 DEF StartupDone, Reconfigure, Sanitize, Filter, FilterMoves
<1>6. CASE flt' = flt
  BY <1>6 DEF FilterMoves
<1> QED BY <1>2, <1>3, <1>4, <1>5, <1>6 DEF Fusion, Start, Leave, Top, AlignSnapshot, AlignFails,
           Release, Pop, Snapshot, ReconfigureClear, MrefClear, Hold, MagSetTest, MagSetClear,
           Publish, KeepOthers

LEMMA DeclarationMovesOnly == Fusion => shared'.decl \in {shared.decl, snap.decl}
<1>1. CASE Publish
  BY <1>1 DEF Publish
<1>2. CASE shared' = shared
  BY <1>2
<1> QED BY <1>1, <1>2 DEF Fusion, Start, StartupDone, Leave, Top, AlignSnapshot, Align,
           AlignFails, Release, Pop, Snapshot, Reconfigure, ReconfigureClear, MrefUpdate, MrefClear,
           FilterStep, Sanitize, Hold, MagSetTest, MagSetClear

\* Writers advance the live configuration and leave fusion's side alone.
LEMMA WritesAdvance ==
    ASSUME TypeOK, OrderInv, \/ \E field \in BOOLEAN : UpdateConfig(field)
                             \/ SetDeclination \/ SetMagRef
    PROVE  OrderInv' /\ UNCHANGED <<snap, flt, shared>>
<1>1. Numbers
  BY TypeNumbers
<1>2. UNCHANGED <<snap, flt, shared>> /\ writes' = writes + 1
  BY DEF UpdateConfig, SetDeclination, SetMagRef
<1>3. /\ cfg'.hot \in {cfg.hot, writes'}
      /\ cfg'.inv \in {cfg.inv, writes'}
      /\ cfg'.decl \in {cfg.decl, writes'}
  BY DEF UpdateConfig, SetDeclination, SetMagRef, TypeOK, Configs
<1> QED BY <1>1, <1>2, <1>3 DEF OrderInv, Handed, Numbers

LEMMA OrderStep == TypeOK /\ OrderInv /\ [Next]_vars => OrderInv'
<1> SUFFICES ASSUME TypeOK, OrderInv, [Next]_vars PROVE OrderInv'
  OBVIOUS
<1> USE DEF KeepOthers, Goto, flags, history, outVars
<1>1. Numbers
  BY TypeNumbers
<1>2. CASE Fusion
  <2>1. UNCHANGED <<cfg, writes>>
    BY <1>2 DEF Fusion, Start, StartupDone, Leave, Top, AlignSnapshot,
         Align, AlignFails, Release, Pop, Snapshot, Reconfigure, ReconfigureClear, MrefUpdate,
         MrefClear, FilterStep, Sanitize, Hold, MagSetTest, MagSetClear, Publish
  <2>2. CASE Start \/ AlignSnapshot \/ Snapshot
    <3>1. snap' = cfg /\ UNCHANGED <<flt, shared>>
      BY <2>2 DEF Start, AlignSnapshot, Snapshot
    <3> QED BY <1>1, <2>1, <3>1 DEF OrderInv, Handed, Numbers
  <2>3. CASE UNCHANGED snap
    <3>1. FilterMoves /\ shared'.decl \in {shared.decl, snap.decl}
      BY <1>2, FilterMovesOnly, DeclarationMovesOnly
    <3> QED BY <1>1, <2>1, <2>3, <3>1 DEF OrderInv, Handed, Numbers, FilterMoves
  <2> QED BY <1>2, <2>2, <2>3 DEF Fusion, StartupDone, Leave, Top,
         Align, AlignFails, Release, Pop, Reconfigure, ReconfigureClear, MrefUpdate,
         MrefClear, FilterStep, Sanitize, Hold, MagSetTest, MagSetClear, Publish
<1>3. CASE Stop \/ MagSetReset \/ Output \/ Terminated \/ UNCHANGED vars
  <2>1. UNCHANGED <<cfg, snap, flt, shared, writes>>
    BY <1>3 DEF Stop, MagSetReset, Output, OutputCheck, OutputSend, Terminated, vars
  <2> QED BY <2>1 DEF OrderInv, Handed
<1> QED BY <1>2, <1>3, WritesAdvance DEF Next, Others

LEMMA OrderAlways == Spec => []OrderInv
<1>1. Init => OrderInv
  <2> SUFFICES ASSUME Init PROVE OrderInv
    OBVIOUS
  <2>1. cfg.hot = 1 /\ cfg.decl = 1 /\ cfg.inv \in {0, 1} /\ snap = cfg /\ writes = 1
    BY DEF Init
  <2>2. flt.hot = 0 /\ flt.inv = 0 /\ shared.decl = 0
    BY DEF Init, Filter
  <2> QED BY <2>1, <2>2 DEF OrderInv, Handed
<1> QED BY <1>1, FusionTypes, OrderStep, PTL DEF Spec

\* However reloads and fixes race with the loop, the filter's tuning, the
\* published declination, and the invariants of a reference that is kept never
\* return to an older configuration.
THEOREM NeverBackwardsHolds == Spec => NeverBackwards
<1> DEFINE Forward == /\ flt'.hot >= flt.hot
                      /\ shared'.decl >= shared.decl
                      /\ flt'.ref => flt'.inv >= flt.inv
<1>1. ASSUME TypeOK, OrderInv, [Next]_vars PROVE Forward
  <2>1. Numbers
    BY <1>1, TypeNumbers
  <2>2. CASE Fusion
    <3>1. FilterMoves
      BY <1>1, <2>2, FilterMovesOnly
    <3>2. shared'.decl \in {shared.decl, snap.decl}
      BY <2>2, DeclarationMovesOnly
    <3> QED BY <1>1, <2>1, <3>1, <3>2 DEF OrderInv, Handed, Numbers, FilterMoves
  <2>3. CASE UNCHANGED <<flt, shared>>
    BY <2>1, <2>3 DEF Numbers
  <2> QED BY <1>1, <2>2, <2>3, WritesAdvance DEF Next, Others, Stop, MagSetReset, Output,
             OutputCheck, OutputSend, Terminated, vars
<1>2. TypeOK /\ OrderInv /\ [Next]_vars => [Forward]_vars
  BY <1>1
<1> QED BY <1>2, FusionTypes, OrderAlways, PTL DEF Spec, NeverBackwards

(* ------------------ the reference follows the position ------------------- *)

\* With the flag down and no fix in the window, the copy from which a reference
\* is made is the live one wherever one can be made.
RefInv ==
    /\ ReferenceFollowsPosition
    /\ RefWindow => snap.inv = cfg.inv \/ refMissed
    /\ fpc \in {"align", "filter"} /\ ~mref_update => snap.inv = cfg.inv \/ refMissed
    /\ fpc = "mrefclear" /\ flt.ref => flt.inv = snap.inv

\* Invariants that are not valid (0) are never those of an older fix: a
\* reference always takes the copy's.
LEMMA SetInvariantsSets ==
    ASSUME NEW f \in [init : BOOLEAN, ref : BOOLEAN, inv : Nat, hot : Nat], NEW v \in Nat,
           f.inv <= v, f.ref
    PROVE  SetInvariants(f, v).inv = v
<1>1. CASE v > 0
  BY <1>1 DEF SetInvariants
<1>2. CASE v = 0
  BY <1>2 DEF SetInvariants
<1> QED BY <1>1, <1>2

\* Each of the three steps that set a reference leaves it at the copy's value,
\* or leaves an existing reference alone.
LEMMA ReferenceSet ==
    ASSUME TypeOK, OrderInv
    PROVE  /\ \A mag \in BOOLEAN : Align(mag) /\ flt'.ref => flt'.inv = snap.inv
           /\ \A acq \in BOOLEAN :
                 FilterStep(acq) /\ flt'.ref => flt'.inv = snap.inv \/ flt' = flt
           /\ MrefUpdate /\ mref_update /\ flt'.ref => flt'.inv = snap.inv
<1>1. /\ flt \in [init : BOOLEAN, ref : BOOLEAN, inv : Nat, hot : Nat]
      /\ snap.inv \in Nat /\ flt.inv <= snap.inv
  BY TypeNumbers DEF TypeOK, OrderInv, Handed, Numbers
<1>2. ASSUME NEW mag \in BOOLEAN, Align(mag), flt'.ref PROVE flt'.inv = snap.inv
  <2> DEFINE g == [flt EXCEPT !.init = TRUE, !.ref = flt.ref \/ mag]
  <2>1. /\ g \in [init : BOOLEAN, ref : BOOLEAN, inv : Nat, hot : Nat]
        /\ g.inv = flt.inv
    BY <1>1
  <2>2. flt' = SetInvariants(g, snap.inv)
    BY <1>2 DEF Align
  <2> HIDE DEF g
  <2>3. g.ref
    BY <1>1, <1>2, <2>1, <2>2, SetInvariantsKeeps
  <2> QED BY <1>1, <2>1, <2>2, <2>3, SetInvariantsSets
<1>3. ASSUME NEW acq \in BOOLEAN, FilterStep(acq), flt'.ref
      PROVE  flt'.inv = snap.inv \/ flt' = flt
  <2> DEFINE g == [flt EXCEPT !.ref = TRUE]
  <2>1. /\ g \in [init : BOOLEAN, ref : BOOLEAN, inv : Nat, hot : Nat]
        /\ g.inv = flt.inv /\ g.ref
    BY <1>1
  <2>2. flt' = SetInvariants(g, snap.inv) \/ flt' = flt
    BY <1>3 DEF FilterStep
  <2> HIDE DEF g
  <2> QED BY <1>1, <2>1, <2>2, SetInvariantsSets
<1>4. ASSUME MrefUpdate, mref_update, flt'.ref PROVE flt'.inv = snap.inv
  <2>1. flt' = SetInvariants(flt, snap.inv)
    BY <1>4 DEF MrefUpdate
  <2>2. flt.ref
    BY <1>1, <1>4, <2>1, SetInvariantsKeeps
  <2> QED BY <1>1, <2>1, <2>2, SetInvariantsSets
<1> QED BY <1>2, <1>3, <1>4

LEMMA RefStep == TypeOK /\ OrderInv /\ RefInv /\ [Next]_vars => RefInv'
<1> SUFFICES ASSUME TypeOK, OrderInv, RefInv, [Next]_vars PROVE RefInv'
  OBVIOUS
<1> USE DEF KeepOthers, Goto, flags, history, outVars, RefInv, ReferenceFollowsPosition,
            RefWindow, HotWindow
<1>1. /\ flt \in [init : BOOLEAN, ref : BOOLEAN, inv : Nat, hot : Nat]
      /\ mref_update \in BOOLEAN /\ refMissed \in BOOLEAN
  BY DEF TypeOK
<1>2. CASE Fusion
  <2>1. ASSUME NEW mag \in BOOLEAN, Align(mag) PROVE RefInv'
    <3>1. flt'.ref => flt'.inv = snap.inv
      BY <2>1, ReferenceSet
    <3> QED BY <1>1, <2>1, <3>1 DEF Align
  <2>2. ASSUME NEW acq \in BOOLEAN, FilterStep(acq) PROVE RefInv'
    <3>1. flt'.ref => flt'.inv = snap.inv \/ flt' = flt
      BY <2>2, ReferenceSet
    <3> QED BY <1>1, <2>2, <3>1 DEF FilterStep
  <2>3. CASE MrefUpdate
    <3>1. mref_update /\ flt'.ref => flt'.inv = snap.inv
      BY <2>3, ReferenceSet
    <3> QED BY <1>1, <2>3, <3>1 DEF MrefUpdate
  <2>4. CASE MrefClear
    BY <1>1, <2>4 DEF MrefClear
  <2>5. CASE Reconfigure
    BY <1>1, <2>5 DEF Reconfigure
  <2>6. CASE ReconfigureClear
    BY <1>1, <2>6 DEF ReconfigureClear
  <2>7. CASE StartupDone
    BY <1>1, <2>7 DEF StartupDone, Filter
  <2>8. CASE Sanitize
    BY <1>1, <2>8 DEF Sanitize, Filter
  <2>9. CASE Start \/ AlignSnapshot \/ Snapshot
    BY <1>1, <2>9 DEF Start, AlignSnapshot, Snapshot
  <2>10. CASE /\ UNCHANGED <<flt, snap, cfg, mref_update, refMissed>>
              /\ fpc' \notin {"reconf", "reconfclear", "mref", "mrefclear", "align", "filter"}
    BY <1>1, <2>10
  <2> QED BY <1>2, <2>1, <2>2, <2>3, <2>4, <2>5, <2>6, <2>7, <2>8, <2>9, <2>10 DEF Fusion,
             Leave, Top, AlignFails, Release, Pop, Hold, MagSetTest, MagSetClear, Publish
<1>3. ASSUME NEW field \in BOOLEAN, UpdateConfig(field) PROVE RefInv'
  <2>1. CASE ~livePosition /\ field
    BY <1>1, <1>3, <2>1 DEF UpdateConfig
  <2>2. CASE ~(~livePosition /\ field)
    <3>1. cfg'.inv = cfg.inv /\ mref_update' = mref_update /\ refMissed' = refMissed
      BY <1>1, <1>3, <2>2 DEF UpdateConfig
    <3>2. UNCHANGED <<fpc, snap, flt>>
      BY <1>3 DEF UpdateConfig
    <3> QED BY <3>1, <3>2
  <2> QED BY <2>1, <2>2
<1>4. CASE SetDeclination
  <2>1. cfg'.inv = cfg.inv
    BY <1>4 DEF SetDeclination, TypeOK, Configs
  <2> QED BY <1>1, <1>4, <2>1 DEF SetDeclination
<1>5. CASE SetMagRef
  BY <1>1, <1>5 DEF SetMagRef
<1>6. CASE Stop \/ MagSetReset \/ Output \/ Terminated \/ UNCHANGED vars
  BY <1>1, <1>6 DEF Stop, MagSetReset, Output, OutputCheck, OutputSend, Terminated, vars
<1> QED BY <1>2, <1>3, <1>4, <1>5, <1>6 DEF Next, Others

\* Whichever way a heading reference is made, by an alignment or by the first
\* field sample of a late magnetometer, it is scaled to the live invariants,
\* unless a fix fell between fusion's copy and its clearing of the flag.
THEOREM ReferenceFollowsPositionHolds == Spec => []ReferenceFollowsPosition
<1>1. Init => RefInv
  BY DEF Init, RefInv, ReferenceFollowsPosition, RefWindow, HotWindow, Filter
<1>2. RefInv => ReferenceFollowsPosition
  BY DEF RefInv
<1> QED BY <1>1, <1>2, FusionTypes, OrderAlways, RefStep, PTL DEF Spec

\* The filter is in step: it is released only when aligned, a reload takes
\* effect without a restart, and a fix rescales the reference in use, outside the
\* window between fusion's copy of the request and its clearing of the flag.
THEOREM FilterInStepHolds == Spec => []FilterInStep
BY FusionTypes, SettledMeansAlignedHolds, ReloadAppliedHolds,
   ReferenceFollowsPositionHolds, PTL DEF FilterInStep
=============================================================================
