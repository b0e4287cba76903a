----------------------------- MODULE Inputs_proofs -----------------------------
(***************************************************************************)
(* Proofs about two of the daemon's inputs that share nothing: Position    *)
(* for every choice of limits, waits and places, and the chip drivers      *)
(* (Drivers) for any requests, faults and deaths of the process.           *)
(***************************************************************************)
EXTENDS Position, Drivers, TLAPS

(***************************************************************************)
(* Position.  What the position sources publish is fresh, a fix is         *)
(* applied, and Signal K is polled no more often than its interval allows. *)
(* Each of the three has an inductive invariant that says, at each place   *)
(* of the thread, how much time can have passed since a limit was last     *)
(* looked at.                                                              *)
(***************************************************************************)

(* ------------------------------- arithmetic ------------------------------ *)

LEMMA Times ==
    /\ SpeedTTL \in Nat /\ FixTTL \in Nat /\ PollS \in Nat /\ RetryS \in Nat
    /\ ConnectS \in Nat /\ ResponseS \in Nat /\ Old \in Nat
  BY TimesAssumption

Longest == Largest({PollS, RetryS})

LEMMA LongestIsLargest ==
    Longest \in Nat /\ PollS <= Longest /\ RetryS <= Longest
<1>1. \E n \in {PollS, RetryS} : \A m \in {PollS, RetryS} : m <= n
  <2>1. PollS <= RetryS \/ RetryS <= PollS
    BY Times
  <2> QED BY <2>1, Times
<1> QED BY <1>1, Times DEF Longest, Largest

LEMMA CycleSum ==
    /\ Cycle = ConnectS + (ConnectS + ResponseS) + Longest
    /\ Cycle \in Nat /\ Old > SpeedTTL + FixTTL + PollS + Cycle + 1
<1>1. Cycle = ConnectS + (ConnectS + ResponseS) + Longest
  BY DEF Cycle, Longest
<1>2. Cycle \in Nat
  BY <1>1, Times, LongestIsLargest
<1> QED BY <1>1, <1>2, TimesAssumption

\* An age that counts grows by what passes, and stops at Old; one that does not
\* count stays so.
LEMMA OlderAge ==
    ASSUME NEW age \in AgeType, NEW s \in Nat
    PROVE  /\ Older(age, s) \in AgeType
           /\ Older(age, s) = Never <=> age = Never
           /\ age # Never => /\ Older(age, s) \in 0 .. Old
                             /\ Older(age, s) <= age + s
                             /\ Older(age, s) >= age
                             /\ Older(age, s) = Old \/ Older(age, s) = age + s
  BY Times DEF AgeType, Never, Older

(* --------------------------------- types --------------------------------- *)

FlagTypes ==
    /\ gpsd \in BOOLEAN /\ signalk \in BOOLEAN /\ wmmOk \in BOOLEAN
    /\ stop \in BOOLEAN /\ speedOn \in BOOLEAN
ThreadPlaces ==
    {"outer", "connect", "top", "read", "midline", "leave", "fallback", "poll", "sleep", "exit"}
AgeTypes ==
    /\ fixAge \in AgeType /\ speedAt \in AgeType /\ pollAge \in AgeType
    /\ left \in 0 .. Longest /\ midline \in 0 .. Old
PlaceTypes ==
    /\ last \in Places \cup {"force"} /\ fixed \in Places \cup {"none"}
    /\ decl \in Places \cup {"off", "static"} /\ ref \in Places \cup {"none", "static"}

LEMMA TypeParts == TypeOK <=> FlagTypes /\ pc \in ThreadPlaces /\ AgeTypes /\ PlaceTypes
<1>1. {gpsd, signalk, wmmOk, stop, speedOn} \subseteq BOOLEAN <=> FlagTypes
  BY DEF FlagTypes
<1> QED BY <1>1, Zenon DEF TypeOK, ThreadPlaces, AgeTypes, PlaceTypes, Longest

LEMMA InitTypes == Init => TypeOK
<1> SUFFICES ASSUME Init PROVE TypeOK
  OBVIOUS
<1>1. FlagTypes /\ pc \in ThreadPlaces
  BY DEF Init, FlagTypes, ThreadPlaces
<1>2. AgeTypes
  BY Times, LongestIsLargest DEF Init, AgeTypes, AgeType, Never
<1>3. PlaceTypes
  BY DEF Init, PlaceTypes
<1> QED BY <1>1, <1>2, <1>3, TypeParts

LEMMA StepTypes == TypeOK /\ [Next]_vars => TypeOK'
<1> SUFFICES ASSUME TypeOK, [Next]_vars PROVE TypeOK'
  OBVIOUS
<1>0. FlagTypes /\ pc \in ThreadPlaces /\ AgeTypes /\ PlaceTypes
  BY TypeParts
<1> USE DEF config, ages, live, Goto, InLine, CheckFix, Fix, NoFix, Passes
<1>1. FlagTypes'
  <2>1. (gpsd' = gpsd /\ signalk' = signalk /\ wmmOk' = wmmOk)
    BY DEF Next, Thread, Session, Outer, Connect, Top, ReadIdle, ReadPartial, ReadMidline,
           ReadStop, ReadEnd, LineOther, LineNoFix, LineFix, Leave, Fallback, Poll, Sleep, Stop,
           Terminated, vars
  <2>2. stop' \in BOOLEAN
    BY <1>0 DEF FlagTypes, Next, Thread, Session, Outer, Connect, Top, ReadIdle, ReadPartial, ReadMidline,
           ReadStop, ReadEnd, LineOther, LineNoFix, LineFix, Leave, Fallback, Poll, Sleep, Stop,
           Terminated, vars
  <2>3. speedOn' \in BOOLEAN
    BY <1>0, Zenon DEF FlagTypes, Next, Thread, Session, Outer, Connect, Top, ReadIdle, ReadPartial, ReadMidline,
           ReadStop, ReadEnd, LineOther, LineNoFix, LineFix, Leave, Fallback, Poll, Sleep, Stop,
           Terminated, vars
  <2> QED BY <1>0, <2>1, <2>2, <2>3 DEF FlagTypes
<1>2. pc' \in ThreadPlaces
  BY <1>0 DEF ThreadPlaces, Next, Thread, Session, Outer, Connect, Top, ReadIdle, ReadPartial, ReadMidline,
         ReadStop, ReadEnd, LineOther, LineNoFix, LineFix, Leave, Fallback, Poll, Sleep, Stop,
         Terminated, vars
<1>3. PlaceTypes'
  BY <1>0 DEF PlaceTypes, Next, Thread, Session, Outer, Connect, Top, ReadIdle, ReadPartial, ReadMidline,
         ReadStop, ReadEnd, LineOther, LineNoFix, LineFix, Leave, Fallback, Poll, Sleep, Stop,
         Terminated, vars
<1>4. AgeTypes'
  <2>1. 0 \in AgeType /\ Never \in AgeType /\ 0 \in 0 .. Old
    BY Times DEF AgeType
  <2>2. \A s \in Nat : /\ Older(fixAge, s) \in AgeType /\ Older(speedAt, s) \in AgeType
                       /\ Older(pollAge, s) \in AgeType
    BY <1>0, OlderAge DEF AgeTypes
  <2>3. Older(midline, 1) \in 0 .. Old
    BY <1>0, Times DEF AgeTypes, Older, Never
  <2>4. 0 .. ConnectS \subseteq Nat /\ 0 .. ConnectS + ResponseS \subseteq Nat /\ 1 \in Nat
    BY Times
  <2>5. CASE Sleep
    BY <1>0, <2>2, <2>4, <2>5, LongestIsLargest DEF AgeTypes, Sleep
  <2>6. CASE Fallback \/ \E s \in 0 .. ConnectS + ResponseS, valid \in BOOLEAN, p \in Places : Poll(s, valid, p)
    <3>1. PollS \in 0 .. Longest /\ RetryS \in 0 .. Longest
      BY Times, LongestIsLargest
    <3> QED BY <1>0, <2>1, <2>2, <2>4, <2>6, <3>1, Zenon DEF AgeTypes, Fallback, Poll
  <2>7. CASE Session
    BY <1>0, <2>1, <2>2, <2>3, <2>4, <2>7, Zenon DEF AgeTypes, Session, Top, ReadIdle, ReadPartial, ReadMidline,
         ReadStop, ReadEnd, LineOther, LineNoFix, LineFix, Leave
  <2>8. CASE Outer \/ (\E s \in 0 .. ConnectS : Connect(s)) \/ Stop \/ Terminated \/ UNCHANGED vars
    BY <1>0, <2>1, <2>2, <2>4, <2>8, Zenon DEF AgeTypes, Outer, Connect, Stop, Terminated, vars
  <2> QED BY <2>5, <2>6, <2>7, <2>8 DEF Next, Thread
<1>5. ({gpsd, signalk, wmmOk, stop, speedOn} \subseteq BOOLEAN)'
  BY <1>1 DEF FlagTypes
<1> QED BY <1>2, <1>3, <1>4, <1>5, Zenon DEF TypeOK, ThreadPlaces, AgeTypes, PlaceTypes, Longest

THEOREM PositionTypes == Spec => []TypeOK
<1>1. Init => TypeOK
  BY InitTypes
<1>2. TypeOK /\ [Next]_vars => TypeOK'
  BY StepTypes
<1> QED BY <1>1, <1>2, PTL DEF Spec

(* ------------------------------ fix is applied ---------------------------- *)

\* While a fix counts, the last position is its place, and forgotten when it
\* does not; and what is published was computed for that position.
AppliedInv ==
    wmmOk => \/ fixAge = Never /\ last = "force"
             \/ fixAge # Never /\ last = fixed /\ decl = fixed /\ ref = fixed

LEMMA StepApplied == TypeOK /\ AppliedInv /\ [Next]_vars => AppliedInv'
<1> SUFFICES ASSUME TypeOK, AppliedInv, [Next]_vars PROVE AppliedInv'
  OBVIOUS
<1> USE DEF AppliedInv, config, ages, live, Goto, InLine, CheckFix, Fix, NoFix, Passes
<1>1. 0 # Never
  BY DEF Never
<1>2. /\ fixAge \in AgeType
      /\ \A p \in Places : p # "force"
  BY TypeParts, PlacesAssumption DEF AgeTypes
<1>3. \A s \in Nat : Older(fixAge, s) = Never <=> fixAge = Never
  BY <1>2, OlderAge
<1>4. 0 .. ConnectS \subseteq Nat /\ 0 .. ConnectS + ResponseS \subseteq Nat /\ 1 \in Nat
  BY Times
<1>5. CASE Outer \/ Fallback \/ Sleep \/ Stop \/ Terminated \/ UNCHANGED vars
  BY <1>3, <1>4, <1>5, Zenon DEF Outer, Fallback, Sleep, Stop, Terminated, vars
<1>6. CASE \E s \in 0 .. ConnectS : Connect(s)
  BY <1>3, <1>4, <1>6 DEF Connect
<1>7. CASE Session
  <2>1. CASE \E speed, valid \in BOOLEAN, p \in Places : LineFix(speed, valid, p)
    BY <1>1, <1>2, <2>1 DEF LineFix
  <2>2. CASE Top \/ ReadIdle \/ ReadMidline
    BY <1>3, <1>4, <2>2, Zenon DEF Top, ReadIdle, ReadMidline
  <2>3. CASE ReadPartial \/ ReadStop \/ ReadEnd \/ LineOther \/ LineNoFix \/ Leave
    BY <2>3, Zenon DEF ReadPartial, ReadStop, ReadEnd, LineOther, LineNoFix, Leave
  <2> QED BY <1>7, <2>1, <2>2, <2>3 DEF Session
<1>8. CASE \E s \in 0 .. ConnectS + ResponseS, valid \in BOOLEAN, p \in Places : Poll(s, valid, p)
  BY <1>1, <1>2, <1>3, <1>4, <1>8 DEF Poll
<1> QED BY <1>5, <1>6, <1>7, <1>8 DEF Next, Thread

\* While a fix counts, declination and field invariants are those of its place,
\* also when the declination had been withdrawn from a vessel that never moved
\* (position.c: POS_FORCE_UPDATE_DEG).
THEOREM FixIsAppliedHolds == Spec => []FixIsApplied
<1>1. Init => AppliedInv
  BY DEF Init, AppliedInv
<1>2. TypeOK /\ AppliedInv /\ [Next]_vars => AppliedInv'
  BY StepApplied
<1>3. AppliedInv => FixIsApplied
  BY DEF AppliedInv, FixIsApplied
<1> QED BY <1>1, <1>2, <1>3, PositionTypes, PTL DEF Spec

(* --------------------------- freshness of the speed ----------------------- *)

\* In a session the limit was looked at before the read: what the speed has aged
\* since is one second of silence, and the time in the middle of a line.
SpeedInv ==
    speedOn => /\ pc \in {"top", "read", "midline", "leave"} /\ speedAt # Never
               /\ pc # "top" => speedAt <= SpeedTTL + midline
               /\ speedAt <= SpeedTTL + 1 + midline

LEMMA StepSpeed == TypeOK /\ SpeedInv /\ [Next]_vars => SpeedInv'
<1> SUFFICES ASSUME TypeOK, SpeedInv, [Next]_vars PROVE SpeedInv'
  OBVIOUS
<1> USE DEF SpeedInv, config, ages, live, Goto, InLine, CheckFix, Passes
<1>1. /\ speedAt \in AgeType /\ midline \in 0 .. Old /\ pc \in ThreadPlaces /\ speedOn \in BOOLEAN
  BY TypeParts DEF AgeTypes, FlagTypes
<1>2. CASE Outer \/ Fallback \/ Sleep \/ Stop \/ Terminated \/ UNCHANGED vars
  BY <1>2 DEF Outer, Fallback, Sleep, Stop, Terminated, vars
<1>3. CASE (\E s \in 0 .. ConnectS : Connect(s))
           \/ \E s \in 0 .. ConnectS + ResponseS, valid \in BOOLEAN, p \in Places : Poll(s, valid, p)
  <2>1. ~speedOn'
    BY <1>3 DEF Connect, Poll
  <2> QED BY <2>1
<1>4. CASE Session
  <2>1. CASE Top
    <3>0. speedOn' => speedOn /\ speedAt <= SpeedTTL
      BY <2>1, Zenon DEF Top
    <3>1. speedOn' => speedOn /\ speedAt <= SpeedTTL /\ ~(speedAt > SpeedTTL)
      BY <1>1, <3>0, Times DEF AgeType, Never
    <3>2. pc' = "read" /\ midline' = 0 /\ (~(speedAt > SpeedTTL) => speedAt' = speedAt)
      BY <2>1, Zenon DEF Top
    <3>3. speedOn' => speedAt' # Never /\ speedAt' <= SpeedTTL
      BY <3>1, <3>2
    <3> QED BY <1>1, <3>1, <3>2, <3>3, Times DEF AgeType, Never
  <2>2. CASE ReadIdle
    <3>1. speedOn => speedAt # Never /\ Older(speedAt, 1) # Never /\ Older(speedAt, 1) <= speedAt + 1
      BY <1>1, OlderAge
    <3>2. /\ pc = "read" /\ pc' = "top" /\ speedOn' = speedOn /\ midline' = midline
          /\ speedAt' = Older(speedAt, 1)
      BY <2>2 DEF ReadIdle
    <3>3. speedOn => speedAt \in 0 .. Old /\ Older(speedAt, 1) \in 0 .. Old
      BY <1>1, OlderAge DEF AgeType, Never
    <3> QED BY <1>1, <3>1, <3>2, <3>3, Times
  <2>3. CASE ReadMidline
    <3>1. speedOn => /\ Older(speedAt, 1) \in 0 .. Old
                     /\ Older(speedAt, 1) <= speedAt + 1
      BY <1>1, OlderAge
    <3>2. Older(midline, 1) = midline + 1 \/ Older(midline, 1) = Old
      BY <1>1, Times DEF Older, Never
    <3>3. speedOn => Older(speedAt, 1) <= SpeedTTL + Older(midline, 1)
      BY <1>1, <2>3, <3>1, <3>2, Times DEF ReadMidline, AgeType
    <3> QED BY <1>1, <2>3, <3>1, <3>2, <3>3, Times DEF ReadMidline, AgeType, Never
  <2>4. CASE ReadPartial \/ ReadStop \/ ReadEnd \/ LineOther
    BY <1>1, <2>4, Times DEF ReadPartial, ReadStop, ReadEnd, LineOther, AgeType
  <2>5. CASE LineNoFix \/ Leave
    BY <2>5 DEF LineNoFix, Leave
  <2>6. CASE \E speed, valid \in BOOLEAN, p \in Places : LineFix(speed, valid, p)
    <3>1. PICK speed, valid \in BOOLEAN, p \in Places : LineFix(speed, valid, p)
      BY <2>6
    <3>2. pc \in {"read", "midline"} /\ pc' = "top" /\ midline' = midline
      BY <3>1 DEF LineFix
    <3>3. CASE speed
      <4>1. speedAt' = 0
        BY <3>1, <3>3 DEF LineFix
      <4> QED BY <1>1, <3>2, <4>1, Times DEF Never
    <3>4. CASE ~speed
      <4>1. speedAt' = speedAt /\ speedOn' = speedOn
        BY <3>1, <3>4 DEF LineFix
      <4> QED BY <1>1, <3>2, <4>1, Times DEF AgeType, Never
    <3> QED BY <3>3, <3>4
  <2> QED BY <1>4, <2>1, <2>2, <2>3, <2>4, <2>5, <2>6 DEF Session
<1> QED BY <1>2, <1>3, <1>4 DEF Next, Thread

(* ------------------------ freshness of the declination -------------------- *)

\* The longest a fix can have aged beyond its limit at each place of the thread,
\* time in the middle of a line apart.
Overdue ==
    CASE pc \in {"connect", "read", "midline", "leave"} -> 0
      [] pc = "top" -> ConnectS + 1
      [] pc \in {"fallback", "poll"} -> ConnectS
      [] pc = "sleep" -> ConnectS + (ConnectS + ResponseS) + Longest - left
      [] OTHER -> Cycle

DeclInv ==
    (FixTTL > 0 /\ decl \in Places) => fixAge # Never /\ fixAge <= FixTTL + Overdue + midline

LEMMA StepDecl == TypeOK /\ DeclInv /\ [Next]_vars => DeclInv'
<1> SUFFICES ASSUME TypeOK, [Next]_vars, FixTTL > 0, decl' \in Places,
                    decl \in Places => fixAge # Never /\ fixAge <= FixTTL + Overdue + midline
             PROVE  fixAge' # Never /\ fixAge' <= FixTTL + Overdue' + midline'
  BY DEF DeclInv
<1> USE DEF config, ages, live, Goto, InLine, CheckFix, Passes, Fix, NoFix, FixExpired
<1>1. /\ fixAge \in AgeType /\ midline \in 0 .. Old /\ pc \in ThreadPlaces /\ left \in 0 .. Longest
      /\ "off" \notin Places
  BY TypeParts, PlacesAssumption DEF AgeTypes
<1>2. Cycle = ConnectS + (ConnectS + ResponseS) + Longest /\ Longest \in Nat /\ Cycle \in Nat
      /\ RetryS <= Longest /\ PollS <= Longest
  BY CycleSum, LongestIsLargest
<1>3. 0 # Never /\ (fixAge = Never \/ fixAge \in 0 .. Old)
  BY <1>1, Times DEF AgeType, Never
<1>4. CASE Outer
  <2>1. CASE stop
    BY <1>1, <1>2, <1>3, <1>4, <2>1, Times DEF Outer, Overdue, Never
  <2>2. CASE ~stop
    <3>1. midline' = 0 /\ ~(fixAge > FixTTL) /\ fixAge' = fixAge /\ decl' = decl
          /\ pc' \in {"connect", "poll"}
      BY <1>1, <1>4, <2>2 DEF Outer
    <3> QED BY <1>3, <3>1, Times DEF Overdue, Never
  <2> QED BY <2>1, <2>2
<1>5. CASE \E s \in 0 .. ConnectS : Connect(s)
  <2>1. PICK s \in 0 .. ConnectS : Connect(s)
    BY <1>5
  <2>2. /\ pc = "connect" /\ pc' \in {"top", "fallback"} /\ fixAge' = Older(fixAge, s)
        /\ decl' = decl /\ midline' = midline
    BY <2>1 DEF Connect
  <2>3. fixAge # Never => fixAge' # Never /\ fixAge' \in 0 .. Old /\ fixAge' <= fixAge + s
    BY <1>1, <2>2, OlderAge, Times
  <2> QED BY <1>1, <1>3, <2>2, <2>3, Times DEF Overdue, Never
<1>6. CASE Session
  <2>1. CASE Top
    <3>1. /\ pc' = "read" /\ midline' = 0 /\ ~(fixAge > FixTTL) /\ fixAge' = fixAge /\ decl' = decl
      BY <1>1, <2>1 DEF Top
    <3> QED BY <1>3, <3>1, Times DEF Overdue, Never
  <2>2. CASE ReadIdle
    <3>1. /\ pc = "read" /\ pc' = "top" /\ fixAge' = Older(fixAge, 1) /\ decl' = decl /\ midline' = midline
      BY <2>2 DEF ReadIdle
    <3>2. fixAge # Never => fixAge' # Never /\ fixAge' \in 0 .. Old /\ fixAge' <= fixAge + 1
      BY <1>1, <3>1, OlderAge
    <3> QED BY <1>1, <1>3, <3>1, <3>2, Times DEF Overdue, Never
  <2>3. CASE ReadMidline
    <3>1. /\ pc = "midline" /\ pc' = "midline" /\ fixAge' = Older(fixAge, 1) /\ decl' = decl
          /\ midline' = Older(midline, 1)
      BY <2>3 DEF ReadMidline
    <3>2. fixAge # Never => fixAge' # Never /\ fixAge' \in 0 .. Old /\ fixAge' <= fixAge + 1
      BY <1>1, <3>1, OlderAge
    <3>3. midline' = midline + 1 \/ midline' = Old
      BY <1>1, <3>1, Times DEF Older, Never
    <3> QED BY <1>1, <1>3, <3>1, <3>2, <3>3, Times DEF Overdue, Never
  <2>4. CASE ReadPartial \/ ReadStop \/ ReadEnd \/ LineOther \/ LineNoFix \/ Leave
    <3>1. /\ pc \in {"read", "midline", "leave"} /\ pc' \in {"midline", "leave", "top", "fallback"}
          /\ fixAge' = fixAge /\ decl' = decl /\ midline' = midline
      BY <2>4 DEF ReadPartial, ReadStop, ReadEnd, LineOther, LineNoFix, Leave
    <3> QED BY <1>1, <1>3, <3>1, Times DEF Overdue, Never
  <2>5. CASE \E speed, valid \in BOOLEAN, p \in Places : LineFix(speed, valid, p)
    <3>1. /\ pc \in {"read", "midline"} /\ pc' = "top" /\ midline' = midline
          /\ fixAge' = 0 \/ (fixAge' = fixAge /\ decl' = decl)
      BY <2>5 DEF LineFix
    <3> QED BY <1>1, <1>3, <3>1, Times DEF Overdue, Never
  <2> QED BY <1>6, <2>1, <2>2, <2>3, <2>4, <2>5 DEF Session
<1>7. CASE Fallback
  <2>1. /\ pc = "fallback" /\ (pc' = "poll" \/ (pc' = "sleep" /\ left' = RetryS))
        /\ fixAge' = fixAge /\ decl' = decl /\ midline' = midline
    BY <1>7 DEF Fallback
  <2> QED BY <1>1, <1>2, <1>3, <2>1, Times DEF Overdue, Never
<1>8. CASE \E s \in 0 .. ConnectS + ResponseS, valid \in BOOLEAN, p \in Places : Poll(s, valid, p)
  <2>1. PICK s \in 0 .. ConnectS + ResponseS, valid \in BOOLEAN, p \in Places : Poll(s, valid, p)
    BY <1>8
  <2>2. /\ pc = "poll" /\ pc' = "sleep" /\ left' \in {RetryS, PollS} /\ midline' = midline
        /\ fixAge' = 0 \/ (fixAge' = Older(fixAge, s) /\ decl' = decl)
    BY <2>1 DEF Poll
  <2>3. s \in Nat
    BY Times
  <2>4. fixAge # Never => Older(fixAge, s) # Never /\ Older(fixAge, s) \in 0 .. Old /\ Older(fixAge, s) <= fixAge + s
    BY <1>1, <2>3, OlderAge
  <2> QED BY <1>1, <1>2, <1>3, <2>2, <2>4, Times DEF Overdue, Never
<1>9. CASE Sleep
  <2>1. CASE left > 0 /\ ~stop
    <3>1. /\ pc = "sleep" /\ pc' = "sleep" /\ left' = left - 1 /\ midline' = midline
          /\ fixAge' = Older(fixAge, 1) /\ decl' = decl
      BY <1>9, <2>1 DEF Sleep
    <3>2. fixAge # Never => fixAge' # Never /\ fixAge' \in 0 .. Old /\ fixAge' <= fixAge + 1
      BY <1>1, <3>1, OlderAge
    <3> QED BY <1>1, <1>2, <1>3, <2>1, <3>1, <3>2, Times DEF Overdue, Never
  <2>2. CASE ~(left > 0 /\ ~stop)
    <3>1. pc = "sleep" /\ pc' = "outer" /\ fixAge' = fixAge /\ decl' = decl /\ midline' = midline
      BY <1>9, <2>2 DEF Sleep
    <3> QED BY <1>1, <1>2, <1>3, <3>1, Times DEF Overdue, Never
  <2> QED BY <2>1, <2>2
<1>10. CASE Stop \/ Terminated \/ UNCHANGED vars
  <2>1. pc' = pc /\ left' = left /\ fixAge' = fixAge /\ decl' = decl /\ midline' = midline
    BY <1>10 DEF Stop, Terminated, vars
  <2> QED BY <2>1 DEF Overdue
<1> QED BY <1>4, <1>5, <1>6, <1>7, <1>8, <1>9, <1>10 DEF Next, Thread

\* A speed in use, and a declination that came from a fix, are no older than
\* their limits, one stretch of the thread without a look at the clock, and the
\* time spent in the middle of a line (position.c: check_fix_ttl, run_gpsd).
THEOREM PublishedFreshHolds == Spec => []PublishedFresh
<1>1. Init => SpeedInv /\ DeclInv
  BY PlacesAssumption DEF Init, SpeedInv, DeclInv
<1>2. TypeOK /\ SpeedInv /\ [Next]_vars => SpeedInv'
  BY StepSpeed
<1>3. TypeOK /\ DeclInv /\ [Next]_vars => DeclInv'
  BY StepDecl
<1>4. TypeOK /\ SpeedInv => SpeedFresh
  <2> SUFFICES ASSUME TypeOK, SpeedInv PROVE SpeedFresh
    OBVIOUS
  <2>1. speedAt \in AgeType /\ midline \in 0 .. Old
    BY TypeParts DEF AgeTypes
  <2> QED BY <2>1, Times DEF SpeedFresh, SpeedInv, AgeType, Never
<1>5. TypeOK /\ DeclInv => DeclinationFresh
  <2> SUFFICES ASSUME TypeOK, DeclInv, FixTTL > 0, decl \in Places
               PROVE  fixAge \in 0 .. FixTTL + Cycle + 1 + midline
    BY DEF DeclinationFresh
  <2>1. fixAge \in AgeType /\ midline \in 0 .. Old /\ left \in 0 .. Longest
    BY TypeParts DEF AgeTypes
  <2>2. Overdue <= Cycle + 1
    BY <2>1, CycleSum, LongestIsLargest, Times DEF Overdue
  <2>3. Overdue \in Nat
    BY <2>1, CycleSum, LongestIsLargest, Times DEF Overdue
  <2> QED BY <2>1, <2>2, <2>3, CycleSum, Times DEF DeclInv, AgeType, Never
<1> QED BY <1>1, <1>2, <1>3, <1>4, <1>5, PositionTypes, PTL DEF Spec, PublishedFresh

(* ---------------------------- spacing of the polls ------------------------ *)

\* Without gpsd the sleep is the interval, and only stop cuts it short.
PollInv ==
    /\ pollAge # Never
    /\ ~gpsd => /\ pc \in {"outer", "poll", "sleep", "exit"}
                /\ pc = "outer" /\ ~stop => pollAge >= PollS
                /\ pc = "sleep" /\ ~stop => pollAge + left >= PollS

LEMMA StepPolls == TypeOK /\ PollInv /\ [Next]_vars => PollInv'
<1> SUFFICES ASSUME TypeOK, PollInv, [Next]_vars PROVE PollInv'
  OBVIOUS
<1> USE DEF PollInv, config, ages, live, Goto, InLine, CheckFix, Passes
<1>1. pollAge \in 0 .. Old /\ left \in 0 .. Longest
  BY TypeParts, Times DEF AgeTypes, AgeType
<1>2. \A s \in Nat : /\ Older(pollAge, s) \in 0 .. Old /\ Older(pollAge, s) # Never
                     /\ Older(pollAge, s) = Old \/ Older(pollAge, s) = pollAge + s
  <2>1. pollAge \in AgeType /\ pollAge # Never
    BY <1>1 DEF AgeType, Never
  <2> QED BY <2>1, OlderAge
<1>3. PollS <= Old /\ 0 .. ConnectS \subseteq Nat /\ 1 \in Nat
  BY CycleSum, Times
<1>4. CASE Outer \/ Fallback \/ Stop \/ Terminated \/ UNCHANGED vars
  BY <1>4 DEF Outer, Fallback, Stop, Terminated, vars
<1>5. CASE \E s \in 0 .. ConnectS : Connect(s)
  BY <1>2, <1>3, <1>5 DEF Connect
<1>6. CASE Session
  <2>1. gpsd /\ gpsd' = gpsd
    BY <1>6 DEF Session, Top, ReadIdle, ReadPartial, ReadMidline, ReadStop, ReadEnd, LineOther,
           LineNoFix, LineFix, Leave
  <2>2. pollAge' = pollAge \/ pollAge' = Older(pollAge, 1)
    BY <1>6 DEF Session, Top, ReadIdle, ReadPartial, ReadMidline, ReadStop, ReadEnd, LineOther,
           LineNoFix, LineFix, Leave
  <2> QED BY <1>2, <1>3, <2>1, <2>2
<1>7. CASE \E s \in 0 .. ConnectS + ResponseS, valid \in BOOLEAN, p \in Places : Poll(s, valid, p)
  BY <1>7, Times DEF Poll, Never
<1>8. CASE Sleep
  <2>1. CASE left > 0 /\ ~stop
    <3>1. /\ pc = "sleep" /\ pc' = "sleep" /\ left' = left - 1 /\ pollAge' = Older(pollAge, 1)
          /\ gpsd' = gpsd /\ stop' = stop
      BY <1>8, <2>1 DEF Sleep
    <3>2. pollAge' # Never /\ pollAge' \in 0 .. Old /\ (pollAge' = Old \/ pollAge' = pollAge + 1)
      BY <1>2, <1>3, <3>1
    <3> QED BY <1>1, <1>3, <2>1, <3>1, <3>2, LongestIsLargest, Times
  <2>2. CASE ~(left > 0 /\ ~stop)
    <3>1. /\ pc = "sleep" /\ pc' = "outer" /\ pollAge' = pollAge /\ gpsd' = gpsd /\ stop' = stop
      BY <1>8, <2>2 DEF Sleep
    <3> QED BY <1>1, <2>2, <3>1, LongestIsLargest, Times
  <2> QED BY <2>1, <2>2
<1> QED BY <1>4, <1>5, <1>6, <1>7, <1>8 DEF Next, Thread

\* Signal K is asked no more often than its interval, whether it stands alone,
\* where the sleep is the interval, or backs up gpsd, where the age of the last
\* poll is (position.c: last_signalk_time).
THEOREM PollsAreSpacedHolds == Spec => PollsAreSpaced
<1>1. Init => PollInv
  BY Times, CycleSum DEF Init, PollInv, Never
<1>2. TypeOK /\ PollInv /\ [Next]_vars => PollInv'
  BY StepPolls
<1>3. TypeOK /\ PollInv /\ [Next]_vars => [(pc # "poll" /\ pc' = "poll") => pollAge >= PollS]_vars
  <2> SUFFICES ASSUME PollInv, Next, pc # "poll", pc' = "poll"
               PROVE  pollAge >= PollS
    BY DEF vars
  <2>1. Outer \/ Fallback
    BY DEF Next, Thread, Session, Connect, Top, ReadIdle, ReadPartial, ReadMidline, ReadStop,
           ReadEnd, LineOther, LineNoFix, LineFix, Leave, Poll, Sleep, Stop, Terminated, vars, Goto,
           InLine
  <2> QED BY <2>1 DEF PollInv, Outer, Fallback
<1> QED BY <1>1, <1>2, <1>3, PositionTypes, PTL DEF Spec, PollsAreSpaced

(***************************************************************************)
(* The chip drivers.  Whatever is asked of a part, however often an access *)
(* fails and a process is killed, and wherever: a start fails only if an   *)
(* access of its own has failed, and a probe and a self-test leave no      *)
(* trace.                                                                  *)
(***************************************************************************)

(* ------------------------------- invariant ------------------------------- *)

\* The parts whose registers are all in one bank.
OneBank == (Imus \cup Mags) \ {"icm42688p", "icm20948"}

\* What a probe may not write.
Own == {"accel", "gyro", "arate", "grate", "on"}

\* An access that an operation of this part may have.
MayDo(step, op, name) ==
    /\ DOMAIN step = {"do", "bank", "set", "tidy"}
    /\ name \in OneBank => step.bank = 0 /\ ("bank" \in DOMAIN step.set => step.set["bank"] = 0)
    /\ op # "read" => step.do \in {"write", "read", "keep", "identify"}
    /\ step.do = "identify" => op = "probe"
    /\ op # "selftest" => ~step.tidy
    /\ op = "probe" => DOMAIN step.set \cap Own = {} /\ (name # "rm3100" => "cycles" \notin DOMAIN step.set)

\* A sequence of such accesses.
AllMayDo(steps, op, name) == \E S : steps \in Seq(S) /\ \A step \in S : MayDo(step, op, name)

JobsOf(name) == {"probe", "reset", "init", "read"} \cup (IF HasSelfTest(name) THEN {"selftest"} ELSE {})

\* A start that failed met a fault.
StartOf(p) == fitted # "icm42688p" /\ p.state = "failed" => p.hurt

IsProc(p) ==
    /\ p = [field \in DOMAIN Down |-> p[field]]
    /\ p.jobs \in Seq(JobsOf(fitted)) /\ p.op \in JobsOf(fitted) \cup {"none"}

IsPart(p) ==
    /\ p = [field \in DOMAIN PowerOn |-> p[field]]
    /\ fitted \in OneBank => p.bank = 0

\* The ICM-20948 answers in the bank the probe has selected.
AnswersInBank ==
    \/ proc.steps \in {Icm2Probe, <<>>}
    \/ proc.steps = <<Identify>> /\ part.bank = 0

\* What the RM3100's probe has borrowed, and what it still has to do to put it back.
PutBack(cycles) == IF cycles = 200 THEN <<>> ELSE <<W([cycles |-> cycles])>>
Borrows(cycles, set, steps) ==
    \/ /\ set = cycles
       /\ steps \in {<<Identify, Look, W([cycles |-> 200]), Look>> \o PutBack(cycles),
                     <<Look, W([cycles |-> 200]), Look>> \o PutBack(cycles),
                     <<W([cycles |-> 200]), Look>> \o PutBack(cycles), <<>>}
    \/ set = 200 /\ steps \in {<<Look>> \o PutBack(cycles), PutBack(cycles)}

\* A probe under way: what it found is still there, or on its way back.
Probing ==
    /\ proc.rc = 0
    /\ \A field \in Own : part[field] = proc.found[field]
    /\ IF fitted = "rm3100" THEN Borrows(proc.found.cycles, part.cycles, proc.steps) ELSE part.cycles = proc.found.cycles
    /\ fitted = "icm20948" => AnswersInBank

\* A self-test under way ends with the force off.
Forcing == IF proc.steps = <<>> THEN proc.rc = 0 => ~part.stim ELSE Last(proc.steps) = ForceOff

DriversInv ==
    /\ fitted \in Chips /\ IsPart(part) /\ IsProc(proc) /\ StartOf(proc)
    /\ proc.op # "none" =>
          /\ AllMayDo(proc.steps, proc.op, fitted)
          /\ proc.rc # 0 => proc.hurt
          /\ proc.op = "probe" => Probing
          /\ proc.op = "selftest" => Forcing

(* ------------------------- sequences of accesses ------------------------- *)

\* The accesses the drivers are written with.
LEMMA Writes ==
    ASSUME NEW set
    PROVE  /\ W(set) = [do |-> "write", bank |-> 0, set |-> set, tidy |-> FALSE]
           /\ Keep(set) = [do |-> "keep", bank |-> 0, set |-> set, tidy |-> FALSE]
BY DEF W, WIn, Keep, Doing

LEMMA WriteMay ==
    ASSUME NEW set, NEW op, NEW name,
           "bank" \in DOMAIN set => set["bank"] = 0,
           op = "probe" => DOMAIN set \cap Own = {} /\ (name # "rm3100" => "cycles" \notin DOMAIN set)
    PROVE  MayDo(W(set), op, name) /\ MayDo(Keep(set), op, name)
BY Writes DEF MayDo

\* What a part without other banks may be told, but in a probe.
LEMMA Tells ==
    ASSUME NEW set, NEW op, NEW name, op # "probe", "bank" \notin DOMAIN set
    PROVE  MayDo(W(set), op, name) /\ MayDo(Keep(set), op, name)
BY WriteMay

LEMMA Plain ==
    ASSUME NEW op, NEW name
    PROVE  MayDo(Look, op, name) /\ MayDo(Other, op, name)
<1>1. DOMAIN <<>> = {}
    OBVIOUS
<1>2. MayDo(Other, op, name)
    BY <1>1, WriteMay DEF Other
<1>3. MayDo(Look, op, name)
    BY <1>1 DEF Look, Do, Doing, MayDo
<1> QED BY <1>2, <1>3

LEMMA ResetMay ==
    ASSUME NEW op, NEW name, op # "probe"
    PROVE  MayDo(Reset, op, name)
BY WriteMay DEF Reset, PowerOn

LEMMA Empty == ASSUME NEW op, NEW name PROVE AllMayDo(<<>>, op, name)
<1> DEFINE S == {}
<1>1. <<>> \in Seq(S)
    OBVIOUS
<1>2. \A step \in S : MayDo(step, op, name)
    OBVIOUS
<1> HIDE DEF S
<1> QED BY <1>1, <1>2 DEF AllMayDo

LEMMA Join ==
    ASSUME NEW s, NEW t, NEW op, NEW name, AllMayDo(s, op, name), AllMayDo(t, op, name)
    PROVE  AllMayDo(s \o t, op, name)
<1>1. PICK S : s \in Seq(S) /\ \A step \in S : MayDo(step, op, name)
    BY DEF AllMayDo
<1>2. PICK T : t \in Seq(T) /\ \A step \in T : MayDo(step, op, name)
    BY DEF AllMayDo
<1>3. s \in Seq(S \cup T) /\ t \in Seq(S \cup T)
    BY <1>1, <1>2
<1>4. s \o t \in Seq(S \cup T)
    BY <1>3
<1> QED BY <1>1, <1>2, <1>4 DEF AllMayDo

\* The next access, and the rest.
LEMMA Onward ==
    ASSUME NEW s, NEW op, NEW name, AllMayDo(s, op, name), s # <<>>
    PROVE  /\ MayDo(Head(s), op, name) /\ AllMayDo(Tail(s), op, name)
           /\ MayDo(Last(s), op, name) /\ AllMayDo(<<Last(s)>>, op, name)
           /\ Tail(s) # <<>> => Last(Tail(s)) = Last(s)
           /\ Tail(s) = <<>> => Last(s) = Head(s)
<1>1. PICK S : s \in Seq(S) /\ \A step \in S : MayDo(step, op, name)
    BY DEF AllMayDo
<1>2. Head(s) \in S /\ Tail(s) \in Seq(S) /\ Len(s) \in Nat /\ Len(s) > 0 /\ Len(Tail(s)) = Len(s) - 1
    BY <1>1
<1>3. Last(s) = s[Len(s)] /\ s[Len(s)] \in S
    BY <1>1, <1>2 DEF Last
<1>4. <<Last(s)>> \in Seq(S)
    BY <1>3
<1>5. Tail(s) # <<>> => Last(Tail(s)) = Last(s)
    <2> HAVE Tail(s) # <<>>
    <2>1. Len(Tail(s)) > 0
        BY <1>2
    <2>2. Tail(s)[Len(Tail(s))] = s[Len(s)]
        BY <1>1, <1>2, <2>1
    <2> QED BY <1>3, <2>2 DEF Last
<1>6. Tail(s) = <<>> => Last(s) = Head(s)
    <2> DEFINE m == Len(Tail(s))
               n == Len(s)
    <2>0. n \in Nat /\ m = n - 1
        BY <1>2
    <2> HIDE DEF m, n
    <2>1. m = 0 => n = 1
        BY <2>0
    <2>2. Head(s) = s[1]
        BY <1>1
    <2>3. Len(<<>>) = 0
        OBVIOUS
    <2>4. Tail(s) = <<>> => Len(s) = 1
        BY <2>1, <2>3, Zenon DEF m, n
    <2> QED BY <1>3, <2>2, <2>4, Zenon
<1> QED BY <1>1, <1>2, <1>3, <1>4, <1>5, <1>6 DEF AllMayDo

\* A last access appended is the last.
LEMMA Ends ==
    ASSUME NEW s, NEW step, NEW op, NEW name, AllMayDo(s, op, name)
    PROVE  s \o <<step>> # <<>> /\ Last(s \o <<step>>) = step
<1>1. PICK S : s \in Seq(S)
    BY DEF AllMayDo
<1>2. s \in Seq(S \cup {step}) /\ <<step>> \in Seq(S \cup {step})
    BY <1>1
<1>3. /\ Len(s \o <<step>>) = Len(s) + 1 /\ Len(s) \in Nat
      /\ (s \o <<step>>)[Len(s) + 1] = step
    BY <1>2
<1> QED BY <1>3 DEF Last

LEMMA Mapped == ASSUME NEW T, NEW n \in Nat, NEW f \in [1..n -> T] PROVE f \in Seq(T)
OBVIOUS

LEMMA Tidies ==
    ASSUME NEW s, NEW op, NEW name, op = "selftest", AllMayDo(s, op, name)
    PROVE  AllMayDo(Tidy(s), op, name)
<1>1. PICK S : s \in Seq(S) /\ \A step \in S : MayDo(step, op, name)
    BY DEF AllMayDo
<1> DEFINE T == {[step EXCEPT !.tidy = TRUE] : step \in S}
<1>2. \A i \in DOMAIN s : s[i] \in S
    BY <1>1
<1>3. DOMAIN s = 1..Len(s) /\ Len(s) \in Nat
    BY <1>1
<1>4. Tidy(s) = [i \in 1..Len(s) |-> [s[i] EXCEPT !.tidy = TRUE]]
    BY <1>3 DEF Tidy
<1>5. \A i \in 1..Len(s) : [s[i] EXCEPT !.tidy = TRUE] \in T
    BY <1>2, <1>3
<1>6. Tidy(s) \in Seq(T)
    <2>1. [i \in 1..Len(s) |-> [s[i] EXCEPT !.tidy = TRUE]] \in [1..Len(s) -> T]
        BY <1>5
    <2> HIDE DEF T
    <2> QED BY <1>3, <1>4, <2>1, Mapped
<1>7. ASSUME NEW step \in S
      PROVE  MayDo([step EXCEPT !.tidy = TRUE], op, name)
    <2>1. MayDo(step, op, name)
        BY <1>1, <1>7
    <2> DEFINE tidied == [step EXCEPT !.tidy = TRUE]
    <2>2. DOMAIN tidied = DOMAIN step
        OBVIOUS
    <2>3. tidied.do = step.do /\ tidied.bank = step.bank /\ tidied.set = step.set
        BY <2>1 DEF MayDo
    <2> QED BY <2>1, <2>2, <2>3 DEF MayDo
<1> QED BY <1>6, <1>7 DEF AllMayDo

\* Lists of so many accesses, each of which may be done.
LEMMA ListOf1 ==
    ASSUME NEW op, NEW name, NEW a,
           /\ MayDo(a, op, name)
    PROVE  AllMayDo(<<a>>, op, name)
<1> DEFINE S == {a}
<1>1. <<a>> \in Seq(S)
    OBVIOUS
<1>2. \A step \in S : MayDo(step, op, name)
    OBVIOUS
<1> HIDE DEF S
<1> QED BY <1>1, <1>2 DEF AllMayDo

LEMMA ListOf2 ==
    ASSUME NEW op, NEW name, NEW a, NEW b,
           /\ MayDo(a, op, name) /\ MayDo(b, op, name)
    PROVE  AllMayDo(<<a, b>>, op, name)
<1> DEFINE S == {a, b}
<1>1. <<a, b>> \in Seq(S)
    OBVIOUS
<1>2. \A step \in S : MayDo(step, op, name)
    OBVIOUS
<1> HIDE DEF S
<1> QED BY <1>1, <1>2 DEF AllMayDo

LEMMA ListOf3 ==
    ASSUME NEW op, NEW name, NEW a, NEW b, NEW c,
           /\ MayDo(a, op, name) /\ MayDo(b, op, name) /\ MayDo(c, op, name)
    PROVE  AllMayDo(<<a, b, c>>, op, name)
<1> DEFINE S == {a, b, c}
<1>1. <<a, b, c>> \in Seq(S)
    OBVIOUS
<1>2. \A step \in S : MayDo(step, op, name)
    OBVIOUS
<1> HIDE DEF S
<1> QED BY <1>1, <1>2 DEF AllMayDo

LEMMA ListOf4 ==
    ASSUME NEW op, NEW name, NEW a, NEW b, NEW c, NEW d,
           /\ MayDo(a, op, name) /\ MayDo(b, op, name) /\ MayDo(c, op, name) /\ MayDo(d, op, name)
    PROVE  AllMayDo(<<a, b, c, d>>, op, name)
<1> DEFINE S == {a, b, c, d}
<1>1. <<a, b, c, d>> \in Seq(S)
    OBVIOUS
<1>2. \A step \in S : MayDo(step, op, name)
    OBVIOUS
<1> HIDE DEF S
<1> QED BY <1>1, <1>2 DEF AllMayDo

LEMMA ListOf5 ==
    ASSUME NEW op, NEW name, NEW a, NEW b, NEW c, NEW d, NEW e,
           /\ MayDo(a, op, name) /\ MayDo(b, op, name) /\ MayDo(c, op, name) /\ MayDo(d, op, name)
           /\ MayDo(e, op, name)
    PROVE  AllMayDo(<<a, b, c, d, e>>, op, name)
<1> DEFINE S == {a, b, c, d, e}
<1>1. <<a, b, c, d, e>> \in Seq(S)
    OBVIOUS
<1>2. \A step \in S : MayDo(step, op, name)
    OBVIOUS
<1> HIDE DEF S
<1> QED BY <1>1, <1>2 DEF AllMayDo

LEMMA ListOf6 ==
    ASSUME NEW op, NEW name, NEW a, NEW b, NEW c, NEW d, NEW e, NEW f,
           /\ MayDo(a, op, name) /\ MayDo(b, op, name) /\ MayDo(c, op, name) /\ MayDo(d, op, name)
           /\ MayDo(e, op, name) /\ MayDo(f, op, name)
    PROVE  AllMayDo(<<a, b, c, d, e, f>>, op, name)
<1> DEFINE S == {a, b, c, d, e, f}
<1>1. <<a, b, c, d, e, f>> \in Seq(S)
    OBVIOUS
<1>2. \A step \in S : MayDo(step, op, name)
    OBVIOUS
<1> HIDE DEF S
<1> QED BY <1>1, <1>2 DEF AllMayDo

LEMMA ListOf7 ==
    ASSUME NEW op, NEW name, NEW a, NEW b, NEW c, NEW d, NEW e, NEW f, NEW g,
           /\ MayDo(a, op, name) /\ MayDo(b, op, name) /\ MayDo(c, op, name) /\ MayDo(d, op, name)
           /\ MayDo(e, op, name) /\ MayDo(f, op, name) /\ MayDo(g, op, name)
    PROVE  AllMayDo(<<a, b, c, d, e, f, g>>, op, name)
<1> DEFINE S == {a, b, c, d, e, f, g}
<1>1. <<a, b, c, d, e, f, g>> \in Seq(S)
    OBVIOUS
<1>2. \A step \in S : MayDo(step, op, name)
    OBVIOUS
<1> HIDE DEF S
<1> QED BY <1>1, <1>2 DEF AllMayDo

LEMMA ListOf9 ==
    ASSUME NEW op, NEW name, NEW a, NEW b, NEW c, NEW d, NEW e, NEW f, NEW g, NEW h, NEW i,
           /\ MayDo(a, op, name) /\ MayDo(b, op, name) /\ MayDo(c, op, name) /\ MayDo(d, op, name)
           /\ MayDo(e, op, name) /\ MayDo(f, op, name) /\ MayDo(g, op, name) /\ MayDo(h, op, name)
           /\ MayDo(i, op, name)
    PROVE  AllMayDo(<<a, b, c, d, e, f, g, h, i>>, op, name)
<1> DEFINE S == {a, b, c, d, e, f, g, h, i}
<1>1. <<a, b, c, d, e, f, g, h, i>> \in Seq(S)
    OBVIOUS
<1>2. \A step \in S : MayDo(step, op, name)
    OBVIOUS
<1> HIDE DEF S
<1> QED BY <1>1, <1>2 DEF AllMayDo

LEMMA ListOf15 ==
    ASSUME NEW op, NEW name, NEW a, NEW b, NEW c, NEW d, NEW e, NEW f, NEW g, NEW h, NEW i, NEW j, NEW k, NEW l, NEW m, NEW n, NEW o,
           /\ MayDo(a, op, name) /\ MayDo(b, op, name) /\ MayDo(c, op, name) /\ MayDo(d, op, name)
           /\ MayDo(e, op, name) /\ MayDo(f, op, name) /\ MayDo(g, op, name) /\ MayDo(h, op, name)
           /\ MayDo(i, op, name) /\ MayDo(j, op, name) /\ MayDo(k, op, name) /\ MayDo(l, op, name)
           /\ MayDo(m, op, name) /\ MayDo(n, op, name) /\ MayDo(o, op, name)
    PROVE  AllMayDo(<<a, b, c, d, e, f, g, h, i, j, k, l, m, n, o>>, op, name)
<1> DEFINE S == {a, b, c, d, e, f, g, h, i, j, k, l, m, n, o}
<1>1. <<a, b, c, d, e, f, g, h, i, j, k, l, m, n, o>> \in Seq(S)
    OBVIOUS
<1>2. \A step \in S : MayDo(step, op, name)
    OBVIOUS
<1> HIDE DEF S
<1> QED BY <1>1, <1>2 DEF AllMayDo

(* ------------------------- the drivers' accesses ------------------------- *)

LEMMA Listens ==
    ASSUME NEW what, NEW name, what # "identify"
    PROVE  MayDo(Do(what), "read", name) 
<1>1. DOMAIN <<>> = {}
    OBVIOUS
<1> QED BY <1>1 DEF Do, Doing, MayDo

LEMMA Tried ==
    ASSUME NEW step, NEW name, MayDo(step, "read", name)
    PROVE  MayDo(Try(step), "read", name)
<1>1. DOMAIN Try(step) = DOMAIN step
    BY DEF Try
<1>2. Try(step).bank = step.bank /\ Try(step).set = step.set /\ Try(step).tidy = step.tidy /\ Try(step).do \in {"tryWrite", "tryRead"}
    BY DEF Try, MayDo
<1> QED BY <1>1, <1>2 DEF MayDo

LEMMA TriedOrLast ==
    ASSUME NEW step, NEW name, MayDo(step, "read", name)
    PROVE  MayDo(OrLast(step), "read", name)
<1>1. DOMAIN OrLast(step) = DOMAIN step
    BY DEF OrLast
<1>2. /\ OrLast(step).bank = step.bank /\ OrLast(step).set = step.set /\ OrLast(step).tidy = step.tidy
      /\ OrLast(step).do = "writeOrLast"
    BY DEF OrLast, MayDo
<1> QED BY <1>1, <1>2 DEF MayDo

LEMMA Answers == ASSUME NEW name PROVE MayDo(Identify, "probe", name)
<1>1. DOMAIN <<>> = {}
    OBVIOUS
<1> QED BY <1>1 DEF Identify, Do, Doing, MayDo

\* What the drivers write but in a probe, and the banks apart.
LEMMA SettingMay ==
    ASSUME NEW op, NEW name, op # "probe", NEW x, NEW y, NEW z
    PROVE  /\ MayDo(W([on |-> x]), op, name) /\ MayDo(W(Fill(x)), op, name) /\ MayDo(W(Flush), op, name)
           /\ MayDo(W([accel |-> x, arate |-> y]), op, name) /\ MayDo(W([gyro |-> x, grate |-> y]), op, name)
           /\ MayDo(W([arate |-> x, grate |-> y]), op, name) /\ MayDo(W([gyro |-> x]), op, name)
           /\ MayDo(W([accel |-> x]), op, name) /\ MayDo(W([pass |-> x]), op, name) /\ MayDo(W([stim |-> x]), op, name)
           /\ MayDo(W([arate |-> x, on |-> y]), op, name) /\ MayDo(W([on |-> x, arate |-> y]), op, name)
           /\ MayDo(W([arate |-> x]), op, name) /\ MayDo(W([cycles |-> x]), op, name)
           /\ MayDo(W([held |-> x, done |-> y]), op, name) /\ MayDo(W([done |-> x]), op, name)
           /\ MayDo(Keep(ScaleAt(x, y, z)), op, name) /\ MayDo(Keep(Scale(x, y)), op, name)
           /\ MayDo(Keep([irq |-> x, prev |-> y]), op, name) /\ MayDo(Keep([accel |-> x]), op, name)
<1>1. /\ "bank" \notin DOMAIN [on |-> x] /\ "bank" \notin DOMAIN Fill(x) /\ "bank" \notin DOMAIN Flush
      /\ "bank" \notin DOMAIN [accel |-> x, arate |-> y] /\ "bank" \notin DOMAIN [gyro |-> x, grate |-> y]
      /\ "bank" \notin DOMAIN [arate |-> x, grate |-> y] /\ "bank" \notin DOMAIN [gyro |-> x]
      /\ "bank" \notin DOMAIN [accel |-> x] /\ "bank" \notin DOMAIN [pass |-> x] /\ "bank" \notin DOMAIN [stim |-> x]
    BY DEF Fill, Flush
<1>2. /\ "bank" \notin DOMAIN [arate |-> x, on |-> y] /\ "bank" \notin DOMAIN [on |-> x, arate |-> y]
      /\ "bank" \notin DOMAIN [arate |-> x] /\ "bank" \notin DOMAIN [cycles |-> x]
      /\ "bank" \notin DOMAIN [held |-> x, done |-> y] /\ "bank" \notin DOMAIN [done |-> x]
      /\ "bank" \notin DOMAIN ScaleAt(x, y, z) /\ "bank" \notin DOMAIN Scale(x, y)
      /\ "bank" \notin DOMAIN [irq |-> x, prev |-> y]
    BY DEF ScaleAt, Scale
<1> QED BY <1>1, <1>2, Tells, Zenon

\* The two parts with register banks.
LEMMA Banks ==
    ASSUME NEW op, NEW name \in {"icm42688p", "icm20948"}, op # "probe", NEW bank, NEW set
    PROVE  MayDo(Bank(bank), op, name) /\ MayDo(WIn(bank, set), op, name)
<1>1. name \notin OneBank
    BY DEF OneBank
<1>2. MayDo(WIn(bank, set), op, name)
    BY <1>1 DEF WIn, Doing, MayDo
<1>3. MayDo(WIn(AnyBank, [bank |-> bank]), op, name)
    BY <1>1 DEF WIn, Doing, MayDo
<1> QED BY <1>2, <1>3 DEF Bank

\* Probes.
LEMMA ProbesMay ==
    ASSUME NEW name \in Imus \cup Mags
    PROVE  AllMayDo(Probe(name), "probe", name)
<1>1. MayDo(Identify, "probe", name) /\ MayDo(Look, "probe", name) /\ MayDo(Other, "probe", name)
    BY Answers, Plain
<1>2. AllMayDo(<<Identify>>, "probe", name) /\ AllMayDo(<<>>, "probe", name)
    BY <1>1, ListOf1, Empty
<1>3. MayDo(W([pass |-> TRUE]), "probe", name)
    <2>1. DOMAIN [pass |-> TRUE] = {"pass"}
        OBVIOUS
    <2> QED BY <2>1, WriteMay DEF Own
<1>4. AllMayDo(<<Look, Other, W([pass |-> TRUE]), Look>>, "probe", name)
    BY <1>1, <1>3, ListOf4
<1>5. AllMayDo(MpuProbe(TRUE), "probe", name) /\ AllMayDo(MpuProbe(FALSE), "probe", name)
    BY <1>2, <1>4, Join DEF MpuProbe
<1>6. CASE name = "icm20948"
    <2>1. DOMAIN [bank |-> 0] = {"bank"}
        OBVIOUS
    <2>2. Bank(0) = [do |-> "write", bank |-> AnyBank, set |-> [bank |-> 0], tidy |-> FALSE]
        BY DEF Bank, WIn, Doing
    <2>3. MayDo(Bank(0), "probe", name)
        BY <1>6, <2>1, <2>2 DEF MayDo, OneBank, Own
    <2>4. AllMayDo(Icm2Probe, "probe", name)
        BY <1>1, <2>3, ListOf2 DEF Icm2Probe
    <2> QED BY <1>6, <2>4 DEF Probe
<1>7. CASE name = "rm3100"
    <2>1. ASSUME NEW x
          PROVE  MayDo(W([cycles |-> x]), "probe", name)
        <3>1. DOMAIN [cycles |-> x] = {"cycles"}
            OBVIOUS
        <3> QED BY <1>7, <3>1, WriteMay DEF Own
    <2>2. AllMayDo(<<Identify, Look, W([cycles |-> 200]), Look>>, "probe", name)
        BY <1>1, <2>1, ListOf4
    <2>3. AllMayDo(<<W([cycles |-> part.cycles])>>, "probe", name)
        BY <2>1, ListOf1
    <2>4. AllMayDo(RmProbe, "probe", name)
        BY <1>2, <2>2, <2>3, Join DEF RmProbe
    <2> QED BY <1>7, <2>4 DEF Probe
<1> QED
    <2>1. CASE name \in {"mpu9250", "mpu6500"}
        BY <2>1, <1>5 DEF Probe
    <2>2. CASE name \notin {"mpu9250", "mpu6500", "icm20948", "rm3100"}
        BY <2>2, <1>2 DEF Probe, Imus, Mags, IsmProbe, LsmProbe, Icm4Probe, MmcProbe, Ak8Probe, Ak9Probe, Lis3Probe, Lis2Probe
    <2> QED BY <1>6, <1>7, <2>1, <2>2

LEMMA ResetsMay ==
    ASSUME NEW name \in Imus \cup Mags
    PROVE  AllMayDo(ResetOf(name), "reset", name)
<1>1. "reset" # "probe"
    OBVIOUS
<1>2. MayDo(Look, "reset", name) /\ MayDo(Other, "reset", name) /\ MayDo(Reset, "reset", name)
    BY <1>1, Plain, ResetMay, Zenon
<1> DEFINE cycles == 200
<1> HIDE DEF cycles
<1>3. /\ MayDo(W(Fill(FALSE)), "reset", name) /\ MayDo(W([on |-> FALSE]), "reset", name)
      /\ MayDo(W([cycles |-> cycles]), "reset", name) /\ MayDo(Keep([accel |-> cycles]), "reset", name)
      /\ MayDo(W([held |-> NoReading, done |-> FALSE]), "reset", name)
    BY <1>1, SettingMay, Zenon
<1>4. CASE name \in {"ism330dhcx", "lsm6dso"}
    <2>1. AllMayDo(<<W(Fill(FALSE)), Reset, Look>>, "reset", name)
        BY <1>2, <1>3, ListOf3, Zenon
    <2> QED BY <1>4, <2>1 DEF ResetOf, IsmReset, LsmReset
<1>5. CASE name \in {"icm42688p", "icm20948"}
    <2>1. AllMayDo(<<Bank(0), Reset, Look>>, "reset", name)
        BY <1>1, <1>2, <1>5, Banks, ListOf3
    <2> QED BY <1>5, <2>1 DEF ResetOf, Icm4Reset, Icm2Reset
<1>6. CASE name \in {"mpu9250", "mpu6500"}
    <2>1. AllMayDo(<<Reset, Look, Other>>, "reset", name)
        BY <1>2, ListOf3, Zenon
    <2> QED BY <1>6, <2>1 DEF ResetOf, MpuReset
<1>7. CASE name \in {"mmc5983ma", "lis3mdl", "lis2mdl"}
    <2>1. AllMayDo(<<Reset>>, "reset", name)
        BY <1>2, ListOf1, Zenon
    <2> QED BY <1>7, <2>1 DEF ResetOf, MmcReset, Lis3Reset, Lis2Reset
<1>8. CASE name \in {"ak8963", "ak09916"}
    <2>1. AllMayDo(<<W([on |-> FALSE]), Reset, Look>>, "reset", name)
        BY <1>2, <1>3, ListOf3, Zenon
    <2> QED BY <1>8, <2>1 DEF ResetOf, Ak8Reset, Ak9Reset
<1>9. CASE name = "rm3100"
    <2> DEFINE steps == <<W([on |-> FALSE]), W([cycles |-> cycles]), Other, W([held |-> NoReading, done |-> FALSE]),
                          Keep([accel |-> cycles])>>
    <2>1. AllMayDo(steps, "reset", name)
        BY <1>2, <1>3, ListOf5, Zenon
    <2>2. RmReset = steps
        BY SMT DEF RmReset, cycles
    <2> HIDE DEF steps
    <2> QED BY <1>9, <2>1, <2>2 DEF ResetOf
<1> QED BY <1>4, <1>5, <1>6, <1>7, <1>8, <1>9 DEF Imus, Mags

LEMMA RestartMay ==
    ASSUME NEW op, NEW name, op # "probe"
    PROVE  AllMayDo(FifoRestart, op, name)
<1>1. MayDo(W([on |-> FALSE]), op, name) /\ MayDo(W([on |-> TRUE]), op, name) /\ MayDo(W(Flush), op, name)
    BY SettingMay, Zenon
<1>2. MayDo(Other, op, name)
    BY Plain, Zenon
<1> QED BY <1>1, <1>2, ListOf4, Zenon DEF FifoRestart

LEMMA InitsMay ==
    ASSUME NEW name \in Imus \cup Mags, NEW c
    PROVE  AllMayDo(InitOf(name, c), "init", name)
<1>1. "init" # "probe" /\ "init" # "read"
    OBVIOUS
<1>2. MayDo(Look, "init", name) /\ MayDo(Other, "init", name)
    BY Plain, Zenon
<1>3. CASE name = "ism330dhcx"
    <2>1. /\ MayDo(W([accel |-> IsmAccel(c.accel), arate |-> IsmRate(c.odr)]), "init", name)
          /\ MayDo(W([gyro |-> IsmGyro(c.gyro), grate |-> IsmRate(c.odr)]), "init", name)
          /\ MayDo(W(Fill(FALSE)), "init", name) /\ MayDo(W([on |-> TRUE]), "init", name)
          /\ MayDo(Keep(ScaleAt(IsmAccel(c.accel), IsmGyro(c.gyro), IsmActual(c.odr))), "init", name)
        BY <1>1, SettingMay, Zenon
    <2>2. AllMayDo(IsmInit(c), "init", name)
        BY <1>2, <2>1, ListOf9, Zenon DEF IsmInit
    <2> QED BY <1>3, <2>2 DEF InitOf
<1>4. CASE name = "lsm6dso"
    <2>1. /\ MayDo(W([accel |-> LsmAccel(c.accel), arate |-> LsmRate(c.odr)]), "init", name)
          /\ MayDo(W([gyro |-> LsmGyro(c.gyro), grate |-> LsmRate(c.odr)]), "init", name)
          /\ MayDo(W(Fill(FALSE)), "init", name) /\ MayDo(W([on |-> TRUE]), "init", name)
          /\ MayDo(Keep(ScaleAt(LsmAccel(c.accel), LsmGyro(c.gyro), LsmActual(c.odr))), "init", name)
        BY <1>1, SettingMay, Zenon
    <2>2. AllMayDo(LsmInit(c), "init", name)
        BY <1>2, <2>1, ListOf9, Zenon DEF LsmInit
    <2> QED BY <1>4, <2>2 DEF InitOf
<1>5. CASE name = "icm42688p"
    <2>1. /\ MayDo(W([accel |-> Icm4Accel(c.accel), arate |-> Icm4Rate(c.odr)]), "init", name)
          /\ MayDo(W([gyro |-> Icm4Gyro(c.gyro), grate |-> Icm4Rate(c.odr)]), "init", name)
          /\ MayDo(W(Flush), "init", name) /\ MayDo(W([on |-> TRUE]), "init", name)
          /\ MayDo(Keep(ScaleAt(Icm4Accel(c.accel), Icm4Gyro(c.gyro), Icm4Actual(c.odr))), "init", name)
        BY <1>1, SettingMay, Zenon
    <2>2. AllMayDo(Icm4Init(c), "init", name)
        BY <1>2, <2>1, ListOf7, Zenon DEF Icm4Init
    <2> QED BY <1>5, <2>2 DEF InitOf
<1>6. CASE name \in {"mpu9250", "mpu6500"}
    <2>1. /\ MayDo(W([arate |-> MpuActual(c.odr), grate |-> MpuActual(c.odr)]), "init", name)
          /\ MayDo(W([gyro |-> MpuGyro(c.gyro)]), "init", name) /\ MayDo(W([accel |-> MpuAccel(c.accel)]), "init", name)
          /\ MayDo(W([pass |-> TRUE]), "init", name)
          /\ MayDo(Keep(Scale(MpuAccel(c.accel), MpuGyro(c.gyro))), "init", name)
        BY <1>1, SettingMay, Zenon
    <2>2. AllMayDo(<<Other, W([arate |-> MpuActual(c.odr), grate |-> MpuActual(c.odr)]),
                     W([gyro |-> MpuGyro(c.gyro)]), W([accel |-> MpuAccel(c.accel)]), Other>>, "init", name)
        BY <1>2, <2>1, ListOf5, Zenon
    <2>3. AllMayDo(<<Other, W([pass |-> TRUE]), Keep(Scale(MpuAccel(c.accel), MpuGyro(c.gyro)))>>, "init", name)
        BY <1>2, <2>1, ListOf3, Zenon
    <2>4. AllMayDo(FifoRestart, "init", name)
        BY <1>1, RestartMay, Zenon
    <2>5. AllMayDo(MpuInit(c), "init", name)
        BY <2>2, <2>3, <2>4, Join, Zenon DEF MpuInit
    <2> QED BY <1>6, <2>5 DEF InitOf
<1>7. CASE name = "icm20948"
    <2>1. /\ MayDo(W(Flush), "init", name) /\ MayDo(W([on |-> TRUE]), "init", name) /\ MayDo(W([pass |-> TRUE]), "init", name)
          /\ MayDo(Keep(Scale(Icm2Accel(c.accel), Icm2Gyro(c.gyro))), "init", name)
        BY <1>1, SettingMay, Zenon
    <2>2. /\ MayDo(Bank(0), "init", name) /\ MayDo(Bank(2), "init", name)
          /\ MayDo(WIn(2, [grate |-> Icm2Actual(c.odr)]), "init", name) /\ MayDo(WIn(2, [gyro |-> Icm2Gyro(c.gyro)]), "init", name)
          /\ MayDo(WIn(2, [arate |-> Icm2AccelRate(c.odr)]), "init", name)
          /\ MayDo(WIn(2, [accel |-> Icm2Accel(c.accel)]), "init", name)
        <3>1. name \in {"icm42688p", "icm20948"}
            BY <1>7
        <3> QED BY <1>1, <3>1, Banks, Zenon
    <2>3. AllMayDo(Icm2Init(c), "init", name)
        BY <1>2, <2>1, <2>2, ListOf15, Zenon DEF Icm2Init
    <2> QED BY <1>7, <2>3 DEF InitOf
<1>8. CASE name = "mmc5983ma"
    <2>1. MayDo(Keep([irq |-> c.irq, prev |-> NothingYet]), "init", name) /\ MayDo(W([arate |-> MmcRate(c.odr), on |-> TRUE]), "init", name)
        BY <1>1, SettingMay, Zenon
    <2>2. AllMayDo(MmcInit(c), "init", name)
        BY <1>2, <2>1, ListOf4, Zenon DEF MmcInit
    <2> QED BY <1>8, <2>2 DEF InitOf
<1>9. CASE name = "rm3100"
    <2>1. /\ MayDo(W([cycles |-> RmCycles(c.odr)]), "init", name) /\ MayDo(W([arate |-> RmRate(c.odr)]), "init", name)
          /\ MayDo(W([on |-> TRUE]), "init", name) /\ MayDo(Keep([accel |-> RmCycles(c.odr)]), "init", name)
        BY <1>1, SettingMay, Zenon
    <2>2. AllMayDo(RmInit(c), "init", name)
        BY <2>1, ListOf4, Zenon DEF RmInit
    <2> QED BY <1>9, <2>2 DEF InitOf
<1>10. CASE name = "ak8963"
    <2>1. MayDo(W([on |-> FALSE]), "init", name) /\ MayDo(W([on |-> TRUE, arate |-> Ak8Rate(c.odr)]), "init", name)
        BY <1>1, SettingMay, Zenon
    <2>2. AllMayDo(Ak8Init(c), "init", name)
        BY <1>2, <2>1, ListOf5, Zenon DEF Ak8Init
    <2> QED BY <1>10, <2>2 DEF InitOf
<1>11. CASE name = "ak09916"
    <2>1. MayDo(W([on |-> FALSE]), "init", name) /\ MayDo(W([on |-> TRUE, arate |-> Ak9Rate(c.odr)]), "init", name)
        BY <1>1, SettingMay, Zenon
    <2>2. AllMayDo(Ak9Init(c), "init", name)
        BY <2>1, ListOf2, Zenon DEF Ak9Init
    <2> QED BY <1>11, <2>2 DEF InitOf
<1>12. CASE name = "lis3mdl"
    <2>1. MayDo(W([arate |-> Lis3Rate(c.odr)]), "init", name) /\ MayDo(W([on |-> TRUE]), "init", name)
        BY <1>1, SettingMay, Zenon
    <2>2. AllMayDo(Lis3Init(c), "init", name)
        BY <1>2, <2>1, ListOf4, Zenon DEF Lis3Init
    <2> QED BY <1>12, <2>2 DEF InitOf
<1>13. CASE name = "lis2mdl"
    <2>1. MayDo(W([arate |-> Lis2Rate(c.odr), on |-> TRUE]), "init", name)
        BY <1>1, SettingMay, Zenon
    <2>2. AllMayDo(Lis2Init(c), "init", name)
        BY <1>2, <2>1, ListOf2, Zenon DEF Lis2Init
    <2> QED BY <1>13, <2>2 DEF InitOf
<1> QED BY <1>3, <1>4, <1>5, <1>6, <1>7, <1>8, <1>9, <1>10, <1>11, <1>12, <1>13 DEF Imus, Mags

LEMMA ReadsMay ==
    ASSUME NEW name \in Imus \cup Mags
    PROVE  AllMayDo(ReadOf(name), "read", name)
<1>1. "read" # "probe"
    OBVIOUS
<1>2. MayDo(Look, "read", name) /\ MayDo(W([done |-> FALSE]), "read", name)
    BY <1>1, Plain, SettingMay, Zenon
<1>3. MayDo(Try(Look), "read", name)
    BY <1>2, Tried, Zenon
<1>4. /\ MayDo(Do("count"), "read", name) /\ MayDo(Do("drain"), "read", name) /\ MayDo(Do("deliver"), "read", name)
      /\ MayDo(Do("overflow"), "read", name) /\ MayDo(Do("ready"), "read", name) /\ MayDo(Do("output"), "read", name)
      /\ MayDo(Do("differ"), "read", name) /\ MayDo(Do("strong"), "read", name)
      /\ MayDo(Do("outputClears"), "read", name)
    BY Listens
<1>5. AllMayDo(<<Do("count"), Do("drain")>>, "read", name)
    BY <1>4, ListOf2, Zenon
<1>6. AllMayDo(<<Do("count"), Do("drain"), Try(Look), Do("deliver")>>, "read", name)
    BY <1>3, <1>4, ListOf4, Zenon
<1>7. CASE name \in {"ism330dhcx", "icm20948"}
    <2>1. AllMayDo(IsmRead, "read", name) /\ AllMayDo(Icm2Read, "read", name)
        BY <1>6, Zenon DEF IsmRead, Icm2Read
    <2> QED BY <1>7, <2>1 DEF ReadOf
<1>8. CASE name = "lsm6dso"
    <2>1. AllMayDo(<<Try(Look), Do("deliver")>>, "read", name)
        BY <1>3, <1>4, ListOf2, Zenon
    <2>2. AllMayDo(LsmRead, "read", name)
        BY <1>5, <2>1, Join, Zenon DEF LsmRead, LsmDrain
    <2> QED BY <1>8, <2>2 DEF ReadOf
<1>9. CASE name = "icm42688p"
    <2>1. MayDo(Try(Bank(0)), "read", name) /\ MayDo(OrLast(Bank(1)), "read", name)
        BY <1>1, <1>9, Banks, Tried, TriedOrLast
    <2>2. AllMayDo(<<OrLast(Bank(1)), Try(Look), Try(Bank(0)), Do("deliver")>>, "read", name)
        BY <1>3, <1>4, <2>1, ListOf4, Zenon
    <2>3. AllMayDo(Icm4Read, "read", name)
        BY <1>5, <2>2, Join, Zenon DEF Icm4Read, Icm4Drain
    <2> QED BY <1>9, <2>3 DEF ReadOf
<1>10. CASE name \in {"mpu9250", "mpu6500"}
    <2>1. AllMayDo(MpuRead, "read", name)
        BY <1>2, <1>3, <1>4, ListOf6, Zenon DEF MpuRead
    <2> QED BY <1>10, <2>1 DEF ReadOf
<1>11. CASE name = "mmc5983ma"
    <2>1. /\ AllMayDo(<<Do("ready")>>, "read", name) /\ AllMayDo(<<Do("differ")>>, "read", name)
          /\ AllMayDo(<<Do("deliver")>>, "read", name) /\ AllMayDo(<<>>, "read", name)
        BY <1>4, ListOf1, Empty, Zenon
    <2>2. AllMayDo(<<Do("output"), W([done |-> FALSE])>>, "read", name)
        BY <1>2, <1>4, ListOf2, Zenon
    <2>3. /\ AllMayDo(IF drv.irq THEN <<>> ELSE <<Do("ready")>>, "read", name)
          /\ AllMayDo(IF drv.irq THEN <<Do("differ")>> ELSE <<>>, "read", name)
        BY <2>1
    <2>4. AllMayDo(MmcRead, "read", name)
        BY <2>1, <2>2, <2>3, Join, Zenon DEF MmcRead
    <2> QED BY <1>11, <2>4 DEF ReadOf
<1>12. CASE name \in {"rm3100", "lis3mdl", "lis2mdl"}
    <2>1. AllMayDo(RmRead, "read", name) /\ AllMayDo(Lis3Read, "read", name) /\ AllMayDo(Lis2Read, "read", name)
        BY <1>4, ListOf3, Zenon DEF RmRead, Lis3Read, Lis2Read
    <2> QED BY <1>12, <2>1 DEF ReadOf
<1>13. CASE name = "ak8963"
    <2>1. AllMayDo(Ak8Read, "read", name)
        BY <1>4, ListOf4, Zenon DEF Ak8Read
    <2> QED BY <1>13, <2>1 DEF ReadOf
<1>14. CASE name = "ak09916"
    <2>1. AllMayDo(Ak9Read, "read", name)
        BY <1>2, <1>4, ListOf5, Zenon DEF Ak9Read
    <2> QED BY <1>14, <2>1 DEF ReadOf
<1> QED BY <1>7, <1>8, <1>9, <1>10, <1>11, <1>12, <1>13, <1>14 DEF Imus, Mags

\* A self-test turns the force off at its end.
LEMMA TestsMay ==
    ASSUME NEW name
    PROVE  /\ AllMayDo(SelfTestOf(name), "selftest", name)
           /\ SelfTestOf(name) # <<>> /\ Last(SelfTestOf(name)) = ForceOff
<1>1. "selftest" # "probe"
    OBVIOUS
<1>2. MayDo(Look, "selftest", name) /\ MayDo(Other, "selftest", name) /\ MayDo(Reset, "selftest", name)
    BY <1>1, Plain, ResetMay, Zenon
<1>3. MayDo(W([stim |-> TRUE]), "selftest", name) /\ MayDo(W([stim |-> FALSE]), "selftest", name)
    BY <1>1, SettingMay, Zenon
<1>4. AllMayDo(<<ForceOff>>, "selftest", name)
    BY <1>3, ListOf1, Zenon DEF ForceOff
<1>5. AllMayDo(IsmSelfTest, "selftest", name) /\ IsmSelfTest # <<>> /\ Last(IsmSelfTest) = ForceOff
    <2> DEFINE rate == 52063
               dps == 2000
    <2> HIDE DEF rate, dps
    <2>1. /\ MayDo(W(Fill(FALSE)), "selftest", name) /\ MayDo(W([accel |-> 4, arate |-> rate]), "selftest", name)
          /\ MayDo(W([gyro |-> dps, grate |-> rate]), "selftest", name)
        BY <1>1, SettingMay, Zenon
    <2> DEFINE setup == <<Other, W([accel |-> 4, arate |-> rate]), W([gyro |-> dps, grate |-> rate])>>
               forced == Tidy(<<Look, W([stim |-> TRUE]), Look, W([stim |-> FALSE]), Look, W([stim |-> TRUE]), Look>>)
               sofar == IsmReset \o setup \o forced
    <2>2. AllMayDo(IsmReset, "selftest", name)
        BY <1>2, <2>1, ListOf3, Zenon DEF IsmReset
    <2>3. AllMayDo(setup, "selftest", name)
        BY <1>2, <2>1, ListOf3, Zenon
    <2>4. AllMayDo(<<Look, W([stim |-> TRUE]), Look, W([stim |-> FALSE]), Look, W([stim |-> TRUE]), Look>>, "selftest", name)
        BY <1>2, <1>3, ListOf7, Zenon
    <2>5. AllMayDo(forced, "selftest", name)
        BY <2>4, Tidies, Zenon
    <2>6. IsmSelfTest = sofar \o <<ForceOff>>
        BY SMT DEF IsmSelfTest, rate, dps
    <2> HIDE DEF setup, forced
    <2>7. AllMayDo(sofar, "selftest", name)
        BY <2>2, <2>3, <2>5, Join, Zenon
    <2> HIDE DEF sofar
    <2> QED BY <1>4, <2>6, <2>7, Join, Ends, Zenon
<1>6. AllMayDo(MpuSelfTest, "selftest", name) /\ MpuSelfTest # <<>> /\ Last(MpuSelfTest) = ForceOff
    <2> DEFINE rate == 1000000
               dps == 250
    <2> HIDE DEF rate, dps
    <2>1. /\ MayDo(W([arate |-> rate, grate |-> rate]), "selftest", name) /\ MayDo(W([gyro |-> dps]), "selftest", name)
          /\ MayDo(W([accel |-> 2]), "selftest", name) /\ MayDo(Keep(Scale(2, dps)), "selftest", name)
        BY <1>1, SettingMay, Zenon
    <2> DEFINE setup == <<Other, W([arate |-> rate, grate |-> rate]), W([gyro |-> dps]), W([accel |-> 2]), Other,
                          Keep(Scale(2, dps))>>
               forced == Tidy(<<Look, W([stim |-> TRUE]), Other>> \o FifoRestart \o <<Look>>)
               sofar == MpuReset \o setup \o FifoRestart \o forced
    <2>2. AllMayDo(MpuReset, "selftest", name)
        BY <1>2, ListOf3, Zenon DEF MpuReset
    <2>3. AllMayDo(setup, "selftest", name)
        BY <1>2, <2>1, ListOf6, Zenon
    <2>4. AllMayDo(FifoRestart, "selftest", name)
        BY <1>1, RestartMay, Zenon
    <2>5. AllMayDo(<<Look, W([stim |-> TRUE]), Other>>, "selftest", name) /\ AllMayDo(<<Look>>, "selftest", name)
        BY <1>2, <1>3, ListOf3, ListOf1, Zenon
    <2>6. AllMayDo(forced, "selftest", name)
        BY <2>4, <2>5, Join, Tidies, Zenon
    <2>7. MpuSelfTest = sofar \o <<ForceOff>>
        BY SMT DEF MpuSelfTest, rate, dps
    <2> HIDE DEF setup, forced
    <2>8. AllMayDo(sofar, "selftest", name)
        BY <2>2, <2>3, <2>4, <2>6, Join, Zenon
    <2> HIDE DEF sofar
    <2> QED BY <1>4, <2>7, <2>8, Join, Ends, Zenon
<1> QED BY <1>5, <1>6 DEF SelfTestOf

(* ------------------------- steps of the process -------------------------- *)

LEMMA DownIs == IsProc(Down) /\ Down.op = "none" /\ StartOf(Down)
<1>1. Down.jobs \in Seq(JobsOf(fitted))
    BY DEF Down
<1>2. Down = [field \in DOMAIN Down |-> Down[field]]
    BY DEF Down
<1>3. Down.op = "none" /\ Down.state = "down"
    BY DEF Down
<1> QED BY <1>1, <1>2, <1>3 DEF IsProc, StartOf

LEMMA DownFields ==
    DOMAIN Down = {"state", "jobs", "op", "steps", "cfg", "rc", "hand", "hurt", "bad", "found"}
BY DEF Down

LEMMA RestIs ==
    ASSUME IsProc(proc)
    PROVE  /\ IsProc(Rest) /\ Rest.steps = Tail(proc.steps)
           /\ Rest.op = proc.op /\ Rest.rc = proc.rc /\ Rest.hurt = proc.hurt /\ Rest.state = proc.state
           /\ Rest.jobs = proc.jobs /\ Rest.found = proc.found
<1>1. proc = [field \in DOMAIN Down |-> proc[field]]
    BY DEF IsProc
<1>2. Rest = [field \in DOMAIN Down |-> Rest[field]]
    BY <1>1 DEF Rest
<1>3. /\ Rest.steps = Tail(proc.steps)
      /\ Rest.op = proc.op /\ Rest.rc = proc.rc /\ Rest.hurt = proc.hurt /\ Rest.state = proc.state
      /\ Rest.jobs = proc.jobs /\ Rest.found = proc.found
    BY <1>1, DownFields DEF Rest
<1> QED BY <1>2, <1>3 DEF IsProc

\* The end of an operation.
LEMMA OverIs ==
    ASSUME IsProc(proc), NEW rc
    PROVE  IsProc(Over(rc)) /\ Over(rc).op = "none"
<1> DEFINE p == [proc EXCEPT !.op = "none", !.steps = <<>>, !.rc = rc]
<1>1. proc = [field \in DOMAIN Down |-> proc[field]] /\ proc.jobs \in Seq(JobsOf(fitted))
    BY DEF IsProc
<1>2. p = [field \in DOMAIN Down |-> p[field]] /\ p.op = "none" /\ p.jobs = proc.jobs
    BY <1>1, DownFields
<1> HIDE DEF p
<1> DEFINE q == [p EXCEPT !.state = "up"]
           r == [p EXCEPT !.bad = @ \/ rc < 0]
           s == [p EXCEPT !.state = "up", !.jobs = <<>>]
           t == [Down EXCEPT !.hurt = proc.hurt, !.rc = rc, !.state = "failed"]
<1>3. q = [field \in DOMAIN Down |-> q[field]] /\ q.op = "none" /\ q.jobs = proc.jobs
    BY <1>2, DownFields
<1>4. r = [field \in DOMAIN Down |-> r[field]] /\ r.op = "none" /\ r.jobs = proc.jobs
    BY <1>2, DownFields
<1>5. s = [field \in DOMAIN Down |-> s[field]] /\ s.op = "none" /\ s.jobs = <<>>
    BY <1>2, DownFields
<1>6. t = [field \in DOMAIN Down |-> t[field]] /\ t.op = "none" /\ t.jobs = <<>>
    BY DownFields, DownIs DEF IsProc, Down
<1>7. Over(rc) \in {p, q, r, s, t}
    BY DEF Over, p
<1>8. <<>> \in Seq(JobsOf(fitted))
    OBVIOUS
<1> HIDE DEF q, r, s, t
<1>9. IsProc(p) /\ IsProc(q) /\ IsProc(r) /\ IsProc(s) /\ IsProc(t)
    BY <1>1, <1>2, <1>3, <1>4, <1>5, <1>6, <1>8, Zenon DEF IsProc
<1> QED BY <1>2, <1>3, <1>4, <1>5, <1>6, <1>7, <1>9

LEMMA OverStart ==
    ASSUME IsProc(proc), StartOf(proc), NEW rc,
           (rc # 0 /\ proc.op # "read" /\ ~(proc.op = "probe" /\ proc.state = "up")) => proc.hurt \/ fitted = "icm42688p"
    PROVE  StartOf(Over(rc))
<1> DEFINE p == [proc EXCEPT !.op = "none", !.steps = <<>>, !.rc = rc]
<1>1. proc = [field \in DOMAIN Down |-> proc[field]]
    BY DEF IsProc
<1>2. DOMAIN p = DOMAIN Down /\ p.state = proc.state /\ p.hurt = proc.hurt
    BY <1>1, DownFields
<1> HIDE DEF p
<1> DEFINE q == [p EXCEPT !.state = "up"]
           r == [p EXCEPT !.bad = @ \/ rc < 0]
           s == [p EXCEPT !.state = "up", !.jobs = <<>>]
           t == [Down EXCEPT !.hurt = proc.hurt, !.rc = rc, !.state = "failed"]
<1>3. q.state = "up" /\ r.state = proc.state /\ r.hurt = proc.hurt /\ s.state = "up" /\ t.hurt = proc.hurt
    BY <1>2, DownFields
<1>4. \/ Over(rc) \in {p, q, r, s}
      \/ Over(rc) = t /\ (proc.hurt \/ fitted = "icm42688p")
    BY DEF Over, p
<1> HIDE DEF q, r, s, t
<1>5. StartOf(p) /\ StartOf(q) /\ StartOf(r) /\ StartOf(s)
    BY <1>2, <1>3 DEF StartOf
<1>6. (proc.hurt \/ fitted = "icm42688p") => StartOf(t)
    BY <1>3, Zenon DEF StartOf
<1> QED BY <1>4, <1>5, <1>6

\* A write, and what it leaves alone.
LEMMA LandedIs ==
    ASSUME IsPart(part), NEW step
    PROVE  /\ Landed(step) = [field \in DOMAIN PowerOn |-> Landed(step)[field]]
           /\ \A field \in DOMAIN PowerOn \ DOMAIN step.set : Landed(step)[field] = part[field]
           /\ \A field \in DOMAIN PowerOn \cap DOMAIN step.set :
                  Landed(step)[field] = IF Reaches(step) THEN step.set[field] ELSE part[field]
<1>1. part = [field \in DOMAIN PowerOn |-> part[field]]
    BY DEF IsPart
<1>2. Landed(step) = IF Reaches(step) THEN With(part, step.set) ELSE part
    BY DEF Landed
<1>3. With(part, step.set) = [field \in DOMAIN part |-> IF field \in DOMAIN step.set THEN step.set[field] ELSE part[field]]
    BY DEF With
<1> HIDE DEF PowerOn
<1>4. DOMAIN part = DOMAIN PowerOn
    BY <1>1
<1> QED BY <1>1, <1>2, <1>3, <1>4

LEMMA PartFields ==
    DOMAIN PowerOn = {"bank", "accel", "gyro", "arate", "grate", "on", "stim", "pass", "cycles", "held", "done"}
BY DEF PowerOn

LEMMA LandedPart ==
    ASSUME IsPart(part), NEW step, NEW op, MayDo(step, op, fitted)
    PROVE  IsPart(Landed(step))
<1>1. Landed(step) = [field \in DOMAIN PowerOn |-> Landed(step)[field]]
    BY LandedIs
<1>2. fitted \in OneBank => Landed(step).bank = 0
    BY LandedIs, PartFields DEF IsPart, MayDo
<1> QED BY <1>1, <1>2 DEF IsPart

\* Part way through a list.
LEMMA Behead1 ==
    ASSUME NEW T, NEW x \in Seq(T), NEW a
    PROVE  <<a>> \o x # <<>> /\ Head(<<a>> \o x) = a /\ Tail(<<a>> \o x) = x
<1> DEFINE S == T \cup {a}
<1>1. x \in Seq(S) /\ <<a>> \in Seq(S)
    OBVIOUS
<1> HIDE DEF S
<1> QED BY <1>1

LEMMA Behead2 ==
    ASSUME NEW T, NEW x \in Seq(T), NEW a, NEW b
    PROVE  <<a, b>> \o x # <<>> /\ Head(<<a, b>> \o x) = a /\ Tail(<<a, b>> \o x) = <<b>> \o x
<1> DEFINE S == T \cup {a, b}
<1>1. x \in Seq(S) /\ <<a, b>> \in Seq(S) /\ <<b>> \in Seq(S)
    OBVIOUS
<1> HIDE DEF S
<1> QED BY <1>1

LEMMA Behead3 ==
    ASSUME NEW T, NEW x \in Seq(T), NEW a, NEW b, NEW c
    PROVE  <<a, b, c>> \o x # <<>> /\ Head(<<a, b, c>> \o x) = a /\ Tail(<<a, b, c>> \o x) = <<b, c>> \o x
<1> DEFINE S == T \cup {a, b, c}
<1>1. x \in Seq(S) /\ <<a, b, c>> \in Seq(S) /\ <<b, c>> \in Seq(S)
    OBVIOUS
<1> HIDE DEF S
<1> QED BY <1>1

LEMMA Behead4 ==
    ASSUME NEW T, NEW x \in Seq(T), NEW a, NEW b, NEW c, NEW d
    PROVE  <<a, b, c, d>> \o x # <<>> /\ Head(<<a, b, c, d>> \o x) = a /\ Tail(<<a, b, c, d>> \o x) = <<b, c, d>> \o x
<1> DEFINE S == T \cup {a, b, c, d}
<1>1. x \in Seq(S) /\ <<a, b, c, d>> \in Seq(S) /\ <<b, c, d>> \in Seq(S)
    OBVIOUS
<1> HIDE DEF S
<1> QED BY <1>1

\* The force is turned off by the self-test's last access.
LEMMA ForceStep ==
    ASSUME DriversInv, proc.op = "selftest", proc.steps # <<>>,
           proc' = Rest, Step1.do = "write" => part' = Landed(Step1)
    PROVE  Forcing'
<1>1. /\ IsPart(part) /\ IsProc(proc) /\ fitted \in Chips
      /\ AllMayDo(proc.steps, "selftest", fitted) /\ Last(proc.steps) = ForceOff
    BY DEF DriversInv, Forcing
<1>2. Rest.steps = Tail(proc.steps)
    BY <1>1, RestIs
<1>3. CASE Tail(proc.steps) # <<>>
    <2>1. Last(Tail(proc.steps)) = ForceOff
        BY <1>1, <1>3, Onward
    <2> QED BY <1>2, <1>3, <2>1 DEF Forcing
<1>4. CASE Tail(proc.steps) = <<>>
    <2>1. Step1 = ForceOff
        BY <1>1, <1>4, Onward DEF Step1
    <2>2. ForceOff = [do |-> "write", bank |-> 0, set |-> [stim |-> FALSE], tidy |-> FALSE]
        BY Writes DEF ForceOff
    <2>3. part.bank = 0
        <3>1. HasSelfTest(fitted)
            BY <1>1 DEF IsProc, JobsOf
        <3> QED BY <1>1, <3>1 DEF IsPart, HasSelfTest, OneBank, Imus
    <2>4. part' = Landed(ForceOff)
        BY <2>1, <2>2
    <2>5. Reaches(ForceOff)
        BY <2>2, <2>3 DEF Reaches
    <2>6. "stim" \in DOMAIN PowerOn \cap DOMAIN ForceOff.set /\ ForceOff.set["stim"] = FALSE
        BY <2>2, PartFields
    <2>7. Landed(ForceOff)["stim"] = FALSE
        BY <1>1, <2>5, <2>6, LandedIs
    <2>8. part'["stim"] = FALSE
        BY <2>4, <2>7
    <2> QED BY <1>2, <1>4, <2>8 DEF Forcing
<1> QED BY <1>3, <1>4

\* The RM3100's probe puts back what it borrows.
LEMMA BorrowStep ==
    ASSUME IsPart(part), NEW cycles, Borrows(cycles, part.cycles, proc.steps), proc.steps # <<>>, part.bank = 0
    PROVE  Borrows(cycles, (IF Step1.do = "write" THEN Landed(Step1) ELSE part).cycles, Tail(proc.steps))
<1> DEFINE part1 == IF Step1.do = "write" THEN Landed(Step1) ELSE part
           steps1 == Tail(proc.steps)
<1>0. SUFFICES Borrows(cycles, part1.cycles, steps1)
    OBVIOUS
<1> DEFINE x == PutBack(cycles)
           w == W([cycles |-> 200])
           v == W([cycles |-> cycles])
<1>1. x \in Seq({v})
    <2>1. <<>> \in Seq({v}) /\ <<v>> \in Seq({v})
        OBVIOUS
    <2> QED BY <2>1 DEF PutBack
<1>2. Identify.do = "identify" /\ Look.do = "read"
    BY DEF Identify, Look, Do, Doing
<1>3. ASSUME NEW n
      PROVE  W([cycles |-> n]).do = "write" /\ Landed(W([cycles |-> n])).cycles = n
    <2>1. W([cycles |-> n]) = [do |-> "write", bank |-> 0, set |-> [cycles |-> n], tidy |-> FALSE]
        BY Writes
    <2>2. Reaches(W([cycles |-> n]))
        BY <2>1 DEF Reaches
    <2>3. "cycles" \in DOMAIN PowerOn \cap DOMAIN W([cycles |-> n]).set /\ W([cycles |-> n]).set["cycles"] = n
        BY <2>1, PartFields
    <2> QED BY <2>1, <2>2, <2>3, LandedIs
<1>4. w.do = "write" /\ Landed(w).cycles = 200 /\ v.do = "write" /\ Landed(v).cycles = cycles
    BY <1>3
<1> HIDE DEF w, x
<1> HIDE DEF part1, steps1
<1>5. CASE part.cycles = cycles /\ proc.steps = <<Identify, Look, w, Look>> \o x
    <2>1. Step1 = Identify /\ steps1 = <<Look, w, Look>> \o x
        BY <1>1, <1>5, Behead4 DEF Step1, steps1
    <2>2. part1 = part
        BY <1>2, <2>1 DEF part1
    <2> QED BY <1>5, <2>1, <2>2 DEF w, x, Borrows
<1>6. CASE part.cycles = cycles /\ proc.steps = <<Look, w, Look>> \o x
    <2>1. Step1 = Look /\ steps1 = <<w, Look>> \o x
        BY <1>1, <1>6, Behead3 DEF Step1, steps1
    <2>2. part1 = part
        BY <1>2, <2>1 DEF part1
    <2> QED BY <1>6, <2>1, <2>2 DEF w, x, Borrows
<1>7. CASE proc.steps = <<w, Look>> \o x
    <2>1. Step1 = w /\ steps1 = <<Look>> \o x
        BY <1>1, <1>7, Behead2 DEF Step1, steps1
    <2>2. part1.cycles = 200
        BY <1>4, <2>1 DEF part1
    <2> QED BY <2>1, <2>2 DEF x, Borrows
<1>8. CASE part.cycles = 200 /\ proc.steps = <<Look>> \o x
    <2>1. Step1 = Look /\ steps1 = x
        BY <1>1, <1>8, Behead1 DEF Step1, steps1
    <2>2. part1 = part
        BY <1>2, <2>1 DEF part1
    <2> QED BY <1>8, <2>1, <2>2 DEF x, Borrows
<1>9. CASE proc.steps = x
    <2>1. x = <<v>>
        BY <1>9 DEF PutBack, x
    <2>2. Step1 = v /\ steps1 = <<>>
        <3>1. Head(<<v>>) = v /\ Tail(<<v>>) = <<>>
            OBVIOUS
        <3> QED BY <1>9, <2>1, <3>1, Zenon DEF Step1, steps1
    <2>3. part1.cycles = cycles
        BY <1>4, <2>2 DEF part1
    <2> QED BY <2>2, <2>3 DEF Borrows
<1> QED BY <1>5, <1>6, <1>7, <1>8, <1>9 DEF Borrows, w, x

\* A probe's next access.
LEMMA ProbeStep ==
    ASSUME DriversInv, proc.op = "probe", proc.steps # <<>>, fitted' = fitted,
           proc' = Rest, part' = IF Step1.do = "write" THEN Landed(Step1) ELSE part,
           Step1.do = "identify" => part.bank = 0
    PROVE  Probing'
<1>1. /\ IsPart(part) /\ IsProc(proc) /\ fitted \in Chips /\ Probing
      /\ AllMayDo(proc.steps, "probe", fitted)
    BY DEF DriversInv
<1>2. /\ proc'.steps = Tail(proc.steps) /\ proc'.rc = proc.rc /\ proc'.found = proc.found
    BY <1>1, RestIs
<1>3. MayDo(Step1, "probe", fitted)
    BY <1>1, Onward DEF Step1
<1>4. \A field \in Own : part'[field] = part[field]
    <2>1. DOMAIN Step1.set \cap Own = {}
        BY <1>3 DEF MayDo
    <2>2. Own \subseteq DOMAIN PowerOn
        BY PartFields DEF Own
    <2>3. \A field \in Own : Landed(Step1)[field] = part[field]
        BY <1>1, <2>1, <2>2, LandedIs
    <2> QED BY <2>3
<1>5. ASSUME fitted # "rm3100"
      PROVE  part'.cycles = part.cycles
    <2>1. "cycles" \in DOMAIN PowerOn \ DOMAIN Step1.set
        BY <1>3, <1>5, PartFields DEF MayDo
    <2>2. Landed(Step1).cycles = part.cycles
        BY <1>1, <2>1, LandedIs
    <2> QED BY <2>2
<1>6. ASSUME fitted = "rm3100"
      PROVE  Borrows(proc'.found.cycles, part'.cycles, proc'.steps)
    <2>1. Borrows(proc.found.cycles, part.cycles, proc.steps)
        BY <1>1, <1>6 DEF Probing
    <2>2. part.bank = 0
        BY <1>1, <1>6 DEF IsPart, OneBank, Mags
    <2>3. Borrows(proc.found.cycles, (IF Step1.do = "write" THEN Landed(Step1) ELSE part).cycles, Tail(proc.steps))
        BY <1>1, <2>1, <2>2, BorrowStep
    <2> QED BY <1>2, <2>3, Zenon
<1>7. ASSUME fitted = "icm20948"
      PROVE  AnswersInBank'
    <2>1. AnswersInBank
        BY <1>1, <1>7 DEF Probing
    <2>2. CASE proc.steps = Icm2Probe
        <3>1. Step1 = Bank(0) /\ proc'.steps = <<Identify>>
            <4>1. \A a, b : Head(<<a, b>>) = a /\ Tail(<<a, b>>) = <<b>>
                OBVIOUS
            <4> QED BY <1>2, <2>2, <4>1, Zenon DEF Icm2Probe, Step1
        <3>2. Bank(0) = [do |-> "write", bank |-> AnyBank, set |-> [bank |-> 0], tidy |-> FALSE]
            BY DEF Bank, WIn, Doing
        <3>3. Reaches(Bank(0))
            BY <3>2 DEF Reaches
        <3>4. "bank" \in DOMAIN PowerOn \cap DOMAIN Bank(0).set /\ Bank(0).set["bank"] = 0
            BY <3>2, PartFields
        <3>5. Landed(Bank(0)).bank = 0
            BY <1>1, <3>3, <3>4, LandedIs
        <3>6. part'.bank = 0
            BY <3>1, <3>2, <3>5
        <3> QED BY <3>1, <3>6 DEF AnswersInBank
    <2>3. CASE proc.steps = <<Identify>>
        <3>1. proc'.steps = <<>>
            <4>1. \A a : Tail(<<a>>) = <<>>
                OBVIOUS
            <4> QED BY <1>2, <2>3, <4>1, Zenon
        <3> QED BY <3>1 DEF AnswersInBank
    <2> QED BY <2>1, <2>2, <2>3 DEF AnswersInBank
<1>8. /\ proc.rc = 0 /\ \A field \in Own : part[field] = proc.found[field]
      /\ fitted # "rm3100" => part.cycles = proc.found.cycles
    BY <1>1 DEF Probing
<1>9. /\ proc'.rc = 0 /\ \A field \in Own : part'[field] = proc'.found[field]
      /\ fitted # "rm3100" => part'.cycles = proc'.found.cycles
    BY <1>2, <1>4, <1>5, <1>8
<1> QED BY <1>6, <1>7, <1>9 DEF Probing

(* ------------------------------ each action ------------------------------ *)

\* The chips are the twelve.
LEMMA Fitted == ASSUME DriversInv PROVE fitted \in Imus \cup Mags /\ IsPart(part) /\ IsProc(proc) /\ StartOf(proc)
BY ChipsAssumption DEF DriversInv

\* With nothing under way, that is all.
LEMMA IdleKeeps ==
    ASSUME DriversInv, fitted' = fitted, IsPart(part)', IsProc(proc)', StartOf(proc)', proc'.op = "none"
    PROVE  DriversInv'
BY DEF DriversInv

\* The next access of an operation other than a read.
LEMMA Goes ==
    ASSUME DriversInv, proc.op \notin {"none", "read"}, proc.steps # <<>>, fitted' = fitted, proc' = Rest,
           part' = IF Step1.do = "write" THEN Landed(Step1) ELSE part,
           Step1.do = "identify" => part.bank = 0
    PROVE  DriversInv'
<1>1. IsPart(part) /\ IsProc(proc) /\ StartOf(proc) /\ AllMayDo(proc.steps, proc.op, fitted) /\ (proc.rc # 0 => proc.hurt)
    BY DEF DriversInv
<1>2. /\ IsProc(Rest) /\ proc'.steps = Tail(proc.steps) /\ proc'.op = proc.op /\ proc'.rc = proc.rc
      /\ proc'.hurt = proc.hurt /\ proc'.state = proc.state
    BY <1>1, RestIs
<1>3. MayDo(Step1, proc.op, fitted) /\ AllMayDo(Tail(proc.steps), proc.op, fitted)
    BY <1>1, Onward DEF Step1
<1>4. IsPart(part')
    BY <1>1, <1>3, LandedPart
<1>5. proc.op = "probe" => Probing'
    BY ProbeStep
<1>6. proc.op = "selftest" => Forcing'
    BY ForceStep
<1>7. IsPart(part)' /\ IsProc(proc)' /\ StartOf(proc)'
    BY <1>1, <1>2, <1>4 DEF IsPart, IsProc, StartOf
<1>8. AllMayDo(proc'.steps, proc'.op, fitted')
    BY <1>2, <1>3
<1> QED BY <1>1, <1>2, <1>5, <1>6, <1>7, <1>8 DEF DriversInv

\* A step of a read.
LEMMA Reads ==
    ASSUME DriversInv, fitted' = fitted, IsPart(part)', IsProc(proc)', StartOf(proc)', proc'.op = "read",
           AllMayDo(proc'.steps, "read", fitted), proc'.rc # 0 => proc'.hurt
    PROVE  DriversInv'
BY DEF DriversInv

\* An operation over.
LEMMA Leaves ==
    ASSUME DriversInv, fitted' = fitted, IsPart(part'), NEW rc, proc' = Over(rc), StartOf(Over(rc))
    PROVE  DriversInv'
<1>1. IsProc(proc)
    BY DEF DriversInv
<1>2. IsProc(Over(rc)) /\ Over(rc).op = "none"
    BY <1>1, OverIs
<1>3. IsPart(part)' /\ IsProc(proc)' /\ StartOf(proc)' /\ proc'.op = "none"
    BY <1>2 DEF IsPart, IsProc, StartOf
<1> QED BY <1>3, IdleKeeps

\* A part with its measurement taken, or a new one.
LEMMA Measured ==
    ASSUME IsPart(part), NEW held, NEW done, NEW q, q = [part EXCEPT !.done = done, !.held = held]
    PROVE  /\ IsPart(q)
           /\ \A field \in DOMAIN PowerOn \ {"held", "done"} : q[field] = part[field]
<1>1. part = [field \in DOMAIN PowerOn |-> part[field]]
    BY DEF IsPart
<1>2. q = [field \in DOMAIN PowerOn |-> q[field]] /\ \A field \in DOMAIN PowerOn \ {"held", "done"} : q[field] = part[field]
    BY <1>1, PartFields
<1>3. q.bank = part.bank
    BY <1>2, PartFields
<1> QED BY <1>2, <1>3 DEF IsPart

\* In a process that is well formed, one field set.
LEMMA HandIs ==
    ASSUME IsProc(proc), NEW hand
    PROVE  LET q == [Rest EXCEPT !.hand = hand]
           IN /\ IsProc(q) /\ q.steps = Tail(proc.steps) /\ q.op = proc.op /\ q.rc = proc.rc
              /\ q.hurt = proc.hurt /\ q.state = proc.state
<1> DEFINE q == [Rest EXCEPT !.hand = hand]
<1>1. /\ IsProc(Rest) /\ Rest.steps = Tail(proc.steps) /\ Rest.op = proc.op /\ Rest.rc = proc.rc
      /\ Rest.hurt = proc.hurt /\ Rest.state = proc.state
    BY RestIs
<1>2. Rest = [field \in DOMAIN Down |-> Rest[field]]
    BY <1>1 DEF IsProc
<1>3. /\ q = [field \in DOMAIN Down |-> q[field]] /\ q.steps = Rest.steps /\ q.op = Rest.op /\ q.rc = Rest.rc
      /\ q.hurt = Rest.hurt /\ q.state = Rest.state /\ q.jobs = Rest.jobs
    BY <1>2, DownFields
<1> HIDE DEF q
<1>4. IsProc(q)
    BY <1>1, <1>3 DEF IsProc
<1> QED BY <1>1, <1>3, <1>4 DEF q

LEMMA AccessInReads ==
    ASSUME DriversInv, Access, proc.op = "read"
    PROVE  DriversInv'
<1>1. /\ IsPart(part) /\ IsProc(proc) /\ StartOf(proc) /\ AllMayDo(proc.steps, "read", fitted) /\ (proc.rc # 0 => proc.hurt)
      /\ proc.steps # <<>> /\ fitted' = fitted
    BY DEF DriversInv, Access
<1>2. MayDo(Step1, "read", fitted) /\ AllMayDo(Tail(proc.steps), "read", fitted)
    BY <1>1, Onward DEF Step1
<1>3. IsPart(Landed(Step1))
    BY <1>1, <1>2, LandedPart
<1>4. ASSUME NEW hand
      PROVE  IsPart([part EXCEPT !.done = FALSE, !.held = hand])
    BY <1>1, Measured
<1>5. IsPart(part')
    <2>1. \/ part' = part
          \/ part' = Landed(Step1)
          \/ \E hand : part' = [part EXCEPT !.done = FALSE, !.held = hand]
        BY DEF Access
    <2> QED BY <1>1, <1>3, <1>4, <2>1
<1>6. \/ proc' = Rest
      \/ \E hand : proc' = [Rest EXCEPT !.hand = hand]
      \/ \E rc : proc' = Over(rc)
      \/ proc' = [proc EXCEPT !.steps = FifoRestart]
    BY DEF Access
<1>7. CASE proc' = Rest
    <2>1. /\ IsProc(Rest) /\ proc'.steps = Tail(proc.steps) /\ proc'.op = "read" /\ proc'.rc = proc.rc
          /\ proc'.hurt = proc.hurt /\ proc'.state = proc.state
        BY <1>1, <1>7, RestIs
    <2>2. IsPart(part)' /\ IsProc(proc)' /\ StartOf(proc)'
        BY <1>1, <1>5, <1>7, <2>1 DEF IsPart, IsProc, StartOf
    <2> QED BY <1>1, <1>2, <2>1, <2>2, Reads
<1>8. CASE \E hand : proc' = [Rest EXCEPT !.hand = hand]
    <2>1. PICK hand : proc' = [Rest EXCEPT !.hand = hand]
        BY <1>8
    <2>2. /\ IsProc(proc') /\ proc'.steps = Tail(proc.steps) /\ proc'.op = "read" /\ proc'.rc = proc.rc
          /\ proc'.hurt = proc.hurt /\ proc'.state = proc.state
        BY <1>1, <2>1, HandIs
    <2>3. IsPart(part)' /\ IsProc(proc)' /\ StartOf(proc)'
        BY <1>1, <1>5, <2>2 DEF IsPart, IsProc, StartOf
    <2> QED BY <1>1, <1>2, <2>2, <2>3, Reads
<1>9. CASE \E rc : proc' = Over(rc)
    <2>1. PICK rc : proc' = Over(rc)
        BY <1>9
    <2>2. StartOf(Over(rc))
        BY <1>1, OverStart
    <2> QED BY <1>1, <1>5, <2>1, <2>2, Leaves
<1>10. CASE proc' = [proc EXCEPT !.steps = FifoRestart]
    <2>1. proc = [field \in DOMAIN Down |-> proc[field]]
        BY <1>1 DEF IsProc
    <2>2. /\ proc' = [field \in DOMAIN Down |-> proc'[field]] /\ proc'.steps = FifoRestart /\ proc'.op = "read"
          /\ proc'.rc = proc.rc /\ proc'.hurt = proc.hurt /\ proc'.state = proc.state /\ proc'.jobs = proc.jobs
        BY <1>10, <2>1, DownFields
    <2>3. AllMayDo(FifoRestart, "read", fitted)
        BY RestartMay
    <2>4. IsPart(part)' /\ IsProc(proc)' /\ StartOf(proc)'
        BY <1>1, <1>5, <2>2 DEF IsPart, IsProc, StartOf
    <2> QED BY <1>1, <2>2, <2>3, <2>4, Reads
<1> QED BY <1>6, <1>7, <1>8, <1>9, <1>10

LEMMA AccessElsewhere ==
    ASSUME DriversInv, Access, proc.op # "read"
    PROVE  DriversInv'
<1>1. /\ IsPart(part) /\ IsProc(proc) /\ StartOf(proc) /\ AllMayDo(proc.steps, proc.op, fitted) /\ (proc.rc # 0 => proc.hurt)
      /\ proc.steps # <<>> /\ fitted' = fitted /\ proc.op # "none"
    BY DEF DriversInv, Access
<1>2. MayDo(Step1, proc.op, fitted)
    BY <1>1, Onward DEF Step1
<1>3. Step1.do \in {"write", "read", "keep", "identify"} /\ (Step1.do = "identify" => proc.op = "probe")
    BY <1>2 DEF MayDo
<1>4. CASE Step1.do # "identify"
    <2>1. proc' = Rest /\ part' = IF Step1.do = "write" THEN Landed(Step1) ELSE part
        BY <1>3, <1>4 DEF Access
    <2> QED BY <1>1, <1>4, <2>1, Goes
<1>5. CASE Step1.do = "identify"
    <2>1. part' = part /\ proc' = IF part.bank = 0 THEN Rest ELSE Over(-1)
        BY <1>5 DEF Access
    <2>2. CASE part.bank = 0
        BY <1>1, <1>5, <2>1, <2>2, Goes
    <2>3. CASE part.bank # 0
        <3>1. fitted = "icm42688p"
            <4>1. fitted \notin OneBank
                BY <1>1, <2>3 DEF IsPart
            <4>2. ASSUME fitted = "icm20948"
                  PROVE  FALSE
                <5>1. AnswersInBank
                    BY <1>1, <1>3, <1>5, <4>2 DEF DriversInv, Probing
                <5>2. proc.steps = Icm2Probe
                    BY <1>1, <2>3, <5>1 DEF AnswersInBank
                <5>3. Step1 = Bank(0)
                    <6>1. \A a, b : Head(<<a, b>>) = a
                        OBVIOUS
                    <6> QED BY <5>2, <6>1, Zenon DEF Icm2Probe, Step1
                <5>4. Bank(0).do = "write"
                    BY DEF Bank, WIn, Doing
                <5> QED BY <1>5, <5>3, <5>4
            <4> QED BY <4>1, <4>2, Fitted DEF OneBank
        <3>2. StartOf(Over(-1))
            BY <1>1, <3>1, OverStart
        <3> QED BY <1>1, <2>1, <2>3, <3>2, Leaves
    <2> QED BY <2>2, <2>3
<1> QED BY <1>4, <1>5

LEMMA FailsInv ==
    ASSUME DriversInv, AccessFails
    PROVE  DriversInv'
<1>1. /\ IsPart(part) /\ IsProc(proc) /\ StartOf(proc) /\ AllMayDo(proc.steps, proc.op, fitted) /\ (proc.rc # 0 => proc.hurt)
      /\ proc.steps # <<>> /\ fitted' = fitted /\ proc.op # "none"
    BY DEF DriversInv, AccessFails
<1>2. /\ MayDo(Step1, proc.op, fitted) /\ AllMayDo(Tail(proc.steps), proc.op, fitted)
      /\ AllMayDo(<<Last(proc.steps)>>, proc.op, fitted)
    BY <1>1, Onward DEF Step1
<1>3. IsPart(part')
    <2>1. IsPart(Landed(Step1))
        BY <1>1, <1>2, LandedPart
    <2>2. IsPart(With(part, Flush))
        <3>1. part = [field \in DOMAIN PowerOn |-> part[field]]
            BY <1>1 DEF IsPart
        <3>2. DOMAIN Flush = {"held", "done"}
            BY DEF Flush
        <3>3. DOMAIN part = DOMAIN PowerOn
            BY <3>1
        <3>4. With(part, Flush) = [field \in DOMAIN PowerOn |-> IF field \in DOMAIN Flush THEN Flush[field] ELSE part[field]]
            BY <3>3 DEF With
        <3>5. With(part, Flush) = [field \in DOMAIN PowerOn |-> With(part, Flush)[field]]
            BY <3>4
        <3>6. With(part, Flush).bank = part.bank
            BY <3>2, <3>4, PartFields
        <3> QED BY <1>1, <3>5, <3>6 DEF IsPart
    <2> QED BY <1>1, <2>1, <2>2 DEF AccessFails
<1> DEFINE over == Over(-1)
           skipping == [proc EXCEPT !.steps = <<Last(@)>>]
           tidying == [proc EXCEPT !.steps = <<Last(@)>>, !.rc = -1]
<1>4. proc = [field \in DOMAIN Down |-> proc[field]]
    BY <1>1 DEF IsProc
<1>5. \/ Step1.do \in {"tryWrite", "tryRead"} /\ proc' = [Rest EXCEPT !.hurt = TRUE]
      \/ Step1.do = "writeOrLast" /\ proc' = [skipping EXCEPT !.hurt = TRUE]
      \/ Step1.tidy /\ proc' = [tidying EXCEPT !.hurt = TRUE]
      \/ proc' = [over EXCEPT !.hurt = TRUE]
    BY DEF AccessFails
<1>6. CASE Step1.do \in {"tryWrite", "tryRead"} /\ proc' = [Rest EXCEPT !.hurt = TRUE]
    <2>1. proc.op = "read"
        BY <1>2, <1>6 DEF MayDo
    <2>2. IsProc(Rest) /\ Rest.steps = Tail(proc.steps) /\ Rest.op = proc.op /\ Rest.jobs = proc.jobs
        BY <1>1, RestIs
    <2>3. Rest = [field \in DOMAIN Down |-> Rest[field]]
        BY <2>2 DEF IsProc
    <2>4. /\ proc' = [field \in DOMAIN Down |-> proc'[field]] /\ proc'.steps = Rest.steps /\ proc'.op = Rest.op
          /\ proc'.hurt = TRUE /\ proc'.jobs = Rest.jobs
        BY <1>6, <2>3, DownFields
    <2>5. IsPart(part)' /\ IsProc(proc)' /\ StartOf(proc)'
        BY <1>1, <1>3, <2>2, <2>4 DEF IsPart, IsProc, StartOf
    <2> QED BY <1>1, <1>2, <2>1, <2>2, <2>4, <2>5, Reads
<1>7. CASE Step1.do = "writeOrLast" /\ proc' = [skipping EXCEPT !.hurt = TRUE]
    <2>1. proc.op = "read"
        BY <1>2, <1>7 DEF MayDo
    <2>2. skipping = [field \in DOMAIN Down |-> skipping[field]] /\ skipping.steps = <<Last(proc.steps)>>
          /\ skipping.op = "read" /\ skipping.jobs = proc.jobs
        BY <1>4, <2>1, DownFields
    <2> HIDE DEF skipping
    <2>3. /\ proc' = [field \in DOMAIN Down |-> proc'[field]] /\ proc'.steps = <<Last(proc.steps)>>
          /\ proc'.op = "read" /\ proc'.jobs = proc.jobs /\ proc'.hurt = TRUE
        BY <1>7, <2>2, DownFields
    <2>4. IsPart(part)' /\ IsProc(proc)' /\ StartOf(proc)'
        BY <1>1, <1>3, <2>1, <2>3 DEF IsPart, IsProc, StartOf
    <2>5. AllMayDo(proc'.steps, proc'.op, fitted')
        BY <1>1, <1>2, <2>1, <2>3
    <2> QED BY <1>1, <2>3, <2>4, <2>5, Reads
<1>8. CASE Step1.tidy /\ proc' = [tidying EXCEPT !.hurt = TRUE]
    <2>1. proc.op = "selftest"
        BY <1>2, <1>8 DEF MayDo
    <2>2. tidying = [field \in DOMAIN Down |-> tidying[field]] /\ tidying.steps = <<Last(proc.steps)>>
          /\ tidying.op = "selftest" /\ tidying.jobs = proc.jobs /\ tidying.rc = -1
        BY <1>4, <2>1, DownFields
    <2> HIDE DEF tidying
    <2>3. /\ proc' = [field \in DOMAIN Down |-> proc'[field]] /\ proc'.steps = <<Last(proc.steps)>>
          /\ proc'.op = "selftest" /\ proc'.jobs = proc.jobs /\ proc'.hurt = TRUE
        BY <1>8, <2>2, DownFields
    <2>4. Last(proc.steps) = ForceOff
        BY <1>1, <2>1 DEF DriversInv, Forcing
    <2>5. proc'.steps # <<>> /\ Last(proc'.steps) = ForceOff
        <3>1. \A a : <<a>> # <<>> /\ Last(<<a>>) = a
            BY DEF Last
        <3> QED BY <2>3, <2>4, <3>1, Zenon
    <2>6. Forcing'
        BY <2>5 DEF Forcing
    <2>7. IsPart(part)' /\ IsProc(proc)' /\ StartOf(proc)'
        BY <1>1, <1>3, <2>1, <2>3 DEF IsPart, IsProc, StartOf
    <2>8. AllMayDo(proc'.steps, proc'.op, fitted')
        BY <1>1, <1>2, <2>1, <2>3
    <2>9. fitted' \in Chips
        BY <1>1 DEF DriversInv
    <2>10. proc'.op # "probe"
        BY <2>3
    <2> QED BY <2>3, <2>6, <2>7, <2>8, <2>9, <2>10 DEF DriversInv
<1>9. CASE proc' = [over EXCEPT !.hurt = TRUE]
    <2>1. IsProc(over) /\ over.op = "none"
        BY <1>1, OverIs
    <2> HIDE DEF over
    <2>2. over = [field \in DOMAIN Down |-> over[field]] /\ over.jobs \in Seq(JobsOf(fitted))
        BY <2>1 DEF IsProc
    <2>3. /\ proc' = [field \in DOMAIN Down |-> proc'[field]] /\ proc'.op = "none" /\ proc'.hurt = TRUE
          /\ proc'.jobs = over.jobs
        BY <1>9, <2>1, <2>2, DownFields
    <2>4. IsPart(part)' /\ IsProc(proc)' /\ StartOf(proc)'
        BY <1>1, <1>3, <2>2, <2>3 DEF IsPart, IsProc, StartOf
    <2> QED BY <1>1, <2>3, <2>4, IdleKeeps
<1> QED BY <1>5, <1>6, <1>7, <1>8, <1>9

LEMMA ReturnInv ==
    ASSUME DriversInv, Return
    PROVE  DriversInv'
<1>1. IsPart(part) /\ IsProc(proc) /\ StartOf(proc) /\ (proc.rc # 0 => proc.hurt) /\ fitted' = fitted /\ part' = part
    BY DEF DriversInv, Return
<1>2. StartOf(Over(proc.rc))
    BY <1>1, OverStart
<1> QED BY <1>1, <1>2, Leaves DEF Return

LEMMA MeasureInv ==
    ASSUME DriversInv, Measure
    PROVE  DriversInv'
<1>1. IsPart(part) /\ IsProc(proc) /\ StartOf(proc) /\ fitted' = fitted /\ proc' = proc
    BY DEF DriversInv, Measure
<1>2. PICK held : part' = [part EXCEPT !.done = TRUE, !.held = held]
    BY DEF Measure
<1>3. IsPart(part') /\ \A field \in DOMAIN PowerOn \ {"held", "done"} : part'[field] = part[field]
    BY <1>1, <1>2, Measured
<1>4. /\ part'.bank = part.bank /\ part'.cycles = part.cycles /\ part'.stim = part.stim
      /\ \A field \in Own : part'[field] = part[field]
    BY <1>3, PartFields DEF Own
<1>5. proc.op = "probe" /\ Probing => Probing'
    BY <1>1, <1>4 DEF Probing, AnswersInBank
<1>6. Forcing => Forcing'
    BY <1>1, <1>4 DEF Forcing
<1>7. IsPart(part)' /\ IsProc(proc)' /\ StartOf(proc)'
    BY <1>1, <1>3 DEF IsPart, IsProc, StartOf
<1> QED BY <1>1, <1>5, <1>6, <1>7 DEF DriversInv

LEMMA KillInv ==
    ASSUME DriversInv, Kill
    PROVE  DriversInv'
<1>1. IsPart(part) /\ fitted' = fitted /\ part' = part /\ proc' = Down
    BY DEF DriversInv, Kill
<1>2. IsPart(part)' /\ IsProc(proc)' /\ StartOf(proc)' /\ proc'.op = "none"
    BY <1>1, DownIs DEF IsPart, IsProc, StartOf
<1> QED BY <1>1, <1>2, IdleKeeps

LEMMA StartInv ==
    ASSUME DriversInv, Start
    PROVE  DriversInv'
<1>1. IsPart(part) /\ fitted' = fitted /\ part' = part
    BY DEF DriversInv, Start
<1>2. PICK c : proc' = [Down EXCEPT !.state = "starting", !.jobs = <<"probe", "reset", "init">>, !.cfg = c]
    BY DEF Start
<1>3. Down = [field \in DOMAIN Down |-> Down[field]] /\ Down.op = "none"
    BY DownIs DEF IsProc
<1>4. /\ proc' = [field \in DOMAIN Down |-> proc'[field]] /\ proc'.op = "none" /\ proc'.state = "starting"
      /\ proc'.jobs = <<"probe", "reset", "init">>
    <2> HIDE DEF Down
    <2> QED BY <1>2, <1>3, DownFields
<1>5. <<"probe", "reset", "init">> \in Seq(JobsOf(fitted))
    BY DEF JobsOf
<1>6. IsPart(part)' /\ IsProc(proc)' /\ StartOf(proc)'
    BY <1>1, <1>4, <1>5 DEF IsPart, IsProc, StartOf
<1> QED BY <1>1, <1>4, <1>6, IdleKeeps

LEMMA ChooseInv ==
    ASSUME DriversInv, Choose
    PROVE  DriversInv'
<1>1. IsPart(part) /\ IsProc(proc) /\ StartOf(proc) /\ fitted' = fitted /\ part' = part /\ proc.op = "none" /\ proc.state = "up"
    BY DEF DriversInv, Choose
<1>2. proc = [field \in DOMAIN Down |-> proc[field]]
    BY <1>1 DEF IsProc
<1>3. PICK jobs, state, bad :
          /\ proc' = [proc EXCEPT !.jobs = jobs, !.state = state, !.bad = bad]
          /\ jobs \in Seq(JobsOf(fitted)) /\ state \in {"up", "recovering", "testing"}
    <2>1. /\ <<"read">> \in Seq(JobsOf(fitted)) /\ <<"reset", "init">> \in Seq(JobsOf(fitted))
          /\ <<"probe">> \in Seq(JobsOf(fitted))
          /\ HasSelfTest(fitted) => <<"selftest", "reset", "init">> \in Seq(JobsOf(fitted))
        BY DEF JobsOf
    <2>2. \A jobs : [proc EXCEPT !.jobs = jobs] = [proc EXCEPT !.jobs = jobs, !.state = proc.state, !.bad = proc.bad]
        BY <1>2, DownFields
    <2>3. \A jobs, state : [proc EXCEPT !.jobs = jobs, !.state = state]
                              = [proc EXCEPT !.jobs = jobs, !.state = state, !.bad = proc.bad]
        BY <1>2, DownFields
    <2>4. CASE proc' = [proc EXCEPT !.jobs = <<"read">>] \/ proc' = [proc EXCEPT !.jobs = <<"probe">>]
        BY <1>1, <2>1, <2>2, <2>4
    <2>5. CASE proc' = [proc EXCEPT !.jobs = <<"reset", "init">>, !.state = "recovering", !.bad = FALSE]
        BY <2>1, <2>5
    <2>6. CASE HasSelfTest(fitted) /\ proc' = [proc EXCEPT !.jobs = <<"selftest", "reset", "init">>, !.state = "testing"]
        BY <2>1, <2>3, <2>6
    <2> QED BY <2>4, <2>5, <2>6 DEF Choose
<1>4. /\ proc' = [field \in DOMAIN Down |-> proc'[field]] /\ proc'.op = "none" /\ proc'.state = state /\ proc'.jobs = jobs
    BY <1>1, <1>2, <1>3, DownFields
<1>5. IsPart(part)' /\ IsProc(proc)' /\ StartOf(proc)'
    BY <1>1, <1>3, <1>4 DEF IsPart, IsProc, StartOf
<1> QED BY <1>1, <1>4, <1>5, IdleKeeps

\* A probe begins with all of its promises kept.
LEMMA ProbeBegins ==
    ASSUME NEW p, p.steps = Probe(fitted), p.rc = 0, p.found = part,
           proc' = p, part' = part, fitted' = fitted
    PROVE  Probing'
<1>1. fitted = "rm3100" => Borrows(part.cycles, part.cycles, p.steps)
    <2>1. ASSUME fitted = "rm3100"
          PROVE  p.steps = <<Identify, Look, W([cycles |-> 200]), Look>> \o PutBack(part.cycles)
        BY <2>1 DEF Probe, RmProbe, PutBack
    <2> QED BY <2>1 DEF Borrows
<1>2. fitted = "icm20948" => p.steps = Icm2Probe
    BY DEF Probe
<1> QED BY <1>1, <1>2 DEF Probing, AnswersInBank

LEMMA BeginInv ==
    ASSUME DriversInv, BeginJob
    PROVE  DriversInv'
<1>1. /\ IsPart(part) /\ IsProc(proc) /\ StartOf(proc) /\ fitted' = fitted /\ part' = part /\ fitted \in Imus \cup Mags
      /\ proc.jobs # <<>> /\ fitted' \in Chips
    BY Fitted DEF BeginJob, DriversInv
<1> DEFINE op == Head(proc.jobs)
<1>2. op \in JobsOf(fitted) /\ Tail(proc.jobs) \in Seq(JobsOf(fitted))
    BY <1>1 DEF IsProc
<1>3. proc = [field \in DOMAIN Down |-> proc[field]]
    BY <1>1 DEF IsProc
<1> DEFINE steps == CASE op = "probe" -> Probe(fitted) [] op = "reset" -> ResetOf(fitted)
                      [] op = "init" -> InitOf(fitted, proc.cfg) [] op = "read" -> ReadOf(fitted)
                      [] op = "selftest" -> SelfTestOf(fitted)
<1>4. proc' = [proc EXCEPT !.op = op, !.jobs = Tail(@), !.rc = 0, !.found = part, !.steps = steps]
    BY DEF BeginJob
<1>5. AllMayDo(steps, op, fitted) /\ (op = "probe" => steps = Probe(fitted)) /\ (op = "selftest" => steps = SelfTestOf(fitted))
    <2>1. op \in {"probe", "reset", "init", "read", "selftest"}
        BY <1>2 DEF JobsOf
    <2> HIDE DEF op
    <2>2. CASE op = "probe"
        BY <1>1, <2>2, ProbesMay
    <2>3. CASE op = "reset"
        BY <1>1, <2>3, ResetsMay
    <2>4. CASE op = "init"
        BY <1>1, <2>4, InitsMay
    <2>5. CASE op = "read"
        BY <1>1, <2>5, ReadsMay
    <2>6. CASE op = "selftest"
        BY <2>6, TestsMay
    <2> QED BY <2>1, <2>2, <2>3, <2>4, <2>5, <2>6
<1>6. op # "none"
    BY <1>2 DEF JobsOf
<1> HIDE DEF op, steps
<1>7. /\ proc' = [field \in DOMAIN Down |-> proc'[field]] /\ proc'.op = op /\ proc'.jobs = Tail(proc.jobs)
      /\ proc'.rc = 0 /\ proc'.found = part /\ proc'.steps = steps /\ proc'.state = proc.state /\ proc'.hurt = proc.hurt
    BY <1>3, <1>4, DownFields
<1>8. IsPart(part)' /\ IsProc(proc)' /\ StartOf(proc)'
    BY <1>1, <1>2, <1>7 DEF IsPart, IsProc, StartOf
<1>9. op = "probe" => Probing'
    BY <1>1, <1>5, <1>7, ProbeBegins
<1>10. op = "selftest" => Forcing'
    BY <1>5, <1>7, TestsMay DEF Forcing
<1> QED BY <1>1, <1>5, <1>6, <1>7, <1>8, <1>9, <1>10 DEF DriversInv

LEMMA DriversStart == DriversInit => DriversInv
<1> SUFFICES ASSUME DriversInit PROVE DriversInv
    OBVIOUS
<1>1. fitted \in Chips /\ part = PowerOn /\ proc = Down
    BY DEF DriversInit
<1>2. PowerOn = [field \in DOMAIN PowerOn |-> PowerOn[field]] /\ PowerOn.bank = 0
    BY DEF PowerOn
<1>3. IsPart(part)
    BY <1>1, <1>2 DEF IsPart
<1> QED BY <1>1, <1>3, DownIs DEF DriversInv

LEMMA DriversStep == DriversInv /\ [DriversNext]_driverVars => DriversInv'
<1> SUFFICES ASSUME DriversInv, [DriversNext]_driverVars
             PROVE  DriversInv'
    OBVIOUS
<1>1. CASE Start
    BY <1>1, StartInv
<1>2. CASE BeginJob
    BY <1>2, BeginInv
<1>3. CASE Choose
    BY <1>3, ChooseInv
<1>4. CASE Access
    BY <1>4, AccessInReads, AccessElsewhere
<1>5. CASE AccessFails
    BY <1>5, FailsInv
<1>6. CASE Return
    BY <1>6, ReturnInv
<1>7. CASE Kill
    BY <1>7, KillInv
<1>8. CASE Measure
    BY <1>8, MeasureInv
<1>9. CASE UNCHANGED driverVars
    <2>1. fitted' = fitted /\ part' = part /\ proc' = proc
        BY <1>9 DEF driverVars
    <2> QED BY <2>1 DEF DriversInv, IsPart, IsProc, StartOf, Probing, AnswersInBank, Forcing
<1> QED BY <1>1, <1>2, <1>3, <1>4, <1>5, <1>6, <1>7, <1>8, <1>9 DEF DriversNext

LEMMA DriversSafe == DriversSpec => []DriversInv
BY DriversStart, DriversStep, PTL DEF DriversSpec

\* Whatever was asked of the part before, and however often and wherever an access
\* failed or a process was killed: a start fails only if one of its own accesses has,
\* but for the ICM-42688-P's, whose probe takes the bank for granted.
THEOREM StartWorksHolds == DriversSpec => []StartWorks
<1>1. DriversInv => StartWorks
    BY DEF DriversInv, StartOf, StartWorks
<1> QED BY <1>1, DriversSafe, PTL

\* A probe that succeeds has put back what it borrowed, and a self-test that
\* succeeds has turned the force off: from any settings, for any cycle count.
THEOREM LeavesNoTraceHolds == DriversSpec => LeavesNoTrace
<1>1. ASSUME DriversInv, proc.op = "probe", proc.steps = <<>>, proc.rc = 0
      PROVE  Settings(part) = Settings(proc.found)
    <2>1. Probing
        BY <1>1 DEF DriversInv
    <2>2. /\ part["accel"] = proc.found["accel"] /\ part["gyro"] = proc.found["gyro"]
          /\ part["arate"] = proc.found["arate"] /\ part["grate"] = proc.found["grate"] /\ part["on"] = proc.found["on"]
        BY <2>1 DEF Probing, Own
    <2>3. part.cycles = proc.found.cycles
        <3>1. ASSUME Borrows(proc.found.cycles, part.cycles, <<>>)
              PROVE  part.cycles = proc.found.cycles
            <4> DEFINE x == PutBack(proc.found.cycles)
            <4>1. x \in Seq({W([cycles |-> proc.found.cycles])})
                <5>1. \A v : <<>> \in Seq({v}) /\ <<v>> \in Seq({v})
                    OBVIOUS
                <5> QED BY <5>1 DEF PutBack
            <4>2. x = <<>> => proc.found.cycles = 200
                <5>1. \A v : <<v>> # <<>>
                    OBVIOUS
                <5> QED BY <5>1 DEF PutBack
            <4>3. <<Look>> \o x # <<>>
                BY <4>1, Behead1
            <4> QED BY <3>1, <4>2, <4>3 DEF Borrows
        <3> QED BY <1>1, <2>1, <3>1 DEF Probing
    <2> QED BY <2>2, <2>3 DEF Settings
<1>2. DriversInv => ((proc.op = "selftest" /\ proc.steps = <<>> /\ proc.rc = 0) => ~part.stim)
    BY DEF DriversInv, Forcing
<1>3. DriversInv => ((proc.op = "probe" /\ proc.steps = <<>> /\ proc.rc = 0) => Settings(part) = Settings(proc.found))
    BY <1>1
<1>4. []DriversInv => ProbeNeutral
    BY <1>3, PTL DEF ProbeNeutral
<1>5. []DriversInv => SelfTestOff
    BY <1>2, PTL DEF SelfTestOff
<1> QED BY <1>4, <1>5, DriversSafe, PTL DEF LeavesNoTrace
===============================================================================
