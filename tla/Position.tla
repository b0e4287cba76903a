------------------------------- MODULE Position -------------------------------
(***************************************************************************)
(* position_thread of src/src/position.c: a gpsd session that is read line *)
(* by line, the Signal K poll that backs it up (or stands alone), and the  *)
(* two time limits that withdraw what nobody refreshes: the declination of *)
(* a fix, and the speed over ground.                                       *)
(*                                                                         *)
(* Time passes only where the thread waits.  Instants are kept as ages in  *)
(* seconds, counted up to Old, which is beyond every limit.  A position is *)
(* one of Places; two positions are the same place when neither coordinate *)
(* moved by POS_UPDATE_THRESH_DEG.                                         *)
(***************************************************************************)
EXTENDS Integers

CONSTANTS
    Places,       \* positions far enough apart to recompute the declination
    SpeedTTL,     \* POS_SPEED_TTL_NS, in seconds
    FixTTL,       \* pos_fix_max_age_h; 0 keeps a declination for ever
    PollS,        \* POS_SIGNALK_POLL_S
    RetryS,       \* POS_GPSD_RETRY_S
    ConnectS,     \* longest tcp_connect_host
    ResponseS,    \* longest Signal K response: the buffer's bytes, 10 s each
    Old           \* ages stop here

Never == -1       \* last_fix_time 0, speed_at 0
Largest(S) == CHOOSE n \in S : \A m \in S : m <= n

\* Longest time from one look at the fix's age to the next, outside a session.
Cycle == ConnectS + (ConnectS + ResponseS) + Largest({PollS, RetryS})

ASSUME TimesAssumption ==
    /\ {SpeedTTL, FixTTL, PollS, RetryS, ConnectS, ResponseS, Old} \subseteq Nat
    /\ Old > SpeedTTL + FixTTL + PollS + Cycle + 1
ASSUME PlacesAssumption == {"static", "off", "force", "none"} \cap Places = {}

VARIABLES
    gpsd, signalk, wmmOk,    \* configuration; the model file could be loaded
    stop, pc, left,          \* the thread's flag, place, seconds left to sleep
    fixAge, last,            \* since last_fix_time; last_lat and last_lon
    speedAt,                 \* since run_gpsd's speed_at
    pollAge,                 \* since last_signalk_time
    decl, ref, speedOn,      \* in the live configuration: declination, field
                             \* invariants, speed valid
    fixed, midline           \* history: place of the last fix, seconds spent in
                             \* the middle of a line since the limits were looked at

config == <<gpsd, signalk, wmmOk>>
ages == <<fixAge, speedAt, pollAge>>
live == <<decl, ref, speedOn>>
vars == <<config, stop, pc, left, ages, last, live, fixed, midline>>

Init ==
    /\ gpsd \in BOOLEAN /\ signalk \in BOOLEAN /\ (gpsd \/ signalk)
    /\ wmmOk \in BOOLEAN
    /\ stop = FALSE /\ pc = "outer" /\ left = 0
    /\ fixAge = Never /\ last = "force" /\ speedAt = Never /\ pollAge = Old
    /\ decl \in {"off", "static"} /\ ref \in {"none", "static"} /\ speedOn = FALSE
    /\ fixed = "none" /\ midline = 0

Older(age, s) == IF age = Never THEN Never ELSE IF age + s > Old THEN Old ELSE age + s

\* s seconds pass.
Passes(s) ==
    /\ fixAge' = Older(fixAge, s) /\ speedAt' = Older(speedAt, s)
    /\ pollAge' = Older(pollAge, s)

Goto(from, to) == pc = from /\ pc' = to

FixExpired == FixTTL > 0 /\ fixAge > FixTTL

(* -------------------------------- mutants -------------------------------- *)

\* Bugs the checks must notice: a withdrawal that keeps the last position, a
\* session that leaves its speed behind, a wait in the middle of a line that is
\* deaf to stop.
TopKeepsLast ==
    /\ Goto("top", "read") /\ midline' = 0
    /\ IF FixExpired THEN fixAge' = Never /\ decl' = "off" ELSE UNCHANGED <<fixAge, decl>>
    /\ speedOn' = (speedOn /\ ~FixExpired /\ speedAt <= SpeedTTL)
    /\ speedAt' = IF speedAt > SpeedTTL THEN Never ELSE speedAt
    /\ UNCHANGED <<config, stop, left, pollAge, last, ref, fixed>>
LeaveWithSpeed ==
    /\ Goto("leave", "fallback")
    /\ UNCHANGED <<config, stop, left, ages, last, live, fixed, midline>>
ReadStopBetween ==
    /\ stop
    /\ \/ Goto("read", "leave") /\ UNCHANGED <<ages, midline>>
       \/ pc = "midline" /\ UNCHANGED pc /\ Passes(1) /\ midline' = Older(midline, 1)
    /\ UNCHANGED <<config, stop, left, last, live, fixed>>

(* ------------------------------ the two limits --------------------------- *)

\* check_fix_ttl: the declination and the speed are withdrawn, and the last
\* position forgotten so that the next fix counts wherever it is.
CheckFix ==
    IF FixExpired
    THEN /\ fixAge' = Never /\ last' = "force"
         /\ decl' = "off" /\ speedOn' = FALSE
    ELSE UNCHANGED <<fixAge, last, decl, speedOn>>

\* maybe_update_decl: a fix always counts for its age; it moves declination and
\* invariants when there is a model and the place is another one.
Fix(p) ==
    /\ fixAge' = 0 /\ fixed' = p
    /\ IF wmmOk /\ last # p
       THEN decl' = p /\ ref' = p /\ last' = p
       ELSE UNCHANGED <<decl, ref, last>>

NoFix == UNCHANGED <<fixAge, fixed, decl, ref, last>>

(* ----------------------------- position_thread --------------------------- *)

\* The head of the thread's loop.
Outer ==
    /\ pc = "outer"
    /\ \/ /\ stop /\ pc' = "exit"
          /\ UNCHANGED <<fixAge, last, decl, speedOn, midline>>
       \/ /\ ~stop /\ CheckFix /\ midline' = 0
          /\ pc' = IF gpsd THEN "connect" ELSE "poll"
    /\ UNCHANGED <<config, stop, left, speedAt, pollAge, ref, fixed>>

\* tcp_connect_host to gpsd, then run_gpsd's locals.
Connect(s) ==
    /\ pc = "connect"
    /\ fixAge' = Older(fixAge, s) /\ pollAge' = Older(pollAge, s)
    /\ \/ pc' = "top" /\ speedAt' = Never
       \/ pc' = "fallback" /\ UNCHANGED speedAt
    /\ UNCHANGED <<config, stop, left, last, live, fixed, midline>>

\* Each pass of the session looks at both limits before it reads.
Top ==
    /\ Goto("top", "read") /\ midline' = 0
    /\ IF FixExpired
       THEN fixAge' = Never /\ last' = "force" /\ decl' = "off"
       ELSE UNCHANGED <<fixAge, last, decl>>
    /\ speedOn' = (speedOn /\ ~FixExpired /\ speedAt <= SpeedTTL)
    /\ speedAt' = IF speedAt > SpeedTTL THEN Never ELSE speedAt
    /\ UNCHANGED <<config, stop, left, pollAge, ref, fixed>>

\* read_line between two lines: a second without a byte returns to the caller.
ReadIdle ==
    /\ Goto("read", "top") /\ ~stop /\ Passes(1)
    /\ UNCHANGED <<config, stop, left, last, live, fixed, midline>>

\* Bytes without the end of their line, and then a second without any: it waits
\* on, since returning would lose them.
ReadPartial ==
    /\ Goto("read", "midline") /\ ~stop
    /\ UNCHANGED <<config, stop, left, ages, last, live, fixed, midline>>

ReadMidline ==
    /\ pc = "midline" /\ ~stop /\ Passes(1) /\ midline' = Older(midline, 1)
    /\ UNCHANGED <<config, stop, pc, left, last, live, fixed>>

ReadStop ==
    /\ pc \in {"read", "midline"} /\ stop /\ pc' = "leave"
    /\ UNCHANGED <<config, stop, left, ages, last, live, fixed, midline>>

\* EOF, an error.
ReadEnd ==
    /\ pc \in {"read", "midline"} /\ ~stop /\ pc' = "leave"
    /\ UNCHANGED <<config, stop, left, ages, last, live, fixed, midline>>

InLine == pc \in {"read", "midline"} /\ ~stop /\ pc' = "top"

\* A line that is no TPV, or a TPV without latitude or longitude.
LineOther ==
    /\ InLine
    /\ UNCHANGED <<config, stop, left, ages, last, live, fixed, midline>>

\* A TPV with mode < 2: the speed held is from before the fix was lost.
LineNoFix ==
    /\ InLine
    /\ speedOn' = (speedOn /\ speedAt = Never) /\ speedAt' = Never
    /\ UNCHANGED <<config, stop, left, fixAge, pollAge, last, decl, ref, fixed, midline>>

\* A TPV with a fix: its speed if it has one, and its position if it is valid.
LineFix(speed, valid, p) ==
    /\ InLine
    /\ IF speed THEN speedOn' = TRUE /\ speedAt' = 0 ELSE UNCHANGED <<speedOn, speedAt>>
    /\ IF valid THEN Fix(p) ELSE NoFix
    /\ UNCHANGED <<config, stop, left, pollAge, midline>>

\* The session is over, and the speed it reported with it.
Leave ==
    /\ Goto("leave", "fallback")
    /\ speedOn' = (speedOn /\ speedAt = Never) /\ speedAt' = Never
    /\ UNCHANGED <<config, stop, left, fixAge, pollAge, last, decl, ref, fixed, midline>>

\* After gpsd: Signal K if it is enabled and was not polled for PollS seconds.
Fallback ==
    /\ pc = "fallback"
    /\ IF ~stop /\ signalk /\ pollAge >= PollS
       THEN pc' = "poll" /\ UNCHANGED left
       ELSE pc' = "sleep" /\ left' = RetryS
    /\ UNCHANGED <<config, stop, ages, last, live, fixed, midline>>

\* poll_signalk, s seconds of it, with a valid position in the response or not;
\* the time of the poll is taken after it.
Poll(s, valid, p) ==
    /\ Goto("poll", "sleep")
    /\ left' = IF gpsd THEN RetryS ELSE PollS
    /\ pollAge' = 0 /\ speedAt' = Older(speedAt, s)
    /\ IF valid THEN Fix(p)
       ELSE fixAge' = Older(fixAge, s) /\ UNCHANGED <<fixed, decl, ref, last>>
    /\ UNCHANGED <<config, stop, speedOn, midline>>

\* interruptible_sleep.
Sleep ==
    /\ pc = "sleep"
    /\ IF left > 0 /\ ~stop
       THEN Passes(1) /\ left' = left - 1 /\ UNCHANGED pc
       ELSE pc' = "outer" /\ UNCHANGED <<ages, left>>
    /\ UNCHANGED <<config, stop, last, live, fixed, midline>>

\* Main raises the flag.
Stop ==
    /\ ~stop /\ stop' = TRUE
    /\ UNCHANGED <<config, pc, left, ages, last, live, fixed, midline>>

Session ==
    \/ Top \/ ReadIdle \/ ReadPartial \/ ReadMidline \/ ReadStop \/ ReadEnd \/ LineOther
    \/ LineNoFix \/ \E speed, valid \in BOOLEAN, p \in Places : LineFix(speed, valid, p)
    \/ Leave
Thread ==
    \/ Outer \/ \E s \in 0 .. ConnectS : Connect(s)
    \/ Session \/ Fallback \/ Sleep
    \/ \E s \in 0 .. ConnectS + ResponseS, valid \in BOOLEAN, p \in Places : Poll(s, valid, p)
Terminated == pc = "exit" /\ UNCHANGED vars

Next == Thread \/ Stop \/ Terminated

Spec == Init /\ [][Next]_vars

\* The thread is scheduled and each of its waits is bounded.
FairSpec == Spec /\ WF_vars(Thread)

-----------------------------------------------------------------------------

AgeType == {Never} \cup 0 .. Old

\* Types: ages, sleeps and what the live configuration may hold.
TypeOK ==
    /\ {gpsd, signalk, wmmOk, stop, speedOn} \subseteq BOOLEAN
    /\ pc \in {"outer", "connect", "top", "read", "midline", "leave", "fallback", "poll",
               "sleep", "exit"}
    /\ left \in 0 .. Largest({PollS, RetryS})
    /\ fixAge \in AgeType /\ speedAt \in AgeType /\ pollAge \in AgeType
    /\ last \in Places \cup {"force"} /\ fixed \in Places \cup {"none"}
    /\ decl \in Places \cup {"off", "static"} /\ ref \in Places \cup {"none", "static"}
    /\ midline \in 0 .. Old

\* A speed over ground in use is never older than its limit and one pass of
\* the session, plus the time spent in the middle of a line; and none is in use
\* outside a session, however the session ended.
SpeedFresh ==
    speedOn => /\ pc \in {"top", "read", "midline", "leave"}
               /\ speedAt \in 0 .. SpeedTTL + 1 + midline

\* A declination that came from a fix outlives that fix by no more than its
\* limit and the longest stretch without a look at the clock: a cycle of
\* connection, poll and sleep, and again time in the middle of a line.
DeclinationFresh ==
    (FixTTL > 0 /\ decl \in Places) =>
        fixAge \in 0 .. FixTTL + Cycle + 1 + midline

\* While a fix counts, declination and invariants are those of its place, also
\* for a vessel at anchor whose declination had been withdrawn.
FixIsApplied ==
    (wmmOk /\ fixAge # Never) => decl = fixed /\ ref = fixed

\* Signal K is polled at most once in PollS seconds, alone or as a fallback.
PollsAreSpaced ==
    [][(pc # "poll" /\ pc' = "poll") => pollAge >= PollS]_vars

\* The thread ends when main raises its flag, whatever it was waiting for.
PositionStops == stop ~> pc = "exit"

\* The thread keeps its interval, and ends.
PacedAndStopped == PollsAreSpaced /\ PositionStops

\* Nothing that came from the position sources stays published for longer than
\* its limit and what the code spends without looking at the clock.
PublishedFresh == TypeOK /\ SpeedFresh /\ DeclinationFresh
=============================================================================
