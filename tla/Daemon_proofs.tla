------------------------------ MODULE Daemon_proofs ------------------------------
(***************************************************************************)
(* Proofs about Daemon for any set of configurations, any length of the    *)
(* drain of a replay and any number of reloads: what the daemon says of    *)
(* itself is so, and every way out frees what nobody uses any more, leaves *)
(* nothing behind and announces the end of a stream it began.              *)
(***************************************************************************)
EXTENDS Daemon, TLAPS

(* ------------------------------- the threads ----------------------------- *)

\* A thread's place in the order of creation.
Rank == [ism |-> 1, mag |-> 2, fusion |-> 3, capture |-> 4, health |-> 5, nmea |-> 6,
         hirate |-> 7, stream |-> 8, position |-> 9]

LEMMA ThreadsAre ==
    /\ Len(StartOrder) = 9
    /\ Threads = {"ism", "mag", "fusion", "capture", "health", "nmea", "hirate", "stream",
                  "position"}
    /\ \A k \in 1 .. 9 : StartOrder[k] \in Threads /\ Rank[StartOrder[k]] = k
<1>1. /\ StartOrder[1] = "ism" /\ StartOrder[2] = "mag" /\ StartOrder[3] = "fusion"
      /\ StartOrder[4] = "capture" /\ StartOrder[5] = "health" /\ StartOrder[6] = "nmea"
      /\ StartOrder[7] = "hirate" /\ StartOrder[8] = "stream" /\ StartOrder[9] = "position"
      /\ Len(StartOrder) = 9 /\ DOMAIN StartOrder = 1 .. 9
  BY DEF StartOrder
<1>2. \A k \in 1 .. 9 : k \in {1, 2, 3, 4, 5, 6, 7, 8, 9}
  OBVIOUS
<1>3. Threads = {StartOrder[k] : k \in 1 .. 9}
  BY <1>1 DEF Threads
<1>4. Threads = {"ism", "mag", "fusion", "capture", "health", "nmea", "hirate", "stream",
                 "position"}
  BY <1>1, <1>2, <1>3
<1>5. \A k \in 1 .. 9 : Rank[StartOrder[k]] = k
  BY <1>1, <1>2 DEF Rank
<1> QED BY <1>1, <1>3, <1>4, <1>5

\* Whose turn it is to be created.
LEMMA Turn ==
    ASSUME at \in 1 .. 9
    PROVE  /\ Next1 \in Threads /\ Rank[Next1] = at
           /\ \A t \in Threads : Rank[t] \in 1 .. 9 /\ (Rank[t] = at => t = Next1)
<1>1. Next1 \in Threads /\ Rank[Next1] = at
  BY ThreadsAre DEF Next1
<1>2. \A t, u \in Threads : Rank[t] \in 1 .. 9 /\ (Rank[t] = Rank[u] => t = u)
  BY ThreadsAre DEF Rank
<1> QED BY <1>1, <1>2

(* ------------------------------- invariants ------------------------------ *)

Opening == {"open_imu", "open_out", "open_files"}
Starting == Opening \cup {"create"}
Core == {"ism", "mag", "fusion", "health", "stream"}
Owed == {todo[k] : k \in 1 .. Len(todo)}

\* The part of the types the proofs of the other invariants use.
KindsOK ==
    /\ want \in SUBSET Optional
    /\ mpc \in Starting \cup {"loop", "teardown", "shutdown", "position", "outputs", "sensors",
                              "free", "unlink", "gone"}
    /\ at \in 1 .. 10 /\ todo \in Seq(Threads) /\ rc \in {0, 1}
    /\ th \in [Threads -> {"none", "running", "exited", "joined"}]
    /\ socks \subseteq Outputs /\ enabled \subseteq Outputs
    /\ files \subseteq {"status", "pid", "stream"}
    /\ hpc \in {"test", "tick"}
    /\ wire \in {"nothing", "data", "shutdown", "data after shutdown"}
    /\ failed \in Threads \cup {"none"}

\* Threads come in their order; an output is enabled when it may still start or
\* has; the daemon is ready when it has left the start-up with everything.
StartInv ==
    /\ mpc \in Opening => at = 1 /\ enabled = want \cap Outputs
    /\ mpc \in Starting =>
         /\ failed = "none" /\ ~ready
         /\ \A t \in Threads : Rank[t] >= at => th[t] = "none"
    /\ mpc = "create" =>
         /\ enabled = socks
         /\ \A t \in Core : Wanted(t) /\ Rank[t] < at => th[t] # "none"
         /\ \A t \in Outputs : t \in enabled <=> IF Rank[t] < at THEN th[t] # "none" ELSE t \in want
    /\ mpc = "loop" => ready
    /\ mpc \notin Starting /\ ~ready => rc = 1
    /\ ReadyMeansStarted /\ OutputsHonest

\* What is open at each place of main.
OpenInv ==
    /\ mpc = "open_imu" => ~imuOpen
    /\ mpc \in {"open_imu", "open_out"} => ~outOpen /\ socks = {} /\ files = {}
    /\ mpc = "open_files" => socks = want \cap Outputs
    /\ mpc = "unlink" => ~imuOpen /\ ~outOpen /\ socks = {} /\ files \subseteq {"status", "pid"}
    /\ NothingLeftBehind

\* The high-rate socket is open while its thread is there to use it, and past
\* the shutdown packet it no longer looks as if the stream went on.
WireInv ==
    /\ th["hirate"] = "none" => wire = "nothing"
    /\ mpc \in {"loop", "teardown", "shutdown"} => (th["hirate"] # "none" <=> "hirate" \in socks)
    /\ mpc \in {"position", "outputs", "sensors", "free", "unlink", "gone"} /\ th["hirate"] # "none" =>
         wire \notin {"nothing", "data"}

\* Each stage of the teardown owes a join to every thread it stopped that still
\* runs, and the last one to every thread there is, but for the forgotten one.
JoinInv ==
    /\ mpc = "outputs" /\ th["position"] = "running" => "position" \in Owed
    /\ mpc = "sensors" =>
         /\ th["position"] # "running"
         /\ \A t \in {"nmea", "hirate", "stream"} : th[t] = "running" => t \in Owed
    /\ mpc = "free" => \A t \in Threads :
         th[t] = "running" => t \in Owed \/ (failed = "health" /\ t = "capture")
    /\ FreedAfterJoin

Inv == KindsOK /\ StartInv /\ OpenInv /\ WireInv /\ JoinInv

\* A step of a thread, a signal, or a poll of a replay: main stays where it is, and
\* at most a thread that ran has returned.
Quiet ==
    /\ UNCHANGED <<want, mpc, at, todo, rc, ready, imuOpen, outOpen, socks, enabled, files, failed>>
    /\ \A t \in Threads : th'[t] = th[t] \/ (th[t] = "running" /\ th'[t] = "exited")
    /\ th' \in [Threads -> {"none", "running", "exited", "joined"}]
    /\ hpc' \in {"test", "tick"}
    /\ \/ wire' = wire
       \/ th["hirate"] # "none" /\ wire' = (IF wire \in {"nothing", "data"} THEN "data" ELSE "data after shutdown")
          /\ mpc # "gone"

LEMMA InitInv == Init => Inv
<1> SUFFICES ASSUME Init PROVE Inv
  OBVIOUS
<1> USE DEF Init
<1>1. <<>> \in Seq(Threads) /\ Len(<<>>) = 0
  OBVIOUS
<1>2. KindsOK
  BY <1>1, ConfigurationsAssumption DEF KindsOK, Starting, Opening
<1>3. ~ready
  OBVIOUS
<1>4. StartInv
  BY <1>3 DEF StartInv, Starting, Opening, ReadyMeansStarted, OutputsHonest
<1>5. ~imuOpen /\ ~outOpen
  OBVIOUS
<1>6. OpenInv
  BY <1>5 DEF OpenInv, NothingLeftBehind
<1>7. WireInv
  BY DEF WireInv
<1>8. JoinInv
  BY DEF JoinInv, FreedAfterJoin
<1> QED BY <1>2, <1>4, <1>6, <1>7, <1>8 DEF Inv

LEMMA QuietInv == Inv /\ Quiet => Inv'
<1> SUFFICES ASSUME Inv, Quiet PROVE Inv'
  OBVIOUS
<1>1. /\ UNCHANGED <<want, mpc, at, todo, rc, ready, imuOpen, outOpen, socks, enabled, files, failed>>
      /\ \A t \in Threads : th'[t] = th[t] \/ (th[t] = "running" /\ th'[t] = "exited")
      /\ th' \in [Threads -> {"none", "running", "exited", "joined"}]
      /\ hpc' \in {"test", "tick"}
  BY DEF Quiet
<1>2. /\ \A t \in Threads : th'[t] = "none" <=> th[t] = "none"
      /\ \A t \in Threads : th'[t] = "running" => th[t] = "running"
  BY <1>1
<1>3. Outputs \subseteq Threads /\ Core \subseteq Threads /\ "hirate" \in Threads
      /\ {"nmea", "hirate", "stream", "position"} \subseteq Threads
  BY ThreadsAre DEF Outputs, Core
<1>4. KindsOK'
  <2>1. wire' \in {"nothing", "data", "shutdown", "data after shutdown"}
    BY DEF Inv, KindsOK, Quiet
  <2> QED BY <1>1, <2>1 DEF Inv, KindsOK
<1>5. StartInv'
  <2>1. ReadyMeansStarted'
    BY <1>1, <1>2, <1>3 DEF Inv, StartInv, ReadyMeansStarted, Wanted, Core
  <2>2. OutputsHonest'
    BY <1>1, <1>2, <1>3 DEF Inv, StartInv, OutputsHonest
  <2> QED BY <1>1, <1>2, <1>3, <2>1, <2>2 DEF Inv, StartInv, Wanted
<1>6. OpenInv'
  BY <1>1 DEF Inv, OpenInv, NothingLeftBehind
<1>7. WireInv'
  <2>1. CASE wire' = wire
    BY <1>1, <1>2, <1>3, <2>1 DEF Inv, WireInv
  <2>2. CASE /\ th["hirate"] # "none" /\ mpc # "gone"
             /\ wire' = (IF wire \in {"nothing", "data"} THEN "data" ELSE "data after shutdown")
    BY <1>1, <1>2, <1>3, <2>2 DEF Inv, WireInv
  <2> QED BY <2>1, <2>2 DEF Quiet
<1>8. JoinInv'
  BY <1>1, <1>2, <1>3 DEF Inv, JoinInv, Owed, FreedAfterJoin, Running
<1> QED BY <1>4, <1>5, <1>6, <1>7, <1>8 DEF Inv

\* The steps that are quiet.
LEMMA QuietSteps ==
    ASSUME Inv,
           \/ HirateLoop \/ RecorderGivesUp \/ ReaderFails
           \/ \E t \in Threads : ThreadStops(t)
           \/ SendTerm \/ SendHup \/ PlaybackEnds \/ CatchHup
           \/ (\E backlog \in BOOLEAN : ReplayPoll(backlog)) /\ mpc' = mpc
           \/ UNCHANGED vars
    PROVE  Quiet
<1>1. /\ th \in [Threads -> {"none", "running", "exited", "joined"}] /\ hpc \in {"test", "tick"}
      /\ {"ism", "mag", "capture", "hirate"} \subseteq Threads
  BY ThreadsAre DEF Inv, KindsOK
<1> USE DEF environment, mainVars, resources, signals, replayVars, packets, vars
<1>2. ASSUME NEW t \in Threads, th[t] = "running", th' = [th EXCEPT ![t] = "exited"]
      PROVE  /\ \A u \in Threads : th'[u] = th[u] \/ (th[u] = "running" /\ th'[u] = "exited")
             /\ th' \in [Threads -> {"none", "running", "exited", "joined"}]
  BY <1>1, <1>2
<1>3. CASE HirateLoop
  <2>1. CASE HirateTest
    BY <1>1, <2>1 DEF HirateTest, Quiet
  <2>2. ASSUME NEW settled \in BOOLEAN, HirateTick(settled) PROVE Quiet
    <3>1. /\ th["hirate"] = "running" /\ mpc # "gone" /\ hpc' = "test"
          /\ wire' = wire \/ wire' = (IF wire \in {"nothing", "data"} THEN "data" ELSE "data after shutdown")
          /\ UNCHANGED <<environment, mainVars, th, resources, failed>>
      BY <2>2 DEF HirateTick, Alive
    <3> QED BY <1>1, <3>1 DEF Quiet
  <2> QED BY <1>3, <2>1, <2>2 DEF HirateLoop
<1>4. CASE RecorderGivesUp
  BY <1>1, <1>2, <1>4 DEF RecorderGivesUp, Alive, Quiet
<1>5. CASE ReaderFails
  BY <1>1, <1>2, <1>5 DEF ReaderFails, ReaderGivesUp, Alive, Quiet
<1>6. ASSUME NEW t \in Threads, ThreadStops(t) PROVE Quiet
  BY <1>1, <1>2, <1>6 DEF ThreadStops, Alive, Quiet
<1>7. CASE SendTerm \/ SendHup \/ PlaybackEnds \/ CatchHup \/ UNCHANGED vars
  BY <1>1, <1>7 DEF SendTerm, SendHup, PlaybackEnds, CatchHup, Quiet
<1>8. ASSUME NEW backlog \in BOOLEAN, ReplayPoll(backlog), mpc' = mpc PROVE Quiet
  <2>1. /\ UNCHANGED <<environment, at, todo, ready, th, resources, failed, packets>>
        /\ mpc = "loop" /\ rc' = rc
    BY <1>8 DEF ReplayPoll
  <2> QED BY <1>1, <1>8, <2>1 DEF Quiet
<1> QED BY <1>3, <1>4, <1>5, <1>6, <1>7, <1>8

(* ------------------------------- main's steps ---------------------------- *)

LEMMA OpenImuInv == ASSUME Inv, OpenImu PROVE Inv'
<1>1. /\ mpc = "open_imu"
      /\ \/ mpc' = "open_out" /\ UNCHANGED rc
         \/ mpc' = "gone" /\ rc' = 1 /\ UNCHANGED imuOpen
      /\ UNCHANGED <<want, at, todo, ready, th, outOpen, socks, enabled, files, hpc, wire, failed>>
  BY DEF OpenImu, environment, packets
<1>2. KindsOK'
  BY <1>1 DEF Inv, KindsOK, Starting, Opening
<1>3. \A t \in Threads : Rank[t] >= at => th[t] = "none"
  BY <1>1 DEF Inv, StartInv, Starting, Opening
<1>4. "hirate" \in Threads /\ th["hirate"] = "none"
  BY <1>1, <1>3, ThreadsAre DEF Inv, StartInv, Opening, Rank
<1>5. StartInv'
  BY <1>1, <1>3 DEF Inv, StartInv, Starting, Opening, ReadyMeansStarted, OutputsHonest
<1>6. OpenInv'
  BY <1>1 DEF Inv, OpenInv, NothingLeftBehind
<1>7. WireInv'
  BY <1>1, <1>4 DEF Inv, WireInv
<1>8. JoinInv'
  BY <1>1 DEF JoinInv, FreedAfterJoin
<1> QED BY <1>2, <1>5, <1>6, <1>7, <1>8 DEF Inv

LEMMA OpenOutInv == ASSUME Inv, OpenOut PROVE Inv'
<1>1. /\ mpc = "open_out"
      /\ \/ /\ mpc' = "open_files"
            /\ socks' = want \cap Outputs /\ files' = want \cap {"stream"}
            /\ UNCHANGED <<imuOpen, rc>>
         \/ /\ mpc' = "gone" /\ rc' = 1 /\ imuOpen' = FALSE
            /\ UNCHANGED <<outOpen, socks, files>>
      /\ UNCHANGED <<want, at, todo, ready, th, enabled, hpc, wire, failed>>
  BY DEF OpenOut, environment, packets
<1>2. KindsOK'
  BY <1>1 DEF Inv, KindsOK, Starting, Opening
<1>3. \A t \in Threads : Rank[t] >= at => th[t] = "none"
  BY <1>1 DEF Inv, StartInv, Starting, Opening
<1>4. "hirate" \in Threads /\ th["hirate"] = "none"
  BY <1>1, <1>3, ThreadsAre DEF Inv, StartInv, Opening, Rank
<1>5. StartInv'
  BY <1>1, <1>3 DEF Inv, StartInv, Starting, Opening, ReadyMeansStarted, OutputsHonest
<1>6. OpenInv'
  BY <1>1 DEF Inv, OpenInv, NothingLeftBehind
<1>7. WireInv'
  BY <1>1, <1>4 DEF Inv, WireInv
<1>8. JoinInv'
  BY <1>1 DEF JoinInv, FreedAfterJoin
<1> QED BY <1>2, <1>5, <1>6, <1>7, <1>8 DEF Inv

LEMMA OpenFilesInv == ASSUME Inv, NEW made \in SUBSET {"status", "pid"}, OpenFiles(made) PROVE Inv'
<1>1. /\ mpc = "open_files" /\ mpc' = "create" /\ files' = files \cup made
      /\ UNCHANGED <<want, at, todo, rc, ready, th, imuOpen, outOpen, socks, enabled, hpc, wire, failed>>
  BY DEF OpenFiles, environment, packets
<1>2. KindsOK'
  BY <1>1 DEF Inv, KindsOK, Starting, Opening
<1>3. /\ \A t \in Threads : Rank[t] >= at => th[t] = "none"
      /\ at = 1 /\ enabled = want \cap Outputs /\ socks = want \cap Outputs
  BY <1>1 DEF Inv, StartInv, OpenInv, Starting, Opening
<1>4. \A t \in Threads : ~(Rank[t] < 1)
  BY ThreadsAre DEF Rank
<1>5. Outputs \subseteq Threads /\ Core \subseteq Threads /\ "hirate" \in Threads
  BY ThreadsAre DEF Outputs, Core
<1>6. StartInv'
  BY <1>1, <1>3, <1>4, <1>5 DEF Inv, StartInv, Starting, Opening, ReadyMeansStarted, OutputsHonest, Wanted
<1>7. OpenInv'
  BY <1>1 DEF Inv, OpenInv, NothingLeftBehind
<1>8. WireInv'
  BY <1>1 DEF Inv, WireInv
<1>9. JoinInv'
  BY <1>1 DEF JoinInv, FreedAfterJoin
<1> QED BY <1>2, <1>6, <1>7, <1>8, <1>9 DEF Inv

\* The order of creation: one thread more, or one skipped.
LEMMA CreateInv ==
    ASSUME Inv, CreateThread \/ CreateFailsWarn \/ CreateFailsDisable
    PROVE  Inv'
<1>1. /\ mpc = "create" /\ at \in 1 .. 9 /\ at' = at + 1
      /\ UNCHANGED <<want, mpc, todo, rc, ready, imuOpen, outOpen, files, hpc, wire, failed>>
  <2>1. at \in 1 .. 10 /\ Len(StartOrder) = 9
    BY ThreadsAre DEF Inv, KindsOK
  <2>2. at <= Len(StartOrder)
    BY DEF CreateThread, CreateFailsWarn, CreateFailsDisable
  <2>3. at \in 1 .. 9
    BY <2>1, <2>2
  <2> QED BY <2>3 DEF CreateThread, CreateFailsWarn, CreateFailsDisable, environment, resources, packets
<1>2. /\ Next1 \in Threads /\ Rank[Next1] = at
      /\ \A t \in Threads : Rank[t] \in 1 .. 9 /\ (Rank[t] = at => t = Next1)
  BY <1>1, Turn
<1>3. /\ \A t \in Threads : Rank[t] >= at => th[t] = "none"
      /\ enabled = socks /\ failed = "none" /\ ~ready
      /\ \A t \in Core : Wanted(t) /\ Rank[t] < at => th[t] # "none"
      /\ \A t \in Outputs : t \in enabled <=> IF Rank[t] < at THEN th[t] # "none" ELSE t \in want
  BY <1>1 DEF Inv, StartInv, Starting
<1>4. Outputs \subseteq Threads /\ Core \subseteq Threads /\ "hirate" \in Threads
      /\ Outputs \subseteq Optional /\ Core \cap (Outputs \cup {"capture", "position"}) = {}
  BY ThreadsAre DEF Outputs, Core, Optional
<1>5. /\ \A t \in Threads : Rank[t] < at + 1 <=> Rank[t] < at \/ t = Next1
      /\ \A t \in Threads : Rank[t] >= at + 1 <=> Rank[t] >= at /\ t # Next1
  BY <1>1, <1>2
\* What becomes of the thread whose turn it is.
<1>6. \/ /\ Wanted(Next1) /\ th' = [th EXCEPT ![Next1] = "running"]
         /\ UNCHANGED <<enabled, socks>>
      \/ /\ ~Wanted(Next1) /\ UNCHANGED <<th, enabled, socks>>
      \/ /\ Next1 \in {"capture", "position"} /\ UNCHANGED <<th, enabled, socks>>
      \/ /\ Next1 \in Outputs /\ enabled' = enabled \ {Next1} /\ socks' = socks \ {Next1}
         /\ UNCHANGED th
  BY DEF CreateThread, CreateFailsWarn, CreateFailsDisable, resources
<1>7. /\ th' \in [Threads -> {"none", "running", "exited", "joined"}]
      /\ \A t \in Threads : t # Next1 => th'[t] = th[t]
      /\ th' = th \/ (Wanted(Next1) /\ th'[Next1] = "running")
      /\ enabled' \subseteq Outputs /\ socks' = enabled'
      /\ \A t \in Outputs : t # Next1 => (t \in enabled' <=> t \in enabled)
  <2>1. /\ th \in [Threads -> {"none", "running", "exited", "joined"}] /\ enabled \subseteq Outputs
    BY DEF Inv, KindsOK
  <2> QED BY <1>2, <1>3, <1>6, <2>1
<1>8. Next1 \in Outputs => (Next1 \in enabled' <=> th'[Next1] # "none")
  <2> SUFFICES ASSUME Next1 \in Outputs PROVE Next1 \in enabled' <=> th'[Next1] # "none"
    OBVIOUS
  <2>1. /\ th[Next1] = "none" /\ (Next1 \in enabled <=> Next1 \in want)
        /\ (Wanted(Next1) <=> Next1 \in want) /\ Next1 \notin {"capture", "position"}
        /\ th \in [Threads -> {"none", "running", "exited", "joined"}]
    <3>1. th[Next1] = "none"
      BY <1>1, <1>2, <1>3
    <3>2. Next1 \in enabled <=> Next1 \in want
      BY <1>1, <1>2, <1>3
    <3>3. Wanted(Next1) <=> Next1 \in want
      BY <1>4 DEF Wanted
    <3> QED BY <3>1, <3>2, <3>3 DEF Outputs, Inv, KindsOK
  <2> QED BY <1>2, <1>6, <2>1
<1>9. Next1 \in Core /\ Wanted(Next1) => th'[Next1] # "none"
  <2>1. th \in [Threads -> {"none", "running", "exited", "joined"}]
    BY DEF Inv, KindsOK
  <2> QED BY <1>2, <1>4, <1>6, <2>1
<1>10. KindsOK'
  <2>1. at + 1 \in 1 .. 10
    BY <1>1
  <2> QED BY <1>1, <1>7, <2>1 DEF Inv, KindsOK
<1>11. StartInv'
  <2>1. \A t \in Threads : Rank[t] >= at' => th'[t] = "none"
    BY <1>1, <1>3, <1>5, <1>7
  <2>2. \A t \in Core : Wanted(t) /\ Rank[t] < at' => th'[t] # "none"
    BY <1>1, <1>3, <1>4, <1>5, <1>7, <1>9
  <2>3. \A t \in Outputs : t \in enabled' <=> IF Rank[t] < at' THEN th'[t] # "none" ELSE t \in want
    <3> SUFFICES ASSUME NEW t \in Outputs
                 PROVE  t \in enabled' <=> IF Rank[t] < at' THEN th'[t] # "none" ELSE t \in want
      OBVIOUS
    <3>1. CASE t = Next1
      BY <1>1, <1>2, <1>5, <1>8, <3>1
    <3>2. CASE t # Next1
      BY <1>1, <1>3, <1>4, <1>5, <1>7, <3>2
    <3> QED BY <3>1, <3>2
  <2> QED BY <1>1, <1>3, <1>7, <2>1, <2>2, <2>3
        DEF StartInv, Starting, Opening, ReadyMeansStarted, OutputsHonest, Wanted
<1>12. OpenInv'
  BY <1>1 DEF OpenInv, NothingLeftBehind
<1>13. WireInv'
  <2>1. th["hirate"] = "none" => wire = "nothing"
    BY DEF Inv, WireInv
  <2>2. th'["hirate"] = "none" => th["hirate"] = "none"
    BY <1>4, <1>7
  <2> QED BY <1>1, <2>1, <2>2 DEF WireInv
<1>14. JoinInv'
  BY <1>1 DEF JoinInv, FreedAfterJoin
<1> QED BY <1>10, <1>11, <1>12, <1>13, <1>14 DEF Inv

\* A fatal failure owes a join to each thread created before it, but for the
\* recorder when the health thread fails.
LEMMA CreateFailsFatalInv == ASSUME Inv, CreateFailsFatal PROVE Inv'
<1>1. /\ mpc = "create" /\ at \in 1 .. 9 /\ mpc' = "free" /\ rc' = 1 /\ failed' = Next1
      /\ Next1 \in {"ism", "mag", "fusion", "health"} /\ todo' = UnwindJoins(Next1)
      /\ UNCHANGED <<want, at, ready, th, imuOpen, outOpen, socks, enabled, files, hpc, wire>>
  <2>1. at \in 1 .. 10 /\ Len(StartOrder) = 9
    BY ThreadsAre DEF Inv, KindsOK
  <2>2. at \in 1 .. 9
    BY <2>1 DEF CreateFailsFatal
  <2> QED BY <2>2 DEF CreateFailsFatal, environment, resources, packets
<1>2. /\ Next1 \in Threads /\ Rank[Next1] = at
      /\ \A t \in Threads : Rank[t] >= at => th[t] = "none"
      /\ ~ready
  BY <1>1, Turn DEF Inv, StartInv, Starting
<1>3. {"ism", "mag", "fusion", "capture", "health", "hirate"} \subseteq Threads
  BY ThreadsAre
<1>4. th["hirate"] = "none"
  BY <1>1, <1>2, <1>3 DEF Rank
\* What was created before it, and what is joined.
<1>5. /\ todo' \in Seq(Threads)
      /\ \A t \in Threads : Rank[t] < at => t \in Owed' \/ (Next1 = "health" /\ t = "capture")
  <2>1. CASE Next1 = "ism"
    <3>1. todo' = <<>> /\ at = 1
      BY <1>1, <1>2, <2>1 DEF UnwindJoins, Rank
    <3>2. \A t \in Threads : ~(Rank[t] < 1)
      BY ThreadsAre DEF Rank
    <3> QED BY <3>1, <3>2
  <2>2. CASE Next1 = "mag"
    <3>1. todo' = <<"ism">> /\ at = 2
      BY <1>1, <1>2, <2>2 DEF UnwindJoins, Rank
    <3>2. Len(todo') = 1 /\ todo'[1] = "ism"
      BY <3>1
    <3>3. \A t \in Threads : Rank[t] < 2 => t = "ism"
      BY ThreadsAre DEF Rank
    <3> QED BY <1>3, <3>1, <3>2, <3>3 DEF Owed
  <2>3. CASE Next1 = "fusion"
    <3>1. todo' = <<"mag", "ism">> /\ at = 3
      BY <1>1, <1>2, <2>3 DEF UnwindJoins, Rank
    <3>2. Len(todo') = 2 /\ todo'[1] = "mag" /\ todo'[2] = "ism" /\ {1, 2} \subseteq 1 .. 2
      BY <3>1
    <3>3. \A t \in Threads : Rank[t] < 3 => t \in {"ism", "mag"}
      BY ThreadsAre DEF Rank
    <3> QED BY <1>3, <3>1, <3>2, <3>3 DEF Owed
  <2>4. CASE Next1 = "health"
    <3>1. todo' = <<"fusion", "mag", "ism">> /\ at = 5
      BY <1>1, <1>2, <2>4 DEF UnwindJoins, Rank
    <3>2. Len(todo') = 3 /\ todo'[1] = "fusion" /\ todo'[2] = "mag" /\ todo'[3] = "ism"
          /\ {1, 2, 3} \subseteq 1 .. 3
      BY <3>1
    <3>3. \A t \in Threads : Rank[t] < 5 => t \in {"ism", "mag", "fusion", "capture"}
      BY ThreadsAre DEF Rank
    <3> QED BY <1>3, <2>4, <3>1, <3>2, <3>3 DEF Owed
  <2> QED BY <1>1, <2>1, <2>2, <2>3, <2>4
<1>6. KindsOK'
  BY <1>1, <1>2, <1>5 DEF Inv, KindsOK, Starting
<1>7. StartInv'
  BY <1>1, <1>2 DEF StartInv, Starting, Opening, ReadyMeansStarted, OutputsHonest
<1>8. OpenInv'
  BY <1>1 DEF OpenInv, NothingLeftBehind
<1>9. WireInv'
  BY <1>1, <1>4 DEF Inv, WireInv
<1>10. JoinInv'
  <2>1. \A t \in Threads : th[t] = "running" => Rank[t] < at
    <3>1. \A t \in Threads : Rank[t] \in 1 .. 9
      BY <1>1, Turn
    <3> QED BY <1>1, <1>2, <3>1
  <2> QED BY <1>1, <1>5, <2>1 DEF JoinInv, FreedAfterJoin
<1> QED BY <1>6, <1>7, <1>8, <1>9, <1>10 DEF Inv

\* At the stream's turn the high-rate output has had its own.
LEMMA CreateFailsStreamInv == ASSUME Inv, CreateFailsStream PROVE Inv'
<1>1. /\ mpc = "create" /\ at \in 1 .. 9 /\ Next1 = "stream"
      /\ mpc' = "teardown" /\ rc' = 1 /\ failed' = "stream"
      /\ UNCHANGED <<want, at, todo, ready, th, imuOpen, outOpen, socks, enabled, files, hpc, wire>>
  <2>1. at \in 1 .. 10 /\ Len(StartOrder) = 9
    BY ThreadsAre DEF Inv, KindsOK
  <2>2. at \in 1 .. 9
    BY <2>1 DEF CreateFailsStream
  <2> QED BY <2>2 DEF CreateFailsStream, environment, resources, packets
<1>2. Rank[Next1] = at /\ at = 8
  BY <1>1, Turn DEF Rank
<1>3. "stream" \in Threads /\ "hirate" \in Outputs
  BY ThreadsAre DEF Outputs
<1>4. "hirate" \in socks <=> th["hirate"] # "none"
  <2>1. /\ enabled = socks
        /\ "hirate" \in enabled <=> IF Rank["hirate"] < at THEN th["hirate"] # "none" ELSE "hirate" \in want
    BY <1>1, <1>3 DEF Inv, StartInv
  <2>2. Rank["hirate"] < at
    BY <1>2 DEF Rank
  <2> QED BY <2>1, <2>2
<1>5. KindsOK'
  BY <1>1, <1>3 DEF Inv, KindsOK, Starting
<1>6. StartInv'
  BY <1>1 DEF Inv, StartInv, Starting, Opening, ReadyMeansStarted, OutputsHonest
<1>7. OpenInv'
  BY <1>1 DEF OpenInv, NothingLeftBehind
<1>8. WireInv'
  BY <1>1, <1>4 DEF Inv, WireInv
<1>9. JoinInv'
  BY <1>1 DEF JoinInv, FreedAfterJoin
<1> QED BY <1>5, <1>6, <1>7, <1>8, <1>9 DEF Inv

\* When every turn is over the daemon says that it is ready.
LEMMA NotifyReadyInv == ASSUME Inv, NotifyReady PROVE Inv'
<1>1. /\ mpc = "create" /\ at = 10 /\ ready' = TRUE /\ mpc' = "loop"
      /\ UNCHANGED <<want, at, todo, rc, th, imuOpen, outOpen, socks, enabled, files, hpc, wire, failed>>
  <2>1. at \in 1 .. 10 /\ Len(StartOrder) = 9
    BY ThreadsAre DEF Inv, KindsOK
  <2>2. at = 10
    BY <2>1 DEF NotifyReady
  <2> QED BY <2>2 DEF NotifyReady, environment, resources, packets
<1>2. Outputs \subseteq Threads /\ Core \subseteq Threads /\ "hirate" \in Outputs
  BY ThreadsAre DEF Outputs, Core
<1>3. \A t \in Threads : Rank[t] < 10
  BY ThreadsAre DEF Rank
<1>4. /\ enabled = socks /\ failed = "none" /\ enabled \subseteq Outputs
      /\ \A t \in Core : Wanted(t) => th[t] # "none"
      /\ \A t \in Outputs : t \in enabled <=> th[t] # "none"
  BY <1>1, <1>2, <1>3 DEF Inv, KindsOK, StartInv, Starting
<1>5. KindsOK'
  BY <1>1 DEF Inv, KindsOK
<1>6. ReadyMeansStarted'
  BY <1>1, <1>4 DEF ReadyMeansStarted, Core, Wanted
<1>7. OutputsHonest'
  BY <1>1, <1>4 DEF OutputsHonest
<1>8. StartInv'
  BY <1>1, <1>6, <1>7 DEF StartInv, Starting, Opening
<1>9. OpenInv'
  BY <1>1 DEF OpenInv, NothingLeftBehind
<1>10. WireInv'
  BY <1>1, <1>2, <1>4 DEF Inv, WireInv
<1>11. JoinInv'
  BY <1>1 DEF JoinInv, FreedAfterJoin
<1> QED BY <1>5, <1>8, <1>9, <1>10, <1>11 DEF Inv

\* Leaving the loop, by a signal or at the end of a replay.
LEMMA LoopEndsInv ==
    ASSUME Inv, CatchTerm \/ \E backlog \in BOOLEAN : ReplayPoll(backlog), mpc' # mpc
    PROVE  Inv'
<1>1. /\ mpc = "loop" /\ mpc' = "teardown" /\ rc' \in {0, 1}
      /\ UNCHANGED <<want, at, todo, ready, th, imuOpen, outOpen, socks, enabled, files, hpc, wire, failed>>
  <2>1. CASE CatchTerm
    BY <2>1 DEF CatchTerm, Inv, KindsOK, environment, resources, packets
  <2>2. ASSUME NEW backlog \in BOOLEAN, ReplayPoll(backlog)
        PROVE  /\ mpc = "loop" /\ mpc' = "teardown" /\ rc' \in {0, 1}
               /\ UNCHANGED <<want, at, todo, ready, th, imuOpen, outOpen, socks, enabled, files, hpc, wire, failed>>
    BY <2>2 DEF ReplayPoll, environment, resources, packets
  <2> QED BY <2>1, <2>2
<1>2. ready
  BY <1>1 DEF Inv, StartInv
<1>3. KindsOK'
  BY <1>1 DEF Inv, KindsOK
<1>4. StartInv'
  BY <1>1, <1>2 DEF Inv, StartInv, Starting, Opening, ReadyMeansStarted, OutputsHonest, Wanted
<1>5. OpenInv'
  BY <1>1 DEF OpenInv, NothingLeftBehind
<1>6. WireInv'
  BY <1>1 DEF Inv, WireInv
<1>7. JoinInv'
  BY <1>1 DEF JoinInv, FreedAfterJoin
<1> QED BY <1>3, <1>4, <1>5, <1>6, <1>7 DEF Inv

(* -------------------------------- teardown ------------------------------- *)

Down == {"teardown", "shutdown", "position", "outputs", "sensors", "free"}

\* What the teardown keeps of the invariants while it goes from place to place.
LEMMA DownKeeps ==
    ASSUME Inv, mpc \in Down, mpc' \in Down \ {"teardown"},
           UNCHANGED <<want, at, rc, ready, th, imuOpen, outOpen, socks, enabled, files, hpc, failed>>,
           todo' \in Seq(Threads),
           wire' \in {"nothing", "data", "shutdown", "data after shutdown"}
    PROVE  KindsOK' /\ StartInv' /\ OpenInv'
<1>1. KindsOK'
  BY DEF Inv, KindsOK, Down, Starting
<1>2. StartInv'
  BY DEF Inv, StartInv, Starting, Opening, Down, ReadyMeansStarted, OutputsHonest, Wanted
<1>3. OpenInv'
  BY DEF OpenInv, NothingLeftBehind, Down
<1> QED BY <1>1, <1>2, <1>3

\* One stage: what it owes.
LEMMA StageParts ==
    ASSUME NEW from, NEW f, NEW joins, NEW to, Stage(from, f, joins, to)
    PROVE  /\ mpc = from /\ todo = <<>> /\ mpc' = to /\ todo' = joins
           /\ UNCHANGED <<want, at, rc, ready, th, imuOpen, outOpen, socks, enabled, files, hpc, wire, failed>>
  BY DEF Stage, environment, resources, packets

LEMMA StopMainInv == ASSUME Inv, StopMain PROVE Inv'
<1>1. /\ mpc = "teardown" /\ mpc' = "shutdown" /\ todo' = <<>>
      /\ UNCHANGED <<want, at, rc, ready, th, imuOpen, outOpen, socks, enabled, files, hpc, wire, failed>>
  BY StageParts DEF StopMain
<1>2. todo' \in Seq(Threads) /\ wire' \in {"nothing", "data", "shutdown", "data after shutdown"}
  <2>2. <<>> \in Seq(Threads)
    OBVIOUS
  <2>3. todo' \in Seq(Threads)
    BY <1>1, <2>2
  <2>4. wire' \in {"nothing", "data", "shutdown", "data after shutdown"}
    BY <1>1 DEF Inv, KindsOK
  <2> QED BY <2>3, <2>4
<1>3. KindsOK' /\ StartInv' /\ OpenInv'
  BY <1>1, <1>2, DownKeeps DEF Down
<1>4. WireInv'
  BY <1>1 DEF Inv, WireInv
<1>5. JoinInv'
  BY <1>1 DEF JoinInv, FreedAfterJoin
<1> QED BY <1>3, <1>4, <1>5 DEF Inv

LEMMA SendShutdownInv == ASSUME Inv, SendShutdown PROVE Inv'
<1>1. /\ mpc = "shutdown" /\ mpc' = "position"
      /\ wire' = (IF "hirate" \in socks THEN "shutdown" ELSE wire)
      /\ UNCHANGED <<want, at, todo, rc, ready, th, imuOpen, outOpen, socks, enabled, files, hpc, failed>>
  BY DEF SendShutdown, environment, resources
<1>2. todo' \in Seq(Threads) /\ wire' \in {"nothing", "data", "shutdown", "data after shutdown"}
  BY <1>1 DEF Inv, KindsOK
<1>3. KindsOK' /\ StartInv' /\ OpenInv'
  BY <1>1, <1>2, DownKeeps DEF Down
<1>4. WireInv'
  BY <1>1 DEF Inv, WireInv
<1>5. JoinInv'
  BY <1>1 DEF JoinInv, FreedAfterJoin
<1> QED BY <1>3, <1>4, <1>5 DEF Inv

LEMMA StopPositionInv == ASSUME Inv, StopPosition PROVE Inv'
<1>1. /\ mpc = "position" /\ mpc' = "outputs" /\ todo' = <<"position">>
      /\ UNCHANGED <<want, at, rc, ready, th, imuOpen, outOpen, socks, enabled, files, hpc, wire, failed>>
  BY StageParts DEF StopPosition
<1>2. todo' \in Seq(Threads) /\ wire' \in {"nothing", "data", "shutdown", "data after shutdown"}
  <2>1. {"position"} \subseteq Threads
    BY ThreadsAre
  <2>2. <<"position">> \in Seq(Threads)
    BY <2>1
  <2>3. todo' \in Seq(Threads)
    BY <1>1, <2>2
  <2>4. wire' \in {"nothing", "data", "shutdown", "data after shutdown"}
    BY <1>1 DEF Inv, KindsOK
  <2> QED BY <2>3, <2>4
<1>3. KindsOK' /\ StartInv' /\ OpenInv'
  BY <1>1, <1>2, DownKeeps DEF Down
<1>4. WireInv'
  BY <1>1 DEF Inv, WireInv
<1>5. JoinInv'
  <2>1. Len(todo') = 1 /\ todo'[1] = "position" /\ 1 \in 1 .. 1
    BY <1>1
  <2>2. "position" \in Owed'
    BY <2>1 DEF Owed
  <2> QED BY <1>1, <2>2 DEF JoinInv, FreedAfterJoin
<1> QED BY <1>3, <1>4, <1>5 DEF Inv

\* Nothing is owed any more when a stage begins.
LEMMA NothingOwed == ASSUME todo = <<>> PROVE Owed = {}
  BY DEF Owed

LEMMA StopOutputsInv == ASSUME Inv, StopOutputs PROVE Inv'
<1>1. /\ mpc = "outputs" /\ mpc' = "sensors" /\ todo = <<>> /\ todo' = <<"nmea", "hirate", "stream">>
      /\ UNCHANGED <<want, at, rc, ready, th, imuOpen, outOpen, socks, enabled, files, hpc, wire, failed>>
  BY StageParts DEF StopOutputs
<1>2. todo' \in Seq(Threads) /\ wire' \in {"nothing", "data", "shutdown", "data after shutdown"}
  <2>1. {"nmea", "hirate", "stream"} \subseteq Threads
    BY ThreadsAre
  <2>2. <<"nmea", "hirate", "stream">> \in Seq(Threads)
    BY <2>1
  <2>3. todo' \in Seq(Threads)
    BY <1>1, <2>2
  <2>4. wire' \in {"nothing", "data", "shutdown", "data after shutdown"}
    BY <1>1 DEF Inv, KindsOK
  <2> QED BY <2>3, <2>4
<1>3. KindsOK' /\ StartInv' /\ OpenInv'
  BY <1>1, <1>2, DownKeeps DEF Down
<1>4. WireInv'
  BY <1>1 DEF Inv, WireInv
<1>5. JoinInv'
  <2>1. Len(todo') = 3 /\ todo'[1] = "nmea" /\ todo'[2] = "hirate" /\ todo'[3] = "stream"
        /\ {1, 2, 3} \subseteq 1 .. 3
    BY <1>1
  <2>2. {"nmea", "hirate", "stream"} \subseteq Owed'
    BY <2>1 DEF Owed
  <2>3. th["position"] # "running"
    BY <1>1, NothingOwed DEF Inv, JoinInv
  <2> QED BY <1>1, <2>2, <2>3 DEF JoinInv, FreedAfterJoin
<1> QED BY <1>3, <1>4, <1>5 DEF Inv

LEMMA StopSensorsInv == ASSUME Inv, StopSensors PROVE Inv'
<1>1. /\ mpc = "sensors" /\ mpc' = "free" /\ todo = <<>>
      /\ todo' = <<"health", "fusion", "mag", "ism", "capture">>
      /\ UNCHANGED <<want, at, rc, ready, th, imuOpen, outOpen, socks, enabled, files, hpc, wire, failed>>
  BY StageParts DEF StopSensors
<1>2. todo' \in Seq(Threads) /\ wire' \in {"nothing", "data", "shutdown", "data after shutdown"}
  <2>1. {"health", "fusion", "mag", "ism", "capture"} \subseteq Threads
    BY ThreadsAre
  <2>2. <<"health", "fusion", "mag", "ism", "capture">> \in Seq(Threads)
    BY <2>1
  <2>3. todo' \in Seq(Threads)
    BY <1>1, <2>2
  <2>4. wire' \in {"nothing", "data", "shutdown", "data after shutdown"}
    BY <1>1 DEF Inv, KindsOK
  <2> QED BY <2>3, <2>4
<1>3. KindsOK' /\ StartInv' /\ OpenInv'
  BY <1>1, <1>2, DownKeeps DEF Down
<1>4. WireInv'
  BY <1>1 DEF Inv, WireInv
<1>5. JoinInv'
  <2>1. Len(todo') = 5 /\ todo'[1] = "health" /\ todo'[2] = "fusion" /\ todo'[3] = "mag"
        /\ todo'[4] = "ism" /\ todo'[5] = "capture" /\ {1, 2, 3, 4, 5} \subseteq 1 .. 5
    BY <1>1
  <2>2. {"health", "fusion", "mag", "ism", "capture"} \subseteq Owed'
    BY <2>1 DEF Owed
  <2>3. /\ th["position"] # "running"
        /\ \A t \in {"nmea", "hirate", "stream"} : th[t] # "running"
    BY <1>1, NothingOwed DEF Inv, JoinInv
  <2>4. \A t \in Threads : th[t] = "running" => t \in Owed'
    BY <2>2, <2>3, ThreadsAre
  <2> QED BY <1>1, <2>4 DEF JoinInv, FreedAfterJoin
<1> QED BY <1>3, <1>4, <1>5 DEF Inv

\* A join takes one thread off what is owed, and that one no longer runs.
LEMMA JoinKeeps == ASSUME Inv, Join PROVE Inv'
<1>1. /\ todo # <<>> /\ th[Head(todo)] \in {"none", "exited"} /\ todo' = Tail(todo)
      /\ th' = IF th[Head(todo)] = "none" THEN th ELSE [th EXCEPT ![Head(todo)] = "joined"]
      /\ UNCHANGED <<want, mpc, at, rc, ready, imuOpen, outOpen, socks, enabled, files, hpc, wire, failed>>
  BY DEF Join, environment, resources, packets
<1>2. /\ todo \in Seq(Threads) /\ th \in [Threads -> {"none", "running", "exited", "joined"}]
  BY DEF Inv, KindsOK
<1>3. /\ Head(todo) \in Threads /\ todo' \in Seq(Threads) /\ Len(todo) \in Nat
      /\ Head(todo) = todo[1] /\ Len(todo') = Len(todo) - 1 /\ Len(todo) > 0
      /\ \A k \in 1 .. Len(todo) - 1 : todo'[k] = todo[k + 1]
  BY <1>1, <1>2
<1>4. /\ th' \in [Threads -> {"none", "running", "exited", "joined"}]
      /\ \A t \in Threads : th'[t] = "none" <=> th[t] = "none"
      /\ \A t \in Threads : th'[t] = "running" => th[t] = "running" /\ t # Head(todo)
  BY <1>1, <1>2, <1>3
<1>5. \A t \in Threads : th'[t] = "running" /\ t \in Owed => t \in Owed'
  <2> SUFFICES ASSUME NEW t \in Threads, th'[t] = "running", t \in Owed PROVE t \in Owed'
    OBVIOUS
  <2>1. PICK k \in 1 .. Len(todo) : t = todo[k]
    BY DEF Owed
  <2>2. k # 1
    BY <1>3, <1>4, <2>1
  <2>3. k - 1 \in 1 .. Len(todo') /\ todo'[k - 1] = t
    BY <1>3, <2>1, <2>2
  <2> QED BY <2>3 DEF Owed
<1>6. Outputs \subseteq Threads /\ Core \subseteq Threads /\ "hirate" \in Threads
      /\ {"nmea", "hirate", "stream", "position"} \subseteq Threads
  BY ThreadsAre DEF Outputs, Core
<1>7. KindsOK'
  BY <1>1, <1>3, <1>4 DEF Inv, KindsOK
<1>8. StartInv'
  <2>1. ReadyMeansStarted'
    BY <1>1, <1>4, <1>6 DEF Inv, StartInv, ReadyMeansStarted, Wanted, Core
  <2>2. OutputsHonest'
    BY <1>1, <1>4, <1>6 DEF Inv, StartInv, OutputsHonest
  <2> QED BY <1>1, <1>4, <1>6, <2>1, <2>2 DEF Inv, StartInv, Wanted
<1>9. OpenInv'
  BY <1>1 DEF Inv, OpenInv, NothingLeftBehind
<1>10. WireInv'
  BY <1>1, <1>4, <1>6 DEF Inv, WireInv
<1>11. JoinInv'
  <2>1. FreedAfterJoin'
    BY <1>1, <1>4 DEF Inv, JoinInv, FreedAfterJoin, Running
  <2> QED BY <1>1, <1>4, <1>5, <1>6, <2>1 DEF Inv, JoinInv
<1> QED BY <1>7, <1>8, <1>9, <1>10, <1>11 DEF Inv

LEMMA FreeContextsInv == ASSUME Inv, FreeContexts PROVE Inv'
<1>1. /\ mpc = "free" /\ todo = <<>> /\ mpc' = "unlink"
      /\ outOpen' = FALSE /\ imuOpen' = FALSE /\ socks' = {} /\ files' = files \ {"stream"}
      /\ UNCHANGED <<want, at, todo, rc, ready, th, enabled, hpc, wire, failed>>
  BY DEF FreeContexts, environment, packets
<1>2. KindsOK'
  BY <1>1 DEF Inv, KindsOK
<1>3. StartInv'
  BY <1>1 DEF Inv, StartInv, Starting, Opening, ReadyMeansStarted, OutputsHonest, Wanted
<1>4. OpenInv'
  <2>1. files' \subseteq {"status", "pid"} /\ ~outOpen' /\ ~imuOpen'
    BY <1>1 DEF Inv, KindsOK
  <2> QED BY <1>1, <2>1 DEF OpenInv, NothingLeftBehind
<1>5. WireInv'
  BY <1>1 DEF Inv, WireInv
<1>6. JoinInv'
  BY <1>1, NothingOwed DEF Inv, JoinInv, FreedAfterJoin, Running
<1> QED BY <1>2, <1>3, <1>4, <1>5, <1>6 DEF Inv

LEMMA UnlinkFilesInv == ASSUME Inv, UnlinkFiles PROVE Inv'
<1>1. /\ mpc = "unlink" /\ mpc' = "gone" /\ files' = files \ {"status", "pid"}
      /\ UNCHANGED <<want, at, todo, rc, ready, th, imuOpen, outOpen, socks, enabled, hpc, wire, failed>>
  BY DEF UnlinkFiles, environment, packets
<1>2. KindsOK'
  BY <1>1 DEF Inv, KindsOK
<1>3. StartInv'
  BY <1>1 DEF Inv, StartInv, Starting, Opening, ReadyMeansStarted, OutputsHonest, Wanted
<1>4. OpenInv'
  BY <1>1 DEF Inv, OpenInv, NothingLeftBehind
<1>5. WireInv'
  BY <1>1 DEF Inv, WireInv
<1>6. JoinInv'
  BY <1>1 DEF JoinInv, FreedAfterJoin
<1> QED BY <1>2, <1>3, <1>4, <1>5, <1>6 DEF Inv

LEMMA NextInv == Inv /\ [Next]_vars => Inv'
<1> SUFFICES ASSUME Inv, [Next]_vars PROVE Inv'
  OBVIOUS
<1>1. CASE OpenImu \/ OpenOut \/ \E made \in SUBSET {"status", "pid"} : OpenFiles(made)
  BY <1>1, OpenImuInv, OpenOutInv, OpenFilesInv
<1>2. CASE CreateThread \/ CreateFailsWarn \/ CreateFailsDisable
  BY <1>2, CreateInv
<1>3. CASE CreateFailsFatal \/ CreateFailsStream \/ NotifyReady
  BY <1>3, CreateFailsFatalInv, CreateFailsStreamInv, NotifyReadyInv
<1>4. CASE CatchTerm
  <2>1. mpc' # mpc
    BY <1>4 DEF CatchTerm
  <2> QED BY <1>4, <2>1, LoopEndsInv
<1>5. CASE \E backlog \in BOOLEAN : ReplayPoll(backlog)
  <2>1. CASE mpc' = mpc
    BY <1>5, <2>1, QuietSteps, QuietInv
  <2>2. CASE mpc' # mpc
    BY <1>5, <2>2, LoopEndsInv
  <2> QED BY <2>1, <2>2
<1>6. CASE StopMain \/ SendShutdown \/ StopPosition \/ StopOutputs \/ StopSensors
  BY <1>6, StopMainInv, SendShutdownInv, StopPositionInv, StopOutputsInv, StopSensorsInv
<1>7. CASE Join \/ FreeContexts \/ UnlinkFiles
  BY <1>7, JoinKeeps, FreeContextsInv, UnlinkFilesInv
<1>8. CASE \/ HirateLoop \/ RecorderGivesUp \/ ReaderFails
           \/ \E t \in Threads : ThreadStops(t)
           \/ SendTerm \/ SendHup \/ PlaybackEnds \/ CatchHup \/ UNCHANGED vars
  BY <1>8, QuietSteps, QuietInv
<1> QED BY <1>1, <1>2, <1>3, <1>4, <1>5, <1>6, <1>7, <1>8 DEF Next, Main, Terminated

(* ------------------------------ other types ------------------------------ *)

\* What nothing but the type invariant asks of the rest of the state.
SwitchesOK ==
    /\ replay \in BOOLEAN /\ ready \in BOOLEAN /\ imuOpen \in BOOLEAN /\ outOpen \in BOOLEAN
    /\ term \in BOOLEAN /\ hup \in BOOLEAN /\ draining \in BOOLEAN
    /\ flag \in [Flags -> BOOLEAN]
    /\ reloads \in 0 .. MaxReloads
    /\ playback \in {"playing", "eof", "error"}
    /\ polls \in 0 .. DrainPolls

LEMMA InitSwitches == Init => SwitchesOK
<1> SUFFICES ASSUME Init PROVE SwitchesOK
  OBVIOUS
<1>1. 0 \in 0 .. MaxReloads /\ 0 \in 0 .. DrainPolls
  BY BoundsAssumption
<1>2. /\ replay \in BOOLEAN /\ ready \in BOOLEAN /\ imuOpen \in BOOLEAN /\ outOpen \in BOOLEAN
      /\ term \in BOOLEAN /\ hup \in BOOLEAN /\ draining \in BOOLEAN
  BY Zenon DEF Init
<1>3. flag \in [Flags -> BOOLEAN]
  BY Zenon DEF Init
<1> QED BY <1>1, <1>2, <1>3 DEF Init, SwitchesOK

\* The stop flags only ever hold truth values.
LEMMA FlagSet ==
    ASSUME flag \in [Flags -> BOOLEAN], NEW f, NEW b \in BOOLEAN
    PROVE  [flag EXCEPT ![f] = b] \in [Flags -> BOOLEAN]
  BY Zenon

LEMMA NextSwitches == SwitchesOK /\ [Next]_vars => SwitchesOK'
<1> SUFFICES ASSUME SwitchesOK, [Next]_vars PROVE SwitchesOK'
  OBVIOUS
<1> USE DEF environment, mainVars, resources, signals, replayVars, packets, vars
\* The five groups a step disturbs one or two of.
<1> DEFINE Set    == replay' = replay /\ flag' \in [Flags -> BOOLEAN]
           Opened == ready' \in BOOLEAN /\ imuOpen' \in BOOLEAN /\ outOpen' \in BOOLEAN
           Raised == term' \in BOOLEAN /\ hup' \in BOOLEAN /\ reloads' \in 0 .. MaxReloads
           Played == /\ draining' \in BOOLEAN /\ playback' \in {"playing", "eof", "error"}
                     /\ polls' \in 0 .. DrainPolls
<1>0. ASSUME Set, Opened, Raised, Played PROVE SwitchesOK'
  <2>1. replay' \in BOOLEAN
    BY <1>0 DEF SwitchesOK
  <2> QED BY <1>0, <2>1 DEF SwitchesOK
<1>1. /\ UNCHANGED <<ready, imuOpen, outOpen>> => Opened
      /\ UNCHANGED <<term, hup, reloads>> => Raised
      /\ UNCHANGED <<draining, playback, polls>> => Played
      /\ UNCHANGED <<replay, flag>> => Set
  BY Zenon DEF SwitchesOK
<1> HIDE DEF Set, Opened, Raised, Played
<1>2. CASE OpenImu \/ OpenOut \/ FreeContexts \/ NotifyReady
  <2>1. Opened
    <3>1. /\ ready \in BOOLEAN /\ imuOpen \in BOOLEAN /\ outOpen \in BOOLEAN
          /\ TRUE \in BOOLEAN /\ FALSE \in BOOLEAN
      BY DEF SwitchesOK
    <3>2. /\ ready' = ready \/ ready' = TRUE
          /\ imuOpen' = imuOpen \/ imuOpen' = TRUE \/ imuOpen' = FALSE
          /\ outOpen' = outOpen \/ outOpen' = TRUE \/ outOpen' = FALSE
      BY <1>2, Zenon DEF OpenImu, OpenOut, FreeContexts, NotifyReady
    <3> QED BY <3>1, <3>2, Zenon DEF Opened
  <2> QED BY <1>0, <1>1, <1>2, <2>1, Zenon DEF OpenImu, OpenOut, FreeContexts, NotifyReady
<1>3. CASE \/ \E made \in SUBSET {"status", "pid"} : OpenFiles(made)
           \/ CreateThread \/ CreateFailsWarn \/ CreateFailsDisable \/ CreateFailsStream
           \/ SendShutdown \/ Join \/ UnlinkFiles
  BY <1>0, <1>1, <1>3, Zenon
     DEF OpenFiles, CreateThread, CreateFailsWarn, CreateFailsDisable, CreateFailsStream,
         SendShutdown, Join, UnlinkFiles
<1>4. CASE CreateFailsFatal
  <2>1. Set
    <3>1. (Next1 # "ism") \in BOOLEAN
      BY Zenon
    <3>2. replay' = replay /\ flag' = [flag EXCEPT !["imu"] = Next1 # "ism"]
      BY <1>4 DEF CreateFailsFatal
    <3>3. [flag EXCEPT !["imu"] = Next1 # "ism"] \in [Flags -> BOOLEAN]
      BY <3>1, FlagSet, Zenon DEF SwitchesOK
    <3> QED BY <3>2, <3>3, Zenon DEF Set
  <2> QED BY <1>0, <1>1, <1>4, <2>1, Zenon DEF CreateFailsFatal
<1>5. CASE StopMain \/ StopPosition \/ StopOutputs \/ StopSensors
  <2>1. ASSUME NEW from, NEW f, NEW joins, NEW to, Stage(from, f, joins, to) PROVE SwitchesOK'
    <3>1. Set
      <4>1. [flag EXCEPT ![f] = TRUE] \in [Flags -> BOOLEAN]
        BY FlagSet, Zenon DEF SwitchesOK
      <4> QED BY <2>1, <4>1, Zenon DEF Stage, Set
    <3> QED BY <1>0, <1>1, <2>1, <3>1, Zenon DEF Stage
  <2> QED BY <1>5, <2>1, Zenon DEF StopMain, StopPosition, StopOutputs, StopSensors
<1>6. CASE SendTerm \/ CatchTerm \/ CatchHup \/ ReaderFails
  <2>1. Raised
    BY <1>6, Zenon DEF SendTerm, CatchTerm, CatchHup, ReaderFails, ReaderGivesUp, Raised, SwitchesOK
  <2> QED BY <1>0, <1>1, <1>6, <2>1, Zenon DEF SendTerm, CatchTerm, CatchHup, ReaderFails, ReaderGivesUp
<1>7. CASE SendHup
  <2>1. reloads + 1 \in 0 .. MaxReloads
    BY <1>7, BoundsAssumption DEF SendHup, SwitchesOK
  <2>2. Raised
    BY <1>7, <2>1, Zenon DEF SendHup, Raised, SwitchesOK
  <2> QED BY <1>0, <1>1, <1>7, <2>2, Zenon DEF SendHup
<1>8. CASE PlaybackEnds
  <2>1. Played
    BY <1>8, Zenon DEF PlaybackEnds, Played, SwitchesOK
  <2> QED BY <1>0, <1>1, <1>8, <2>1, Zenon DEF PlaybackEnds
<1>9. ASSUME NEW backlog \in BOOLEAN, ReplayPoll(backlog) PROVE SwitchesOK'
  <2>1. polls' \in 0 .. DrainPolls
    <3>1. polls' = polls \/ (polls < DrainPolls /\ polls' = polls + 1)
      BY <1>9 DEF ReplayPoll
    <3> QED BY <3>1, BoundsAssumption DEF SwitchesOK
  <2>2. draining' \in BOOLEAN /\ playback' = playback
    BY <1>9, Zenon DEF ReplayPoll, SwitchesOK
  <2>3. Played
    BY <2>1, <2>2, Zenon DEF Played, SwitchesOK
  <2> QED BY <1>0, <1>1, <1>9, <2>3, Zenon DEF ReplayPoll
<1>10. CASE \/ HirateLoop \/ RecorderGivesUp
            \/ \E t \in Threads : ThreadStops(t)
            \/ UNCHANGED vars
  BY <1>0, <1>1, <1>10, Zenon
     DEF HirateLoop, HirateTest, HirateTick, RecorderGivesUp, ThreadStops
<1> QED BY <1>2, <1>3, <1>4, <1>5, <1>6, <1>7, <1>8, <1>9, <1>10, Zenon DEF Next, Main, Terminated

(* -------------------------------- theorems ------------------------------- *)

LEMMA InvAlways == Spec => [](Inv /\ SwitchesOK)
<1>1. Init => Inv /\ SwitchesOK
  BY InitInv, InitSwitches
<1>2. Inv /\ SwitchesOK /\ [Next]_vars => (Inv /\ SwitchesOK)'
  BY NextInv, NextSwitches
<1> QED BY <1>1, <1>2, PTL DEF Spec

\* main.c: READY=1, the exit code and the outputs imud-status reports are so: READY
\* is sent only once everything the configuration insists on was created, a start-up
\* that failed exits 1, and while the daemon runs the enabled outputs are the ones
\* with an open socket and a thread.
THEOREM SaysWhatItIsHolds == Spec => []SaysWhatItIs
<1>1. ASSUME Inv, SwitchesOK PROVE SaysWhatItIs
  <2>1. TypeOK
    <3>1. Len(StartOrder) + 1 = 10
      BY ThreadsAre
    <3>2. want \in SUBSET Optional /\ rc \in {0, 1} /\ todo \in Seq(Threads) /\ at \in 1 .. 10
      BY <1>1 DEF Inv, KindsOK
    <3>3. mpc \in {"open_imu", "open_out", "open_files", "create", "loop", "teardown",
                   "shutdown", "position", "outputs", "sensors", "free", "unlink", "gone"}
      BY <1>1 DEF Inv, KindsOK, Starting, Opening
    <3>4. /\ th \in [Threads -> {"none", "running", "exited", "joined"}]
          /\ socks \subseteq Outputs /\ enabled \subseteq Outputs
          /\ files \subseteq {"status", "pid", "stream"}
          /\ hpc \in {"test", "tick"}
          /\ wire \in {"nothing", "data", "shutdown", "data after shutdown"}
          /\ failed \in Threads \cup {"none"}
      BY <1>1 DEF Inv, KindsOK
    <3> QED BY <1>1, <3>1, <3>2, <3>3, <3>4, Zenon DEF SwitchesOK, TypeOK
  <2>2. ReadyMeansStarted /\ OutputsHonest
    BY <1>1 DEF Inv, StartInv
  <2>3. FailedStartExits1
    BY <1>1 DEF Inv, StartInv, Starting, Opening, FailedStartExits1
  <2> QED BY <2>1, <2>2, <2>3 DEF SaysWhatItIs
<1> QED BY <1>1, InvAlways, PTL

\* main.c step 12 and the unwinding arms, output.c out_ctx_send_shutdown: on every
\* way out both contexts outlive the threads that use them (all but the recorder the
\* health thread's arm forgets), nothing is left in /run/imud, and a high-rate stream
\* that carried data has been announced ended.
THEOREM LeavesCleanlyHolds == Spec => []LeavesCleanly
<1>1. ASSUME Inv PROVE LeavesCleanly
  <2>1. FreedAfterJoin /\ NothingLeftBehind
    BY <1>1 DEF Inv, JoinInv, OpenInv
  <2>2. ShutdownAnnounced
    BY <1>1 DEF Inv, WireInv, ShutdownAnnounced
  <2> QED BY <2>1, <2>2 DEF LeavesCleanly
<1> QED BY <1>1, InvAlways, PTL
=============================================================================
