--------------------------- MODULE Programs_proofs ---------------------------
(***************************************************************************)
(* Proofs about the programs beside the daemon, each with constants of its *)
(* own: the bridges that take its data on, imud-cal, and imud-imutest.     *)
(* They share nothing, so each part is about one specification alone.      *)
(*                                                                         *)
(*   Bridges   no SIGHUP is lost, the UDP output goes where the            *)
(*             configuration in force says, and nothing out of date is offered *)
(*             as current.                                                 *)
(*   CalTool   what a fit is made of, and what happens to the calibration file *)
(*             when a run is confirmed, fails or dies.                     *)
(*   HwTest    a disturbance by one check is gone before the next, and the *)
(*             recommendation is earned.                                   *)
(***************************************************************************)
EXTENDS Bridges, CalTool, HwTest, FiniteSetTheorems, TLAPS

(***************************************************************************)
(* The bridges.                                                            *)
(***************************************************************************)

(* ------------------------------- invariants ------------------------------ *)

ConfigOK == cfg \in [udp : BOOLEAN, dest : Dests, retain : BOOLEAN, prefix : Prefixes]

\* imud-influxdb goes by the configuration, imud-mavlink by its sink: while the
\* first runs the two are the same.
SinkInv ==
    /\ kind = "influx" /\ pc \notin {"start", "exit"} => cfg.udp = udp
    /\ OutputAsStarted

\* In agreement with its broker a bridge may, between the values it has just
\* published and the clears that follow, have topics retained that are not live
\* yet: they are those of the sample it is at.
Agreed == kind = "mqtt" /\ pc # "exit" /\ ~moved /\ broker = "up" /\ ~resync /\ primed
StaleInv ==
    Agreed => \A t \in Topics : <<cfg.prefix, t>> \in held =>
                  t \in live \/ (pc \in {"resync", "clears"} /\ t \in latest)

Inv == ConfigOK /\ HangupHeard /\ FromThisConnection /\ SinkInv /\ StaleInv

\* What a step leaves alone when it is not about the settings, the signals, the
\* connection or the broker.
LEMMA ConfigStays ==
    ASSUME Inv, UNCHANGED <<kind, config>>,
           pc \notin {"start", "exit"} \/ pc' \in {"start", "exit"}
    PROVE  ConfigOK' /\ SinkInv'
<1>1. UNCHANGED <<kind, cfg, udp, fd>>
  BY DEF config
<1>2. ConfigOK'
  BY <1>1 DEF Inv, ConfigOK
<1>3. SinkInv'
  BY <1>1 DEF Inv, SinkInv, OutputAsStarted
<1> QED BY <1>2, <1>3

LEMMA SignalsStay ==
    ASSUME Inv, UNCHANGED signals, pc \notin {"load", "exit"} \/ pc' \in {"load", "exit"}
    PROVE  HangupHeard'
<1>1. UNCHANGED <<asked, reload>>
  BY Zenon DEF signals
<1> QED BY <1>1, Zenon DEF Inv, HangupHeard

LEMMA LinkStays == ASSUME Inv, UNCHANGED link PROVE FromThisConnection'
<1>1. UNCHANGED <<have, own, stream>>
  BY Zenon DEF link
<1> QED BY <1>1, Zenon DEF Inv, FromThisConnection

LEMMA BrokerStays ==
    ASSUME Inv, UNCHANGED mqtt, UNCHANGED kind, cfg'.prefix = cfg.prefix \/ moved',
           moved => moved', pc # "exit" \/ pc' = "exit",
           pc \notin {"resync", "clears"} \/ UNCHANGED <<pc, latest>>
    PROVE  StaleInv'
<1>1. UNCHANGED <<broker, resync, live, primed, held>>
  BY Zenon DEF mqtt
<1>2. Agreed' => Agreed /\ cfg'.prefix = cfg.prefix
  BY <1>1, Zenon DEF Agreed
<1>3. SUFFICES ASSUME Agreed', NEW t \in Topics, <<cfg'.prefix, t>> \in held'
               PROVE  t \in live' \/ (pc' \in {"resync", "clears"} /\ t \in latest')
  BY Zenon DEF StaleInv
<1>4. t \in live \/ (pc \in {"resync", "clears"} /\ t \in latest)
  BY <1>1, <1>2, <1>3, Zenon DEF Inv, StaleInv
<1> QED BY <1>1, <1>4, Zenon

LEMMA InitInv == Init => Inv
<1> SUFFICES ASSUME Init PROVE Inv
  OBVIOUS
<1>1. cfg \in [udp : BOOLEAN, dest : Dests, retain : BOOLEAN, prefix : Prefixes] /\ pc = "start"
  BY Zenon DEF Init, Files
<1>2. ~asked /\ ~have /\ ~primed
  BY Zenon DEF Init
<1> QED BY <1>1, <1>2, Zenon
        DEF Inv, ConfigOK, HangupHeard, FromThisConnection, SinkInv, OutputAsStarted, StaleInv,
            Agreed

(* --------------------------------- steps --------------------------------- *)

\* The steps that touch none of the four: they only move the program on, or are
\* about the daemon or the scrape.
LEMMA IdleInv ==
    ASSUME Inv, Linked \/ Timeout \/ Tick \/ Serve \/ DeadlinePasses \/ Done \/ UNCHANGED vars
    PROVE  Inv'
<1>1. /\ UNCHANGED <<kind, config, signals, link, mqtt>>
      /\ UNCHANGED pc \/ (pc \in {"link", "read", "tick", "serve"}
                          /\ pc' \in {"read", "serve", "tick", "top"})
  BY Zenon DEF Linked, Timeout, Tick, Serve, DeadlinePasses, Done, vars, Go, After
<1>2. cfg'.prefix = cfg.prefix /\ (moved => moved') /\ UNCHANGED latest
  BY <1>1, Zenon DEF config, link
<1> QED BY <1>1, <1>2, ConfigStays, SignalsStay, LinkStays, BrokerStays DEF Inv

LEMMA StartInv == ASSUME Inv, Start PROVE Inv'
<1>1. /\ pc = "start" /\ UNCHANGED <<kind, cfg, moved, signals, link, mqtt>>
      /\ \/ pc' = "top" /\ udp' = cfg.udp /\ fd' = IF cfg.udp THEN cfg.dest ELSE NoSocket
         \/ pc' = "exit" /\ UNCHANGED <<udp, fd>>
  BY Zenon DEF Start, Go
<1>2. ConfigOK'
  BY <1>1, Zenon DEF Inv, ConfigOK
<1>3. SinkInv'
  BY <1>1, Zenon DEF SinkInv, OutputAsStarted
<1>4. cfg'.prefix = cfg.prefix /\ (moved => moved')
  BY <1>1, Zenon
<1> QED BY <1>1, <1>2, <1>3, <1>4, SignalsStay, LinkStays, BrokerStays DEF Inv

LEMMA OnSignalInv == ASSUME Inv, OnSignal PROVE Inv'
<1>1. UNCHANGED <<kind, pc, config, link, mqtt>> /\ pc \notin {"start", "exit"}
  BY Zenon DEF OnSignal
<1>2. HangupHeard'
  <2>1. pc' = pc /\ (reload' = TRUE \/ (reload' = reload /\ asked' = asked))
    BY Zenon DEF OnSignal
  <2> QED BY <2>1, Zenon DEF Inv, HangupHeard
<1>3. cfg'.prefix = cfg.prefix /\ (moved => moved') /\ UNCHANGED latest
  BY <1>1, Zenon DEF config, link
<1> QED BY <1>1, <1>2, <1>3, ConfigStays, LinkStays, BrokerStays DEF Inv

LEMMA TopInv == ASSUME Inv, Top PROVE Inv'
<1>1. UNCHANGED <<kind, config, link, mqtt>> /\ pc = "top" /\ pc' \in {"exit", "load", "link"}
  BY Zenon DEF Top, Go
\* The flag is taken only by a pass that goes on to read the file.
<1>2. HangupHeard'
  <2>1. asked' = asked /\ pc = "top" /\ (asked => reload)
    BY Zenon DEF Top, Inv, HangupHeard
  <2>2. pc' = IF stop THEN "exit" ELSE IF reload THEN "load" ELSE "link"
    BY Zenon DEF Top, Go
  <2> QED BY <2>1, <2>2, Zenon DEF HangupHeard
<1>3. cfg'.prefix = cfg.prefix /\ (moved => moved')
  BY <1>1, Zenon DEF config
<1> QED BY <1>1, <1>2, <1>3, ConfigStays, LinkStays, BrokerStays DEF Inv

LEMMA LoadFailsInv == ASSUME Inv, LoadFails PROVE Inv'
<1>1. UNCHANGED <<kind, config, link, mqtt>> /\ pc = "load" /\ pc' = "link" /\ asked' = FALSE
  BY Zenon DEF LoadFails, Go
<1>2. HangupHeard'
  BY <1>1, Zenon DEF HangupHeard
<1>3. cfg'.prefix = cfg.prefix /\ (moved => moved')
  BY <1>1, Zenon DEF config
<1> QED BY <1>1, <1>2, <1>3, ConfigStays, LinkStays, BrokerStays DEF Inv

\* A reload keeps the enable, and moves the socket with the destination.
LEMMA LoadInv == ASSUME Inv, Load PROVE Inv'
<1>1. /\ UNCHANGED <<kind, udp, link, mqtt>> /\ pc = "load" /\ asked' = FALSE
      /\ \/ pc' = "link"
         \/ pc' = "exit" /\ UNCHANGED <<cfg, moved>>
  BY Zenon DEF Load, Go
<1>2. HangupHeard'
  BY <1>1, Zenon DEF HangupHeard
<1>3. CASE pc' = "exit" /\ UNCHANGED <<cfg, moved>>
  <2>1. cfg'.prefix = cfg.prefix /\ (moved => moved')
    BY <1>3, Zenon
  <2>2. ConfigOK' /\ SinkInv'
    BY <1>3, Zenon DEF Inv, ConfigOK, SinkInv, OutputAsStarted
  <2> QED BY <1>1, <1>2, <1>3, <2>1, <2>2, LinkStays, BrokerStays DEF Inv
<1>4. CASE pc' = "link"
  <2>1. PICK nc \in Files(kind) :
            /\ cfg' = Carried(nc)
            /\ fd' = IF Sends /\ nc.dest # cfg.dest THEN nc.dest ELSE fd
            /\ moved' = (moved \/ nc.prefix # cfg.prefix)
    BY <1>4, Zenon DEF Load, Go
  <2>2. /\ nc \in [udp : BOOLEAN, dest : Dests, retain : BOOLEAN, prefix : Prefixes]
        /\ cfg \in [udp : BOOLEAN, dest : Dests, retain : BOOLEAN, prefix : Prefixes]
    BY Zenon DEF Files, Inv, ConfigOK
  <2>3. /\ cfg' \in [udp : BOOLEAN, dest : Dests, retain : BOOLEAN, prefix : Prefixes]
        /\ cfg'.dest = nc.dest /\ cfg'.prefix = nc.prefix
        /\ kind = "influx" => cfg'.udp = cfg.udp
    BY <2>1, <2>2 DEF Carried
  <2>4. cfg'.prefix = cfg.prefix \/ moved'
    BY <2>1, <2>3, Zenon
  <2>5. moved => moved'
    BY <2>1, Zenon
  <2>6. ASSUME kind \in {"influx", "mavlink"} PROVE fd' = IF udp THEN nc.dest ELSE NoSocket
    <3>1. fd = IF udp THEN cfg.dest ELSE NoSocket
      BY <1>1, <2>6, Zenon DEF Inv, SinkInv, OutputAsStarted
    <3>2. Sends <=> udp
      BY <1>1, <2>6, Zenon DEF Inv, SinkInv, Sends, HasUdp
    <3> QED BY <2>1, <3>1, <3>2, Zenon
  <2>7. SinkInv'
    <3>1. kind' = "influx" => cfg'.udp = udp'
      BY <1>1, <2>3, Zenon DEF Inv, SinkInv
    <3>2. OutputAsStarted'
      BY <1>1, <2>3, <2>6, Zenon DEF OutputAsStarted
    <3> QED BY <3>1, <3>2, Zenon DEF SinkInv
  <2> QED BY <1>1, <1>2, <1>4, <2>3, <2>4, <2>5, <2>7, LinkStays, BrokerStays DEF Inv, ConfigOK
<1> QED BY <1>1, <1>3, <1>4

\* A connection that comes starts without a sample, and one that goes takes its
\* sample along.
LEMMA ConnectionInv ==
    ASSUME Inv, Connects \/ Unavailable \/ Packet \/ Lost \/ DaemonTurns \/ Cut
    PROVE  Inv'
<1>1. /\ UNCHANGED <<kind, config, signals, mqtt>>
      /\ \/ pc \in {"link", "read"} /\ pc' \in {"read", "serve", "top", "tick"}
         \/ UNCHANGED <<pc, latest>>
  BY Zenon DEF Connects, Unavailable, Packet, Lost, DaemonTurns, Cut, Go, After
<1>2. FromThisConnection'
  <2>1. CASE Connects
    BY <2>1, Zenon DEF Connects, Inv, FromThisConnection
  <2>2. CASE Unavailable \/ Packet \/ Lost
    BY <2>2, Zenon DEF Unavailable, Packet, Lost, FromThisConnection
  <2>3. CASE DaemonTurns \/ Cut
    <3>1. UNCHANGED <<have, own>> /\ (stream' = stream \/ stream' = "cut")
      BY <2>3, Zenon DEF DaemonTurns, Cut
    <3>2. "cut" # "none"
      OBVIOUS
    <3> QED BY <3>1, <3>2, Zenon DEF Inv, FromThisConnection
  <2> QED BY <2>1, <2>2, <2>3
<1>3. cfg'.prefix = cfg.prefix /\ (moved => moved')
  BY <1>1, Zenon DEF config
<1> QED BY <1>1, <1>2, <1>3, ConfigStays, SignalsStay, BrokerStays DEF Inv

(* ------------------------------ the broker ------------------------------- *)

\* The settings, the signals and the connection are not the broker's business.
LEMMA BrokerOnly ==
    ASSUME Inv, UNCHANGED <<kind, config, signals, link>>,
           UNCHANGED pc \/ (pc \in {"tick", "resync", "clears"}
                            /\ pc' \in {"resync", "clears", "top"})
    PROVE  ConfigOK' /\ SinkInv' /\ HangupHeard' /\ FromThisConnection'
  BY ConfigStays, SignalsStay, LinkStays

LEMMA PublishStateInv == ASSUME Inv, PublishState PROVE Inv'
<1>1. /\ UNCHANGED <<kind, config, signals, link, broker, resync, live, primed>>
      /\ kind = "mqtt" /\ pc = "tick"
      /\ held' = IF cfg.retain /\ Online THEN held \cup Retain(latest) ELSE held
      /\ pc' = IF cfg.retain THEN "resync" ELSE "top"
  BY Zenon DEF PublishState, Go
<1>2. UNCHANGED <<cfg, moved, latest>>
  BY <1>1, Zenon DEF config, link
<1>3. StaleInv'
  <2> SUFFICES ASSUME Agreed', NEW t \in Topics, <<cfg.prefix, t>> \in held'
               PROVE  t \in live \/ (pc' \in {"resync", "clears"} /\ t \in latest)
    BY <1>1, <1>2, Zenon DEF StaleInv
  <2>1. Agreed
    BY <1>1, <1>2, Zenon DEF Agreed
  <2>2. <<cfg.prefix, t>> \in held => t \in live
    BY <1>1, <2>1, Zenon DEF Inv, StaleInv
  <2>3. <<cfg.prefix, t>> \in Retain(latest) => t \in latest
    BY DEF Retain
  <2> QED BY <1>1, <2>2, <2>3
<1> QED BY <1>1, <1>3, BrokerOnly DEF Inv

\* The flag is taken: what it stood for is remembered as a table to be cleared whole.
LEMMA TakeResyncInv == ASSUME Inv, TakeResync PROVE Inv'
<1>1. /\ UNCHANGED <<kind, config, signals, link, broker, live, held>>
      /\ pc = "resync" /\ pc' = "clears" /\ primed' = (primed /\ ~resync)
  BY Zenon DEF TakeResync, Go
<1>2. UNCHANGED <<cfg, moved, latest>>
  BY <1>1, Zenon DEF config, link
<1>3. StaleInv'
  <2>1. Agreed' => Agreed
    BY <1>1, <1>2, Zenon DEF Agreed
  <2> QED BY <1>1, <1>2, <2>1, Zenon DEF Inv, StaleInv
<1> QED BY <1>1, <1>3, BrokerOnly DEF Inv

\* After the clears nothing is retained but what was just published.
LEMMA ClearsInv == ASSUME Inv, Clears PROVE Inv'
<1> DEFINE gone == {t \in Topics \ latest : t \in live \/ ~primed}
<1>1. /\ UNCHANGED <<kind, config, signals, link, broker, resync>>
      /\ pc = "clears" /\ pc' = "top" /\ live' = latest
      /\ held' = IF Online THEN held \ Retain(gone) ELSE held
  BY Zenon DEF Clears, Go
<1>2. UNCHANGED <<cfg, moved, latest>>
  BY <1>1, Zenon DEF config, link
<1>3. StaleInv'
  <2> SUFFICES ASSUME Agreed', NEW t \in Topics, <<cfg.prefix, t>> \in held' PROVE t \in latest
    BY <1>1, <1>2, Zenon DEF StaleInv
  <2>1. /\ kind = "mqtt" /\ ~moved /\ broker = "up" /\ ~resync
    BY <1>1, <1>2, Zenon DEF Agreed
  <2>2. Online
    BY <2>1 DEF Online
  <2>3. <<cfg.prefix, t>> \in held /\ <<cfg.prefix, t>> \notin Retain(gone)
    BY <1>1, <2>2
  <2>4. t \notin gone
    BY <2>3 DEF Retain
  <2>5. CASE primed
    <3>1. Agreed
      BY <1>1, <2>1, <2>5, Zenon DEF Agreed
    <3>2. t \in live \/ t \in latest
      BY <2>3, <3>1, Zenon DEF Inv, StaleInv
    <3> QED BY <2>4, <3>2, Zenon
  <2>6. CASE ~primed
    BY <2>4, <2>6, Zenon
  <2> QED BY <2>5, <2>6
<1> QED BY <1>1, <1>3, BrokerOnly DEF Inv

\* The broker comes and goes at any moment, on a thread of its own: it is in
\* agreement with nobody until the bridge has resynchronised.
LEMMA BrokerMovesInv == ASSUME Inv, BrokerComes \/ OnConnect \/ BrokerGoes PROVE Inv'
<1>1. UNCHANGED <<kind, pc, config, signals, link>>
  BY Zenon DEF BrokerComes, OnConnect, BrokerGoes
<1>2. ~Agreed'
  <2>1. "joining" # "up" /\ "down" # "up"
    OBVIOUS
  <2> QED BY <2>1, Zenon DEF BrokerComes, OnConnect, BrokerGoes, Agreed
<1>3. StaleInv'
  BY <1>2, Zenon DEF StaleInv
<1> QED BY <1>1, <1>3, BrokerOnly DEF Inv

(* -------------------------------- theorems ------------------------------- *)

LEMMA InvAlways == Spec => []Inv
<1>1. Init => Inv
  BY InitInv
<1>2. Inv /\ [Next]_vars => Inv'
  BY IdleInv, StartInv, OnSignalInv, TopInv, LoadFailsInv, LoadInv, ConnectionInv,
     PublishStateInv, TakeResyncInv, ClearsInv, BrokerMovesInv, Zenon DEF Next, Loop
<1> QED BY <1>1, <1>2, PTL DEF Spec

\* bridge.c bridge_reload_begin, influx_main.c, mavlink_main.c: a SIGHUP that comes
\* after the file was edited is never lost, and through any sequence of reloads
\* imud-influxdb and imud-mavlink send where the configuration in force says, if the
\* output was enabled when they started, and otherwise nowhere.
THEOREM ReloadsHonouredHolds == Spec => []ReloadsHonoured
<1>1. Inv => ReloadsHonoured
  BY Zenon DEF Inv, SinkInv, ReloadsHonoured
<1> QED BY <1>1, InvAlways, PTL

\* bridge.c, mqtt_publish.c: what a bridge offers as current came over the connection
\* that is up, and a broker in agreement with imud-mqtt retains no value the bridge
\* withholds, between whatever two steps the broker went away and came back.
THEOREM NothingOutdatedHolds == Spec => []NothingOutdated
<1>1. Inv => NothingStale
  <2> SUFFICES ASSUME Inv, Agreed, pc \notin {"resync", "clears"}, NEW t \in Topics,
                      <<cfg.prefix, t>> \in held
               PROVE  t \in live
    BY Zenon DEF NothingStale, Agreed
  <2> QED BY Zenon DEF Inv, StaleInv
<1>2. Inv => NothingOutdated
  BY <1>1, Zenon DEF Inv, NothingOutdated
<1> QED BY <1>2, InvAlways, PTL

(***************************************************************************)
(* imud-cal.                                                               *)
(***************************************************************************)

(* --------------------------- the swing's buffer -------------------------- *)

Keeps == [s : Seq(Nat), seen : Nat, stride : Nat \ {0}]

\* The sample that is due is the next one at the buffer's distance.
LEMMA DueIsNext ==
    ASSUME NEW n \in Nat, NEW d \in Nat \ {0}, NEW len \in Nat,
           (len - 1) * d < n, n <= len * d, n % d = 0
    PROVE  n = len * d
<1> DEFINE q == n \div d
<1>1. q \in Nat /\ n = q * d
  BY DEF q
<1> HIDE DEF q
<1>2. (len - 1) * d < q * d /\ q * d <= len * d
  BY <1>1
<1>3. len - 1 < q
  <2>1. ASSUME q <= len - 1 PROVE q * d <= (len - 1) * d
    BY <1>1, <2>1
  <2> QED BY <1>1, <1>2, <2>1
<1>4. q <= len
  <2>1. ASSUME len + 1 <= q PROVE (len + 1) * d <= q * d
    BY <1>1, <2>1
  <2>2. (len + 1) * d = len * d + d
    OBVIOUS
  <2> QED BY <1>1, <1>2, <2>1, <2>2
<1>5. q = len
  BY <1>1, <1>3, <1>4
<1> QED BY <1>1, <1>5

\* And a sample that is not due leaves room for itself below the next.
LEMMA NotDueIsBelow ==
    ASSUME NEW n \in Nat, NEW d \in Nat \ {0}, NEW len \in Nat,
           n <= len * d, n % d # 0
    PROVE  n + 1 <= len * d
<1>1. (len * d) % d = 0
  OBVIOUS
<1>2. n # len * d
  BY <1>1
<1> QED BY <1>2

\* A run of samples at one distance, and one more at its end.
LEMMA SpreadGrows ==
    ASSUME NEW s \in Seq(Nat), NEW d \in Nat \ {0}, NEW n \in Nat,
           \A j \in DOMAIN s : s[j] = (j - 1) * d,
           n = Len(s) * d, Len(s) < Cap
    PROVE  /\ [s |-> Append(s, n), seen |-> n + 1, stride |-> d] \in Keeps
           /\ Spread([s |-> Append(s, n), seen |-> n + 1, stride |-> d])
<1> DEFINE len == Len(s)
           more == Append(s, n)
           k == [s |-> more, seen |-> n + 1, stride |-> d]
<1>1. more \in Seq(Nat) /\ Len(more) = len + 1 /\ DOMAIN more = 1 .. len + 1 /\ len \in Nat
  OBVIOUS
<1>2. \A j \in 1 .. len + 1 : more[j] = (j - 1) * d
  <2>1. \A j \in 1 .. len : more[j] = s[j] /\ j \in DOMAIN s
    OBVIOUS
  <2>2. more[len + 1] = n
    OBVIOUS
  <2>3. \A j \in 1 .. len : s[j] = (j - 1) * d
    OBVIOUS
  <2>4. (len + 1) - 1 = len
    BY <1>1
  <2>5. \A j \in 1 .. len : more[j] = (j - 1) * d
    BY <2>1, <2>3
  <2>6. more[len + 1] = ((len + 1) - 1) * d
    BY <2>2, <2>4
  <2> HIDE DEF more, len
  <2>7. \A j \in 1 .. len + 1 : j \in 1 .. len \/ j = len + 1
    BY <1>1
  <2> QED BY <2>5, <2>6, <2>7
<1>3. len + 1 <= Cap
  BY <1>1, CapAssumption
<1> HIDE DEF len, more
<1>4. n = len * d
  BY DEF len
<1>5. ((len + 1) - 1) * d < n + 1 /\ n + 1 <= (len + 1) * d
  <2>1. (len + 1) * d = len * d + d /\ (len + 1) - 1 = len /\ len * d \in Nat
    BY <1>1
  <2> QED BY <1>1, <1>4, <2>1
<1>6. k \in Keeps
  BY <1>1 DEF Keeps
<1> QED BY <1>1, <1>2, <1>3, <1>5, <1>6, Zenon DEF Spread, k, more, len

\* Every second one of the samples of a full buffer.
LEMMA SpreadHalves ==
    ASSUME NEW s \in Seq(Nat), NEW d \in Nat \ {0},
           \A j \in DOMAIN s : s[j] = (j - 1) * d, Len(s) = Cap
    PROVE  LET thin == [j \in 1 .. Cap \div 2 |-> s[2 * j - 1]]
           IN  /\ thin \in Seq(Nat) /\ Len(thin) = Cap \div 2
               /\ \A j \in DOMAIN thin : thin[j] = (j - 1) * (2 * d)
<1> DEFINE half == Cap \div 2
<1>1. half \in Nat \ {0} /\ Cap = 2 * half
  BY CapAssumption
<1> HIDE DEF half
<1>2. \A j \in 1 .. half : 2 * j - 1 \in 1 .. Cap /\ (2 * j - 1) - 1 = 2 * (j - 1) /\ j - 1 \in Nat
  <2>1. \A j \in 1 .. half : j \in Nat /\ 1 <= j /\ j <= half
    BY <1>1
  <2> QED BY <1>1, <2>1
<1>3. \A j \in 1 .. half : 2 * j - 1 \in DOMAIN s
  <2>1. DOMAIN s = 1 .. Cap
    OBVIOUS
  <2> QED BY <1>2, <2>1
<1>4. \A j \in 1 .. half : s[2 * j - 1] = (2 * (j - 1)) * d /\ s[2 * j - 1] \in Nat
  <2> TAKE j \in 1 .. half
  <2> DEFINE i == 2 * j - 1
  <2>1. i \in DOMAIN s /\ i - 1 = 2 * (j - 1)
    BY <1>2, <1>3
  <2> HIDE DEF i
  <2>2. s[i] = (i - 1) * d /\ s[i] \in Nat
    BY <2>1
  <2> QED BY <2>1, <2>2 DEF i
<1>5. \A i \in Nat : (2 * i) * d = i * (2 * d)
  OBVIOUS
<1>6. \A j \in 1 .. half : s[2 * j - 1] = (j - 1) * (2 * d) /\ s[2 * j - 1] \in Nat
  BY <1>2, <1>4, <1>5
<1> DEFINE thin == [j \in 1 .. half |-> s[2 * j - 1]]
<1>7. thin \in Seq(Nat) /\ Len(thin) = half /\ DOMAIN thin = 1 .. half
  BY <1>1, <1>6
<1> QED BY <1>6, <1>7 DEF half

\* However often the buffer is thinned, what it keeps of the swing stays spread evenly.
LEMMA SpreadKept ==
    ASSUME NEW k \in Keeps, Spread(k)
    PROVE  Keep(k) \in Keeps /\ Spread(Keep(k))
<1>1. /\ k.s \in Seq(Nat) /\ k.seen \in Nat /\ k.stride \in Nat \ {0} /\ Len(k.s) \in Nat
      /\ Len(k.s) <= Cap /\ (Len(k.s) - 1) * k.stride < k.seen
      /\ k.seen <= Len(k.s) * k.stride
      /\ \A j \in DOMAIN k.s : k.s[j] = (j - 1) * k.stride
  BY DEF Keeps, Spread
<1>2. CASE k.seen % k.stride # 0
  <2> DEFINE next == [s |-> k.s, seen |-> k.seen + 1, stride |-> k.stride]
  <2>1. Keep(k) = next
    BY <1>2 DEF Keep
  <2>2. k.seen + 1 <= Len(k.s) * k.stride
    BY <1>1, <1>2, NotDueIsBelow
  <2>3. (Len(k.s) - 1) * k.stride < k.seen + 1
    <3>1. (Len(k.s) - 1) * k.stride \in Int
      BY <1>1
    <3> QED BY <1>1, <3>1
  <2>4. k.seen + 1 \in Nat
    BY <1>1
  <2>5. next \in Keeps
    BY <1>1, <2>4 DEF Keeps
  <2>6. Spread(next)
    BY <1>1, <2>2, <2>3, Zenon DEF Spread
  <2> QED BY <2>1, <2>5, <2>6
<1>3. CASE k.seen % k.stride = 0 /\ Len(k.s) # Cap
  <2>1. k.seen = Len(k.s) * k.stride
    BY <1>1, <1>3, DueIsNext
  <2>2. Keep(k) = [s |-> Append(k.s, k.seen), seen |-> k.seen + 1, stride |-> k.stride]
    BY <1>3 DEF Keep, Room
  <2>3. Len(k.s) < Cap
    BY <1>1, <1>3, CapAssumption
  <2> QED BY <1>1, <2>1, <2>2, <2>3, SpreadGrows
<1>4. CASE k.seen % k.stride = 0 /\ Len(k.s) = Cap
  <2> DEFINE thin == [j \in 1 .. Cap \div 2 |-> k.s[2 * j - 1]]
             d == 2 * k.stride
  <2>1. k.seen = Cap * k.stride
    BY <1>1, <1>4, DueIsNext
  <2>2. /\ thin \in Seq(Nat) /\ Len(thin) = Cap \div 2
        /\ \A j \in DOMAIN thin : thin[j] = (j - 1) * d
    BY <1>1, <1>4, SpreadHalves
  <2>3. Room(k).s = thin /\ Room(k).stride = d
    BY <1>4 DEF Room, Halve, Keeps
  <2> HIDE DEF thin
  <2>4. d \in Nat \ {0} /\ Cap \div 2 \in Nat \ {0} /\ Cap \div 2 < Cap
        /\ k.seen = (Cap \div 2) * d /\ k.seen % d = 0
    <3>1. Cap \div 2 \in Nat \ {0} /\ Cap = 2 * (Cap \div 2) /\ Cap \div 2 < Cap
      BY CapAssumption
    <3>2. \A c, e \in Nat \ {0} : (2 * c) * e = c * (2 * e) /\ 2 * e \in Nat \ {0}
      OBVIOUS
    <3>3. k.seen = (Cap \div 2) * d /\ d \in Nat \ {0}
      BY <1>1, <2>1, <3>1, <3>2
    <3> HIDE DEF d
    <3>4. \A c, e \in Nat \ {0} : (c * e) % e = 0
      OBVIOUS
    <3>5. ((Cap \div 2) * d) % d = 0
      BY <3>1, <3>3, <3>4
    <3>6. k.seen % d = 0
      BY <3>3, <3>5
    <3> QED BY <3>1, <3>3, <3>6, Zenon
  <2> HIDE DEF d
  <2>5. Keep(k) = [s |-> Append(thin, k.seen), seen |-> k.seen + 1, stride |-> d]
    BY <1>4, <2>3, <2>4 DEF Keep
  <2>6. k.seen \in Nat /\ k.seen = Len(thin) * d /\ Len(thin) < Cap
    BY <1>1, <2>2, <2>4
  <2> QED BY <2>2, <2>4, <2>5, <2>6, SpreadGrows
<1> QED BY <1>2, <1>3, <1>4

LEMMA SpreadInit == KeepInit \in Keeps /\ Spread(KeepInit)
<1>1. <<>> \in Seq(Nat) /\ Len(<<>>) = 0 /\ DOMAIN <<>> = {}
  OBVIOUS
<1> QED BY <1>1, CapAssumption DEF KeepInit, Keeps, Spread

(* ------------------------------ the processes ---------------------------- *)

Texts == [whole : BOOLEAN, sec : [Sections -> Int]]

Places == {"off", "done", "load", "imu", "open", "settle", "measure", "collect", "fit",
           "ask", "capture", "analyse", "end", "write", "flush", "sync", "rename", "dirsync"}

Procs == [pc : Places, mode : Modes, run : 0 .. Runs, settle : BOOLEAN,
          cal : [Sections -> Int], found : Texts, bus : SUBSET {"imu", "mag"},
          stop : BOOLEAN, keep : Keeps, done : Nat, rough : BOOLEAN, own : Int,
          said : BOOLEAN, fd : 0 .. Runs + 1, ok : BOOLEAN, code : {0, 1}, saved : BOOLEAN]

DiskTypes ==
    /\ ino \in [Inodes -> [text : Texts, hard : Texts]]
    /\ dir \in [cal : 0 .. Runs + 1, tmp : 0 .. Runs + 1]
    /\ may \subseteq 0 .. Runs + 1
    /\ runs \in 0 .. Runs /\ cuts \in Nat

\* What a process knows of its own measurement at each place: how many parts are
\* done, and of what the fit it asks about was made.
Measured(p) ==
    /\ Spread(p.keep)
    /\ p.done <= Parts(p.mode)
    /\ p.pc = "collect" => p.done < Parts(p.mode) /\ p.mode \in {"gyro", "accel"}
    /\ p.pc = "fit" => \/ p.mode = "accel" /\ (p.stop \/ p.done = Faces)
                       \/ p.mode = "gyro" /\ p.done = 2
    /\ p.pc = "ask" => CASE p.mode = "accel" -> p.done = Faces
                         [] p.mode = "gyro"  -> p.done = 2 /\ ~p.rough
                         [] OTHER -> Len(p.keep.s) >= 5 /\ p.mode = "mag"

ToolInv == DiskTypes /\ proc \in [Tools -> Procs] /\ \A t \in Tools : Measured(proc[t])

LEMMA TextType == ASSUME DiskTypes PROVE CalText \in Texts
<1>1. Whole(Empty) \in Texts
  BY DEF Texts, Whole, Empty, Absent
<1>2. ASSUME dir.cal # NoInode PROVE dir.cal \in Inodes
  BY <1>2, CalAssumption DEF DiskTypes, NoInode, Inodes
<1>3. ASSUME dir.cal # NoInode PROVE ino[dir.cal].text \in Texts
  BY <1>2, <1>3 DEF DiskTypes
<1> QED BY <1>1, <1>3 DEF CalText

LEMMA IdleType == Idle \in Procs /\ Measured(Idle)
<1>1. Empty \in [Sections -> Int]
  BY DEF Empty, Absent
<1>2. Torn \in Texts
  BY <1>1 DEF Torn, Texts
<1>3. NoInode \in 0 .. Runs + 1 /\ 0 \in 0 .. Runs /\ Absent \in Int
  BY CalAssumption DEF NoInode, Absent
<1>4. Idle \in Procs
  BY <1>1, <1>2, <1>3, SpreadInit DEF Idle, Procs, Places, Modes
<1>5. Parts("mag") \in Nat
  BY CalAssumption DEF Parts
<1>6. Measured(Idle)
  BY <1>5, SpreadInit DEF Idle, Measured
<1> QED BY <1>4, <1>6

\* A step of one process that leaves the disk alone.
LEMMA OneProcess ==
    ASSUME ToolInv, NEW t \in Tools, NEW q \in Procs, Measured(q), Becomes(t, q)
    PROVE  proc' \in [Tools -> Procs] /\ \A u \in Tools : Measured(proc'[u])
<1>1. proc' = [proc EXCEPT ![t] = q]
  BY DEF Becomes
<1>2. \A u \in Tools : proc'[u] = IF u = t THEN q ELSE proc[u]
  BY <1>1 DEF ToolInv
<1>3. proc' \in [Tools -> Procs]
  BY <1>1 DEF ToolInv
<1>4. \A u \in Tools : Measured(proc'[u])
  BY <1>2, Zenon DEF ToolInv
<1> QED BY <1>3, <1>4

LEMMA ToTypes ==
    ASSUME ToolInv, NEW t \in Tools, NEW q \in Procs, Measured(q), To(t, q)
    PROVE  ToolInv'
<1>1. UNCHANGED <<ino, dir, may, runs, cuts>>
  BY DEF To, Disk
<1>2. DiskTypes'
  BY <1>1 DEF ToolInv, DiskTypes
<1> QED BY <1>2, OneProcess DEF To, ToolInv

LEMMA OnwardTypes ==
    ASSUME NEW p \in Procs, Measured(p)
    PROVE  /\ Exit(p, 0) \in Procs /\ Measured(Exit(p, 0))
           /\ Exit(p, 1) \in Procs /\ Measured(Exit(p, 1))
           /\ Fail(p) \in Procs /\ Measured(Fail(p))
           /\ Over(p) \in Procs /\ Measured(Over(p))
<1>1. ASSUME NEW c \in {0, 1} PROVE Exit(p, c) \in Procs /\ Measured(Exit(p, c))
  BY ZenonT(30) DEF Exit, Procs, Places, Measured
<1>2. [p EXCEPT !.bus = {}] \in Procs /\ Measured([p EXCEPT !.bus = {}])
  BY DEF Procs, Measured
<1>3. Fail(p) \in Procs /\ Measured(Fail(p))
  BY ZenonT(30) DEF Fail, Exit, Procs, Places, Measured
<1>4. Over(p) \in Procs /\ Measured(Over(p))
  BY ZenonT(30) DEF Over, Procs, Places, Measured
<1> QED BY <1>1, <1>3, <1>4

\* The steps of a run up to the write.
LEMMA RunTypes ==
    ASSUME ToolInv, NEW t \in Tools,
           \/ CalLoad(t) \/ StartImu(t) \/ Open(t) \/ Settle(t) \/ CtrlC(t)
           \/ MagSample(t) \/ MagFit(t) \/ NextPart(t) \/ Collect(t) \/ CollectCut(t)
           \/ GyroFit(t) \/ AccelFit(t) \/ Answer(t) \/ ReadCapture(t)
           \/ Characterize(t) \/ FitTemp(t) \/ FitRa(t) \/ Finish(t) \/ Kill(t)
    PROVE  ToolInv'
<1> DEFINE p == proc[t]
<1>1. p \in Procs /\ Measured(p)
  BY DEF ToolInv
<1> HIDE DEF p
<1>2. /\ p.pc \in Places /\ p.mode \in Modes /\ p.run \in 0 .. Runs /\ p.stop \in BOOLEAN
      /\ p.cal \in [Sections -> Int] /\ p.bus \in SUBSET {"imu", "mag"} /\ p.keep \in Keeps
      /\ p.done \in Nat /\ Spread(p.keep) /\ p.run \in Int /\ p.found \in Texts
  BY <1>1 DEF Procs, Measured
<1>3. Absent \in Int /\ Broken \in Int /\ Mixed \in Int
  BY DEF Absent, Broken, Mixed
<1> DEFINE Good(q) == q \in Procs /\ Measured(q)
<1>4. ASSUME NEW q, Good(q), To(t, q) PROVE ToolInv'
  BY <1>4, ToTypes
<1>5. Good(Exit(p, 0)) /\ Good(Exit(p, 1)) /\ Good(Fail(p)) /\ Good(Over(p))
  BY <1>1, OnwardTypes
<1>6. CASE CalLoad(t)
  <2>1. CalText.sec \in [Sections -> Int]
    BY TextType DEF ToolInv, Texts
  <2> DEFINE q(next) == [p EXCEPT !.cal = CalText.sec, !.pc = next]
  <2>2. ASSUME NEW next \in {"capture", "imu", "open"} PROVE Good(q(next))
    BY <1>1, <2>1 DEF Procs, Places, Measured
  <2>3. \/ To(t, Exit(p, 1)) \/ \E next \in {"capture", "imu", "open"} : To(t, q(next))
    BY <1>6 DEF CalLoad, p
  <2> QED BY <1>4, <1>5, <2>2, <2>3
<1>7. CASE StartImu(t)
  <2> DEFINE q(b) == [p EXCEPT !.bus = b, !.pc = "open"]
  <2>1. \E b \in {{}, {"imu"}} : To(t, q(b))
    BY <1>7 DEF StartImu, p
  <2>2. ASSUME NEW b \in {{}, {"imu"}} PROVE Good(q(b))
    BY <1>1 DEF Procs, Places, Measured
  <2> QED BY <1>4, <2>1, <2>2
<1>8. CASE Open(t)
  <2> DEFINE q(b, next) == [p EXCEPT !.bus = p.bus \cup b, !.pc = next]
  <2>1. \/ To(t, Fail(p))
        \/ \E b \in {{}, {"imu"}, {"mag"}}, next \in {"settle", "measure"} : To(t, q(b, next))
    BY <1>8 DEF Open, p
  <2>2. ASSUME NEW b \in {{}, {"imu"}, {"mag"}}, NEW next \in {"settle", "measure"}
        PROVE  Good(q(b, next))
    BY <1>1, <1>2 DEF Procs, Places, Measured
  <2> QED BY <1>4, <1>5, <2>1, <2>2
<1>9. CASE Settle(t)
  <2> DEFINE q == [p EXCEPT !.pc = "measure"]
  <2>1. To(t, Over(p)) \/ To(t, q)
    BY <1>9 DEF Settle, p
  <2>2. Good(q)
    BY <1>1 DEF Procs, Places, Measured
  <2> QED BY <1>4, <1>5, <2>1, <2>2
<1>10. CASE CtrlC(t)
  <2> DEFINE q == [p EXCEPT !.stop = TRUE]
  <2>1. To(t, q) /\ p.pc \in {"settle", "measure", "collect"}
    BY <1>10 DEF CtrlC, p
  <2>2. Good(q)
    BY <1>1, <2>1 DEF Procs, Places, Measured
  <2> QED BY <1>4, <2>1, <2>2
<1>11. CASE MagSample(t)
  <2> DEFINE q == [p EXCEPT !.keep = Keep(p.keep)]
  <2>1. To(t, q) /\ p.pc = "measure"
    BY <1>11 DEF MagSample, P, p
  <2>2. Keep(p.keep) \in Keeps /\ Spread(Keep(p.keep))
    BY <1>2, SpreadKept
  <2>3. Good(q)
    BY <1>1, <2>1, <2>2 DEF Procs, Places, Measured
  <2> QED BY <1>4, <2>1, <2>3
<1>12. CASE MagFit(t)
  <2> DEFINE r == [p EXCEPT !.bus = @ \ {"imu"}]
             q(v) == [r EXCEPT !.own = v, !.pc = "ask"]
  <2>1. /\ r.mode = "mag" /\ p.mode = "mag" /\ p.pc = "measure"
        /\ \E v \in MagFits(r) : To(t, IF v = Absent THEN Fail(r) ELSE q(v))
    BY <1>1, <1>12 DEF MagFit, P, p, Procs
  <2>2. Good(r) /\ r.keep = p.keep /\ r.run = p.run
    BY <1>1, <1>2 DEF Procs, Measured
  <2>3. Good(Fail(r))
    BY <2>2, OnwardTypes
  <2>4. ASSUME NEW v \in MagFits(r), v # Absent PROVE Good(q(v))
    <3>1. Len(p.keep.s) >= 5 /\ v \in Int
      BY <1>2, <1>3, <2>2, <2>4 DEF MagFits, Keeps
    <3> QED BY <2>1, <2>2, <3>1 DEF Procs, Places, Measured
  <2> QED BY <1>4, <2>1, <2>3, <2>4
<1>13. CASE NextPart(t)
  <2>1. /\ p.mode \in {"gyro", "accel"}
        /\ To(t, IF p.done < Parts(p.mode) /\ (p.mode = "accel" => ~p.stop)
                 THEN [p EXCEPT !.pc = "collect"]
                 ELSE [p EXCEPT !.pc = "fit"])
    BY <1>13 DEF NextPart, p
  <2>2. ASSUME p.done < Parts(p.mode) PROVE Good([p EXCEPT !.pc = "collect"])
    BY <1>1, <2>1, <2>2 DEF Procs, Places, Measured
  <2>3. ASSUME ~(p.done < Parts(p.mode) /\ (p.mode = "accel" => ~p.stop))
        PROVE  Good([p EXCEPT !.pc = "fit"])
    <3>1. \/ p.mode = "accel" /\ (p.stop \/ p.done = Faces)
          \/ p.mode = "gyro" /\ p.done = 2
      BY <1>1, <1>2, <2>1, <2>3, CalAssumption DEF Measured, Parts
    <3> QED BY <1>1, <3>1 DEF Procs, Places, Measured
  <2> QED BY <1>4, <2>1, <2>2, <2>3
<1>14. CASE Collect(t) \/ CollectCut(t)
  <2>1. /\ p.pc = "collect"
        /\ \/ To(t, Fail(p))
           \/ \E halt, rough \in BOOLEAN :
                To(t, [p EXCEPT !.done = @ + 1, !.pc = "measure", !.stop = halt, !.rough = rough])
    <3>1. CASE CollectCut(t)
      <4>1. To(t, [p EXCEPT !.done = @ + 1, !.stop = TRUE, !.pc = "measure"])
        BY <3>1 DEF CollectCut, p
      <4>2. [p EXCEPT !.done = @ + 1, !.stop = TRUE, !.pc = "measure"]
              = [p EXCEPT !.done = @ + 1, !.pc = "measure", !.stop = TRUE, !.rough = p.rough]
        BY <1>1 DEF Procs
      <4> QED BY <1>1, <3>1, <4>1, <4>2 DEF CollectCut, P, p, Procs
    <3>2. CASE Collect(t)
      <4>1. [p EXCEPT !.done = @ + 1, !.pc = "measure"]
              = [p EXCEPT !.done = @ + 1, !.pc = "measure", !.stop = p.stop, !.rough = p.rough]
        BY <1>1 DEF Procs
      <4>2. [p EXCEPT !.done = @ + 1, !.rough = TRUE, !.pc = "measure"]
              = [p EXCEPT !.done = @ + 1, !.pc = "measure", !.stop = p.stop, !.rough = TRUE]
        BY <1>1 DEF Procs
      <4>3. p.stop \in BOOLEAN /\ p.rough \in BOOLEAN
        BY <1>1 DEF Procs
      <4>4. /\ p.pc = "collect"
            /\ \/ To(t, [p EXCEPT !.done = @ + 1, !.pc = "measure"])
               \/ To(t, Fail(p))
               \/ To(t, [p EXCEPT !.done = @ + 1, !.rough = TRUE, !.pc = "measure"])
        BY <3>2 DEF Collect, P, p
      <4> QED BY <4>1, <4>2, <4>3, <4>4
    <3> QED BY <1>14, <3>1, <3>2
  <2>2. ASSUME NEW halt \in BOOLEAN, NEW rough \in BOOLEAN
        PROVE  Good([p EXCEPT !.done = @ + 1, !.pc = "measure", !.stop = halt, !.rough = rough])
    <3>1. p.done + 1 \in Nat /\ p.done + 1 <= Parts(p.mode)
      <4>1. p.done < Parts(p.mode) /\ p.done \in Nat
        BY <1>1, <1>2, <2>1 DEF Measured
      <4>2. Parts(p.mode) \in Nat
        BY CalAssumption DEF Parts
      <4> QED BY <4>1, <4>2
    <3> QED BY <1>1, <3>1 DEF Procs, Places, Measured
  <2> QED BY <1>4, <1>5, <2>1, <2>2
<1>15. CASE GyroFit(t)
  <2> DEFINE q(v) == [p EXCEPT !.own = v, !.pc = "ask"]
  <2>1. p.pc = "fit" /\ p.mode = "gyro"
    BY <1>15 DEF GyroFit, P, p
  <2>2. \/ To(t, Fail(p))
        \/ ~p.rough /\ \E v \in {p.run, Broken} : To(t, q(v))
    <3>1. IF p.rough THEN To(t, Fail(p)) ELSE \E v \in {p.run, Broken} : To(t, q(v))
      BY <1>15, Zenon DEF GyroFit, p
    <3> HIDE DEF q
    <3>2. CASE p.rough
      BY <3>1, <3>2, Zenon
    <3>3. CASE ~p.rough
      BY <3>1, <3>3
    <3> QED BY <3>2, <3>3
  <2>3. ASSUME NEW v \in {p.run, Broken}, ~p.rough PROVE Good(q(v))
    BY <1>1, <1>2, <1>3, <2>1, <2>3 DEF Procs, Places, Measured
  <2> QED BY <1>4, <1>5, <2>2, <2>3
<1>16. CASE AccelFit(t)
  <2> DEFINE q(v) == [p EXCEPT !.own = v, !.bus = {}, !.pc = "ask"]
  <2>1. p.pc = "fit" /\ p.mode = "accel"
    BY <1>16 DEF AccelFit, P, p
  <2>2. \/ To(t, Over(p)) \/ To(t, Fail(p))
        \/ ~p.stop /\ \E v \in {p.run, Broken} : To(t, q(v))
    BY <1>16 DEF AccelFit, p
  <2>3. ASSUME NEW v \in {p.run, Broken}, ~p.stop PROVE Good(q(v))
    BY <1>1, <1>2, <1>3, <2>1, <2>3 DEF Procs, Places, Measured
  <2> QED BY <1>4, <1>5, <2>2, <2>3
<1>17. CASE Answer(t)
  <2> DEFINE r == [p EXCEPT !.said = TRUE, !.cal[p.mode] = p.own]
  <2>1. To(t, Over(r)) \/ To(t, Over(p))
    BY <1>17 DEF Answer, p
  <2>2. r.cal = [p.cal EXCEPT ![p.mode] = p.own] /\ r.cal \in [Sections -> Int]
    BY <1>1 DEF Procs
  <2>3. Good(r)
    BY <1>1, <2>2 DEF Procs, Measured
  <2>4. Good(Over(r))
    BY <2>3, OnwardTypes
  <2> QED BY <1>4, <1>5, <2>1, <2>4
<1>18. CASE ReadCapture(t)
  <2> DEFINE q == [p EXCEPT !.pc = "analyse"]
  <2>1. To(t, Fail(p)) \/ To(t, q)
    BY <1>18 DEF ReadCapture, p
  <2>2. Good(q)
    BY <1>1 DEF Procs, Places, Measured
  <2> QED BY <1>4, <1>5, <2>1, <2>2
<1>19. CASE Characterize(t)
  <2> DEFINE noise(v) == [p EXCEPT !.cal["noise"] = v]
             q(v) == [noise(v) EXCEPT !.own = v, !.said = TRUE]
  <2>1. \/ To(t, Fail(p)) \/ To(t, Fail(noise(Mixed)))
        \/ \E v \in {p.run, Broken} : To(t, Over(q(v)))
    BY <1>19 DEF Characterize, p
  <2>2. ASSUME NEW v \in Int PROVE Good(noise(v)) /\ Good(q(v))
    <3>1. noise(v).cal = [p.cal EXCEPT !["noise"] = v] /\ noise(v).cal \in [Sections -> Int]
      BY <1>1 DEF Procs
    <3>2. Good(noise(v))
      BY <1>1, <3>1 DEF Procs, Measured
    <3> HIDE DEF noise
    <3>3. Good(q(v))
      BY <3>2 DEF Procs, Measured
    <3> QED BY <3>2, <3>3
  <2>3. Good(Fail(noise(Mixed))) /\ \A v \in {p.run, Broken} : Good(Over(q(v)))
    BY <1>2, <1>3, <2>2, OnwardTypes
  <2> HIDE DEF noise, q
  <2> QED BY <1>4, <1>5, <2>1, <2>3
<1>20. CASE FitTemp(t)
  <2> DEFINE q(v) == [p EXCEPT !.cal["gyro_temp"] = v, !.own = v, !.said = TRUE]
  <2>1. \/ To(t, Fail(p)) \/ \E v \in {p.run, Broken} : To(t, Over(q(v)))
    BY <1>20 DEF FitTemp, p
  <2>2. ASSUME NEW v \in Int PROVE Good(q(v))
    <3>1. q(v).cal = [p.cal EXCEPT !["gyro_temp"] = v] /\ q(v).cal \in [Sections -> Int]
      BY <1>1 DEF Procs
    <3> QED BY <1>1, <3>1 DEF Procs, Measured
  <2>3. \A v \in {p.run, Broken} : Good(Over(q(v)))
    BY <1>2, <1>3, <2>2, OnwardTypes
  <2> HIDE DEF q
  <2> QED BY <1>4, <1>5, <2>1, <2>3
<1>21. CASE FitRa(t)
  BY <1>4, <1>5, <1>21 DEF FitRa, p
<1>22. CASE Finish(t)
  <2> DEFINE q == [p EXCEPT !.pc = "write"]
  <2>1. To(t, q) \/ To(t, Exit(p, 0))
    BY <1>22 DEF Finish, p
  <2>2. Good(q)
    BY <1>1 DEF Procs, Places, Measured
  <2> QED BY <1>4, <1>5, <2>1, <2>2
<1>23. CASE Kill(t)
  BY <1>4, <1>23, IdleType DEF Kill
<1> HIDE DEF Good
<1> QED BY <1>6, <1>7, <1>8, <1>9, <1>10, <1>11, <1>12, <1>13, <1>14, <1>15, <1>16, <1>17,
           <1>18, <1>19, <1>20, <1>21, <1>22, <1>23

\* The steps that write the file, a new run, and the power cut.
LEMMA WriteTypes ==
    ASSUME ToolInv, NEW t \in Tools,
           \/ Create(t) \/ Flush(t) \/ Sync(t) \/ Rename(t) \/ SyncDir(t)
           \/ \E m \in Modes : StartRun(t, m)
    PROVE  ToolInv'
<1> DEFINE p == proc[t]
<1>1. p \in Procs /\ Measured(p)
  BY DEF ToolInv
<1> HIDE DEF p
<1>2. /\ p.run \in 0 .. Runs /\ p.cal \in [Sections -> Int] /\ p.fd \in 0 .. Runs + 1
  BY <1>1 DEF Procs
<1>3. /\ ino \in [Inodes -> [text : Texts, hard : Texts]]
      /\ dir \in [cal : 0 .. Runs + 1, tmp : 0 .. Runs + 1]
      /\ may \subseteq 0 .. Runs + 1 /\ runs \in 0 .. Runs /\ Runs \in Nat
      /\ NoInode = Runs + 1 /\ Inodes = 0 .. Runs /\ cuts \in Nat
  BY CalAssumption DEF ToolInv, DiskTypes, NoInode, Inodes
<1>4. Torn \in Texts /\ Whole(p.cal) \in Texts
  BY <1>2 DEF Torn, Whole, Texts, Empty, Absent
<1> DEFINE Good(q) == q \in Procs /\ Measured(q)
<1>5. ASSUME NEW q, Good(q), Becomes(t, q), DiskTypes' PROVE ToolInv'
  BY <1>5, OneProcess DEF ToolInv
<1>6. Good(Exit(p, 0)) /\ Good(Exit(p, 1))
  BY <1>1, OnwardTypes
<1>7. CASE Create(t)
  <2> DEFINE i == IF dir.tmp = NoInode THEN p.run ELSE dir.tmp
             q == [p EXCEPT !.fd = i, !.pc = "flush"]
  <2>1. i \in Inodes /\ i \in 0 .. Runs + 1
    BY <1>2, <1>3
  <2> HIDE DEF i
  <2>2. CASE To(t, Exit(p, 1))
    BY <1>6, <2>2, ToTypes
  <2>3. CASE /\ ino' = [ino EXCEPT ![i] = [text |-> Torn, hard |-> Torn]]
             /\ dir' = [dir EXCEPT !.tmp = i]
             /\ Becomes(t, q)
             /\ UNCHANGED <<may, runs, cuts>>
    <3>1. DiskTypes'
      BY <1>3, <1>4, <2>1, <2>3 DEF DiskTypes
    <3>2. Good(q)
      BY <1>1, <2>1 DEF Procs, Places, Measured
    <3> QED BY <1>5, <2>3, <3>1, <3>2
  <2> QED BY <1>7, <2>2, <2>3 DEF Create, p, i
<1>8. CASE Flush(t)
  <2> PICK ok \in BOOLEAN :
           /\ ino' = [ino EXCEPT ![p.fd].text = IF ok THEN Whole(p.cal) ELSE Torn]
           /\ Becomes(t, [p EXCEPT !.ok = ok, !.pc = "sync"])
           /\ UNCHANGED <<dir, may, runs, cuts>>
    BY <1>8 DEF Flush, p
  <2>1. DiskTypes'
    <3>1. ino' \in [Inodes -> [text : Texts, hard : Texts]]
      BY <1>3, <1>4
    <3> QED BY <1>3, <3>1 DEF DiskTypes
  <2>2. Good([p EXCEPT !.ok = ok, !.pc = "sync"])
    BY <1>1 DEF Procs, Places, Measured
  <2> QED BY <1>5, <2>1, <2>2
<1>9. CASE Sync(t)
  <2> DEFINE q(ok) == [p EXCEPT !.ok = ok, !.pc = "rename"]
  <2> PICK synced \in BOOLEAN, closed \in BOOLEAN :
           /\ ino' = IF p.ok /\ synced THEN [ino EXCEPT ![p.fd].hard = ino[p.fd].text] ELSE ino
           /\ Becomes(t, q(p.ok /\ synced /\ closed))
           /\ UNCHANGED <<dir, may, runs, cuts>>
    BY <1>9 DEF Sync, p
  <2>1. DiskTypes'
    <3>1. CASE p.fd \in Inodes
      BY <1>3, <3>1 DEF DiskTypes
    <3>2. CASE p.fd \notin Inodes
      <4>1. ino' = ino
        BY <1>3, <3>2
      <4> QED BY <1>3, <4>1 DEF DiskTypes
    <3> QED BY <3>1, <3>2
  <2>2. (p.ok /\ synced /\ closed) \in BOOLEAN
    OBVIOUS
  <2>3. ASSUME NEW ok \in BOOLEAN PROVE Good(q(ok))
    BY <1>1 DEF Procs, Places, Measured
  <2> HIDE DEF q
  <2> QED BY <1>5, <2>1, <2>2, <2>3
<1>10. CASE Rename(t)
  <2>1. DiskTypes'
    BY <1>3, <1>10 DEF DiskTypes, Rename
  <2>2. Becomes(t, [p EXCEPT !.pc = "dirsync"]) \/ Becomes(t, Exit(p, 1))
    BY <1>10 DEF Rename, p
  <2>3. Good([p EXCEPT !.pc = "dirsync"])
    BY <1>1 DEF Procs, Places, Measured
  <2> QED BY <1>5, <1>6, <2>1, <2>2, <2>3
<1>11. CASE SyncDir(t)
  <2> DEFINE r == [p EXCEPT !.saved = TRUE]
  <2>1. DiskTypes'
    BY <1>3, <1>11 DEF DiskTypes, SyncDir
  <2>2. Becomes(t, Exit(r, 0))
    BY <1>11 DEF SyncDir, p
  <2>3. Good(r)
    BY <1>1, ZenonT(30) DEF Procs, Places, Measured
  <2>4. Good(Exit(r, 0))
    BY <2>3, OnwardTypes
  <2> QED BY <1>5, <2>1, <2>2, <2>4
<1>12. ASSUME NEW m \in Modes, StartRun(t, m) PROVE ToolInv'
  <2> DEFINE q(settle) == [Idle EXCEPT !.mode = m, !.run = runs + 1, !.settle = settle,
                                       !.found = CalText, !.pc = "load"]
  <2>1. /\ runs < Runs /\ runs' = runs + 1 /\ UNCHANGED <<ino, dir, may, cuts>>
        /\ \E settle \in BOOLEAN : Becomes(t, q(settle)) \/ Becomes(t, Exit(q(settle), 1))
    BY <1>12 DEF StartRun, Disk
  <2>2. DiskTypes'
    BY <1>3, <2>1 DEF DiskTypes
  <2>3. runs + 1 \in 0 .. Runs /\ CalText \in Texts /\ Parts(m) \in Nat
    BY <1>3, <2>1, TextType, CalAssumption DEF Parts, ToolInv
  <2>4. ASSUME NEW settle \in BOOLEAN PROVE Good(q(settle))
    <3>1. q(settle) \in Procs
      BY <2>3, IdleType DEF Procs, Places
    <3>2. /\ q(settle).keep = KeepInit /\ q(settle).done = 0 /\ q(settle).pc = "load"
          /\ q(settle).mode = m
      BY DEF Idle
    <3> QED BY <2>3, <3>1, <3>2, SpreadInit DEF Measured
  <2>5. \A settle \in BOOLEAN : Good(Exit(q(settle), 1))
    BY <2>4, OnwardTypes
  <2> HIDE DEF q
  <2> QED BY <1>5, <2>1, <2>2, <2>4, <2>5
<1> HIDE DEF Good
<1> QED BY <1>7, <1>8, <1>9, <1>10, <1>11, <1>12

LEMMA ToolInit == CalInit => ToolInv
<1> SUFFICES ASSUME CalInit PROVE ToolInv
  OBVIOUS
<1>1. Absent \in Int /\ Broken \in Int /\ Earlier \in Int /\ Runs \in Nat
  BY CalAssumption DEF Absent, Broken, Earlier
<1>2. Empty \in [Sections -> Int] /\ [s \in Sections |-> Earlier] \in [Sections -> Int]
  BY <1>1 DEF Empty
<1>3. [Empty EXCEPT !["gyro"] = Broken] \in [Sections -> Int]
  BY <1>1, <1>2
<1>4. \A sec \in [Sections -> Int] : Whole(sec) \in Texts
  BY DEF Whole, Texts
<1>5. Torn \in Texts
  BY <1>2 DEF Torn, Texts
<1>6. PICK text \in Texts : ino = [i \in Inodes |-> [text |-> text, hard |-> text]]
  <2>1. \E text \in {Whole(Empty), Whole([s \in Sections |-> Earlier]), Torn,
                     Whole([Empty EXCEPT !["gyro"] = Broken])} :
          ino = [i \in Inodes |-> [text |-> text, hard |-> text]]
    BY DEF CalInit
  <2> QED BY <1>2, <1>3, <1>4, <1>5, <2>1
<1>7. /\ \E c \in {0, NoInode} : dir = [cal |-> c, tmp |-> NoInode] /\ may = {c}
      /\ proc = [t \in Tools |-> Idle] /\ runs = 0 /\ cuts = 0
  BY DEF CalInit
<1>8. DiskTypes
  BY <1>1, <1>6, <1>7 DEF DiskTypes, NoInode
<1> QED BY <1>7, <1>8, IdleType DEF ToolInv

LEMMA ToolNext == ToolInv /\ [CalNext]_calVars => ToolInv'
<1> SUFFICES ASSUME ToolInv, [CalNext]_calVars PROVE ToolInv'
  OBVIOUS
<1>1. CASE UNCHANGED calVars
  BY <1>1 DEF calVars, ToolInv, DiskTypes
<1>2. CASE PowerCut
  <2>1. DiskTypes'
    <3>1. ino' \in [Inodes -> [text : Texts, hard : Texts]]
      BY <1>2 DEF PowerCut, ToolInv, DiskTypes
    <3>2. /\ dir' \in [cal : 0 .. Runs + 1, tmp : 0 .. Runs + 1]
          /\ may' \subseteq 0 .. Runs + 1
      BY <1>2, CalAssumption DEF PowerCut, ToolInv, DiskTypes, NoInode
    <3> QED BY <1>2, <3>1, <3>2 DEF PowerCut, ToolInv, DiskTypes
  <2>2. proc' = [t \in Tools |-> Idle]
    BY <1>2 DEF PowerCut
  <2> QED BY <2>1, <2>2, IdleType DEF ToolInv
<1>3. ASSUME NEW t \in Tools,
             \/ \E m \in Modes : StartRun(t, m)
             \/ CalLoad(t) \/ StartImu(t) \/ Open(t) \/ Settle(t) \/ CtrlC(t)
             \/ MagSample(t) \/ MagFit(t) \/ NextPart(t) \/ Collect(t) \/ CollectCut(t)
             \/ GyroFit(t) \/ AccelFit(t) \/ Answer(t) \/ ReadCapture(t)
             \/ Characterize(t) \/ FitTemp(t) \/ FitRa(t)
             \/ Finish(t) \/ Create(t) \/ Flush(t) \/ Sync(t) \/ Rename(t) \/ SyncDir(t)
             \/ Kill(t)
      PROVE  ToolInv'
  BY <1>3, RunTypes, WriteTypes, Zenon
<1> QED BY <1>1, <1>2, <1>3, Zenon DEF CalNext

LEMMA ToolAlways == CalSpec => []ToolInv
<1> QED BY ToolInit, ToolNext, PTL DEF CalSpec

\* cal_main.c do_mag, do_gyro, do_accel; cal_math.c cal_mag_keep: for any number of
\* runs and samples, even of several processes at a time, the operator is shown a
\* fit only of what was measured, and of samples spread over the whole swing.
THEOREM FitEvidenceHolds == CalSpec => []FitEvidence
<1>1. ToolInv => FitEvidence
  BY DEF ToolInv, Measured, FitEvidence, FitsWhatWasMeasured, SwingSpread, P
<1> QED BY <1>1, ToolAlways, PTL

(* --------------------------- the file it keeps --------------------------- *)

\* With one run at a time, as imud-cal has to be used: cal.json.tmp is one name.
Single == \A t, u \in Tools : Busy(t) /\ Busy(u) => t = u

\* The name of cal.json is one the disk may hold and never that of the file being
\* written; no inode is used before its run; and while cal.json loads, every inode
\* the power cut may leave under its name does.
DiskInv ==
    /\ dir.cal \in may
    /\ dir.tmp # NoInode => dir.tmp \notin may
    /\ \A c \in may \cup {dir.tmp} : c # NoInode => c <= runs
    /\ Loads(CalText) => \A c \in may : c # NoInode => Loads(ino[c].hard)

\* What the run writes: what it found, with the confirmed measurement in its place.
Confirmed(p) ==
    IF p.said THEN [p.found.sec EXCEPT ![SectionOf(p.mode)] = p.own] ELSE p.found.sec

Asking == {"imu", "open", "settle", "measure", "collect", "fit", "ask", "capture", "analyse"}

\* What a run knows of the file at each place of its own.
Knows(p) ==
    p.pc \notin {"off", "done"} =>
      /\ p.run = runs /\ runs > 0 /\ ~p.saved
      /\ p.pc # "dirsync" => p.found = CalText
      /\ p.pc # "load" => Loads(p.found) /\ p.cal = Confirmed(p)
      /\ p.pc \in Asking \cup {"load"} => ~p.said
      /\ p.pc \in Asking \cup {"load", "end", "write"} => runs \notin may
      /\ p.pc \in {"flush", "sync", "rename"} =>
           p.fd = dir.tmp /\ dir.tmp # NoInode /\ Applicable(p.cal)
      /\ p.pc \in {"sync", "rename"} /\ p.ok => ino[p.fd].text = Whole(p.cal)
      /\ p.pc = "rename" /\ p.ok => ino[p.fd].hard = Whole(p.cal)
      /\ p.pc = "dirsync" => CalText = Whole(p.cal)

FileInv == Single /\ DiskInv /\ \A t \in Tools : Knows(proc[t])

LEMMA ToKeeps ==
    ASSUME ToolInv, FileInv, NEW t \in Tools, NEW q \in Procs, Knows(q), To(t, q),
           Busy(t) \/ q.pc \in {"off", "done"}
    PROVE  FileInv'
<1>1. proc' = [proc EXCEPT ![t] = q] /\ UNCHANGED <<ino, dir, may, runs>>
  BY DEF To, Disk, Becomes
<1>2. proc'[t] = q /\ \A u \in Tools \ {t} : proc'[u] = proc[u]
  BY <1>1 DEF ToolInv
<1>3. Single'
  <2>1. \A u \in Tools : Busy(u)' => Busy(u)
    BY <1>2 DEF Busy
  <2> QED BY <2>1 DEF FileInv, Single
<1>4. CalText' = CalText
  BY <1>1 DEF CalText
<1>5. DiskInv'
  BY <1>1, <1>4 DEF FileInv, DiskInv
<1>6. \A u \in Tools : Knows(proc'[u])
  BY <1>2 DEF FileInv
<1>7. ASSUME NEW u \in Tools PROVE Knows(proc[u])'
  BY <1>1, <1>4, <1>6 DEF Knows
<1> QED BY <1>3, <1>5, <1>7 DEF FileInv

\* What gives up, or ends, knows what it has to.
LEMMA OnwardKnows ==
    ASSUME NEW p \in Procs
    PROVE  /\ Knows(Exit(p, 0)) /\ Knows(Exit(p, 1)) /\ Knows(Fail(p))
           /\ Exit(p, 0).pc = "done" /\ Exit(p, 1).pc = "done" /\ Fail(p).pc = "done"
BY DEF Exit, Fail, Procs, Knows

LEMMA ExitType == ASSUME NEW p \in Procs, NEW c \in {0, 1} PROVE Exit(p, c) \in Procs
BY DEF Exit, Procs, Places

LEMMA OverKnows ==
    ASSUME NEW p \in Procs, Knows([p EXCEPT !.pc = "end"]) PROVE Knows(Over(p))
BY DEF Over, Procs, Knows, Confirmed, Asking

LEMMA RunKnows ==
    ASSUME ToolInv, FileInv, NEW t \in Tools,
           \/ CalLoad(t) \/ StartImu(t) \/ Open(t) \/ Settle(t) \/ CtrlC(t)
           \/ MagSample(t) \/ MagFit(t) \/ NextPart(t) \/ Collect(t) \/ CollectCut(t)
           \/ GyroFit(t) \/ AccelFit(t) \/ Answer(t) \/ ReadCapture(t)
           \/ Characterize(t) \/ FitTemp(t) \/ FitRa(t) \/ Finish(t) \/ Kill(t)
    PROVE  FileInv'
<1> DEFINE p == proc[t]
<1>1. p \in Procs /\ Measured(p) /\ Knows(p)
  BY DEF ToolInv, FileInv
<1>2. ToolInv'
  BY RunTypes
<1>3. ASSUME NEW q, To(t, q) PROVE q \in Procs
  BY <1>2, <1>3 DEF To, Becomes, ToolInv
<1>4. ASSUME NEW q, To(t, q), Knows(q), Busy(t) PROVE FileInv'
  BY <1>3, <1>4, ToKeeps
<1> HIDE DEF p
<1>5. ASSUME NEW r, r \in Procs, To(t, Exit(r, 0)) \/ To(t, Exit(r, 1)) \/ To(t, Fail(r)), Busy(t)
      PROVE  FileInv'
  BY <1>4, <1>5, OnwardKnows
<1>6. ASSUME NEW r, r \in Procs, Knows([r EXCEPT !.pc = "end"]), To(t, Over(r)), Busy(t)
      PROVE  FileInv'
  BY <1>4, <1>6, OverKnows
\* A step among the places of the measurement, whatever it measures.
<1>7. ASSUME NEW q, To(t, q), q.pc \in Asking, p.pc \in Asking,
             q.run = p.run, q.saved = p.saved, q.found = p.found, q.cal = p.cal,
             q.said = p.said
      PROVE  FileInv'
  <2>1. Busy(t)
    BY <1>7 DEF Busy, p, Asking
  <2>2. Knows(q)
    BY <1>1, <1>7 DEF Knows, Asking, Confirmed
  <2> QED BY <1>4, <1>7, <2>1, <2>2
\* The end of a mode that has nothing to write.
<1>8. ASSUME p.pc \in Asking PROVE Busy(t) /\ Knows([p EXCEPT !.pc = "end"])
  BY <1>1, <1>8 DEF Knows, Asking, Confirmed, Busy, p, Procs
<1>9. CASE CalLoad(t)
  <2>1. p.pc = "load" /\ Busy(t)
    BY <1>9 DEF CalLoad, P, p, Busy
  <2> DEFINE q(next) == [p EXCEPT !.cal = CalText.sec, !.pc = next]
  <2>2. \/ To(t, Exit(p, 1))
        \/ Loads(CalText) /\ \E next \in {"capture", "imu", "open"} : To(t, q(next))
    BY <1>9 DEF CalLoad, p
  <2>3. ASSUME NEW next \in {"capture", "imu", "open"}, Loads(CalText) PROVE Knows(q(next))
    BY <1>1, <2>1, <2>3 DEF Knows, Asking, Confirmed, Procs
  <2> HIDE DEF q
  <2> QED BY <1>1, <1>4, <1>5, <2>1, <2>2, <2>3
<1>10. CASE StartImu(t)
  <2> PICK b \in {{}, {"imu"}} : To(t, [p EXCEPT !.bus = b, !.pc = "open"])
    BY <1>10 DEF StartImu, p
  <2>1. p.pc = "imu"
    BY <1>10 DEF StartImu, P, p
  <2> QED BY <1>1, <1>7, <2>1 DEF Asking, Procs
<1>11. CASE Open(t)
  <2> DEFINE q(b, next) == [p EXCEPT !.bus = p.bus \cup b, !.pc = next]
  <2>1. p.pc = "open" /\ p.pc \in Asking
    BY <1>11 DEF Open, P, p, Asking
  <2>2. CASE To(t, Fail(p))
    BY <1>1, <1>5, <1>8, <2>1, <2>2
  <2>3. ASSUME NEW b, NEW next \in {"settle", "measure"}, To(t, q(b, next)) PROVE FileInv'
    <3>1. /\ q(b, next).pc = next /\ q(b, next).run = p.run /\ q(b, next).saved = p.saved
          /\ q(b, next).found = p.found /\ q(b, next).cal = p.cal /\ q(b, next).said = p.said
      BY <1>1 DEF Procs
    <3> QED BY <1>7, <2>1, <2>3, <3>1 DEF Asking
  <2>4. \/ To(t, Fail(p))
        \/ \E b \in {{}, {"imu"}, {"mag"}}, next \in {"settle", "measure"} : To(t, q(b, next))
    BY <1>11 DEF Open, p
  <2> QED BY <2>2, <2>3, <2>4
<1>12. CASE Settle(t)
  <2>1. p.pc \in Asking /\ p.pc = "settle"
    BY <1>12 DEF Settle, P, p, Asking
  <2>2. CASE To(t, Over(p))
    BY <1>1, <1>6, <1>8, <2>1, <2>2
  <2>3. CASE To(t, [p EXCEPT !.pc = "measure"])
    BY <1>1, <1>7, <2>1, <2>3 DEF Asking, Procs
  <2> QED BY <1>12, <2>2, <2>3 DEF Settle, p
<1>13. CASE CtrlC(t)
  BY <1>1, <1>7, <1>13 DEF CtrlC, p, Asking, Procs
<1>14. CASE MagSample(t)
  BY <1>1, <1>7, <1>14 DEF MagSample, P, p, Asking, Procs
<1>15. CASE MagFit(t)
  <2> DEFINE r == [p EXCEPT !.bus = @ \ {"imu"}]
             q(v) == [r EXCEPT !.own = v, !.pc = "ask"]
  <2>1. /\ p.pc = "measure" /\ p.pc \in Asking
        /\ \E v \in MagFits(r) : To(t, IF v = Absent THEN Fail(r) ELSE q(v))
    BY <1>15 DEF MagFit, P, p, Asking
  <2>2. r \in Procs
    BY <1>1 DEF Procs
  <2>3. CASE To(t, Fail(r))
    BY <1>5, <1>8, <2>1, <2>2, <2>3
  <2>4. ASSUME NEW v, To(t, q(v)) PROVE FileInv'
    <3>1. /\ q(v).pc = "ask" /\ q(v).run = p.run /\ q(v).saved = p.saved
          /\ q(v).found = p.found /\ q(v).cal = p.cal /\ q(v).said = p.said
      BY <1>1 DEF Procs
    <3> QED BY <1>7, <2>1, <2>4, <3>1 DEF Asking
  <2> HIDE DEF q, r
  <2> QED BY <2>1, <2>3, <2>4
<1>16. CASE NextPart(t)
  <2>1. p.pc = "measure"
    BY <1>16 DEF NextPart, P, p
  <2>2. To(t, [p EXCEPT !.pc = "collect"]) \/ To(t, [p EXCEPT !.pc = "fit"])
    BY <1>16 DEF NextPart, p
  <2> QED BY <1>1, <1>7, <2>1, <2>2 DEF Asking, Procs
<1>17. CASE Collect(t) \/ CollectCut(t)
  <2>1. p.pc = "collect" /\ p.pc \in Asking
    BY <1>17 DEF Collect, CollectCut, P, p, Asking
  <2>2. CASE To(t, Fail(p))
    BY <1>1, <1>5, <1>8, <2>1, <2>2
  <2>3. CASE To(t, [p EXCEPT !.done = @ + 1, !.pc = "measure"])
    BY <1>1, <1>7, <2>1, <2>3 DEF Asking, Procs
  <2>4. CASE To(t, [p EXCEPT !.done = @ + 1, !.rough = TRUE, !.pc = "measure"])
    BY <1>1, <1>7, <2>1, <2>4 DEF Asking, Procs
  <2>5. CASE To(t, [p EXCEPT !.done = @ + 1, !.stop = TRUE, !.pc = "measure"])
    BY <1>1, <1>7, <2>1, <2>5 DEF Asking, Procs
  <2> QED BY <1>17, <2>2, <2>3, <2>4, <2>5, Zenon DEF Collect, CollectCut, p
<1>18. CASE GyroFit(t)
  <2>1. p.pc = "fit" /\ p.pc \in Asking
    BY <1>18 DEF GyroFit, P, p, Asking
  <2>2. CASE To(t, Fail(p))
    BY <1>1, <1>5, <1>8, <2>1, <2>2
  <2>3. ASSUME NEW v, To(t, [p EXCEPT !.own = v, !.pc = "ask"]) PROVE FileInv'
    BY <1>1, <1>7, <2>1, <2>3 DEF Asking, Procs
  <2> QED BY <1>18, <2>2, <2>3, Zenon DEF GyroFit, p
<1>19. CASE AccelFit(t)
  <2>1. p.pc = "fit" /\ p.pc \in Asking
    BY <1>19 DEF AccelFit, P, p, Asking
  <2>2. CASE To(t, Fail(p))
    BY <1>1, <1>5, <1>8, <2>1, <2>2
  <2>3. CASE To(t, Over(p))
    BY <1>1, <1>6, <1>8, <2>1, <2>3
  <2>4. ASSUME NEW v, To(t, [p EXCEPT !.own = v, !.bus = {}, !.pc = "ask"]) PROVE FileInv'
    BY <1>1, <1>7, <2>1, <2>4 DEF Asking, Procs
  <2>5. \/ To(t, Fail(p)) \/ To(t, Over(p))
        \/ \E v \in {p.run, Broken} : To(t, [p EXCEPT !.own = v, !.bus = {}, !.pc = "ask"])
    BY <1>19 DEF AccelFit, p
  <2> QED BY <2>2, <2>3, <2>4, <2>5
<1>20. CASE Answer(t)
  <2> DEFINE r == [p EXCEPT !.said = TRUE, !.cal[p.mode] = p.own]
  <2>1. p.pc = "ask" /\ p.pc \in Asking
    BY <1>20 DEF Answer, P, p, Asking
  <2>2. CASE To(t, Over(p))
    BY <1>1, <1>6, <1>8, <2>1, <2>2
  <2>3. CASE To(t, Over(r))
    <3>1. SectionOf(p.mode) = p.mode
      BY <1>1, <2>1 DEF Measured, SectionOf
    <3>2. /\ r.cal = [p.cal EXCEPT ![p.mode] = p.own] /\ r.said /\ r.own = p.own
          /\ r.mode = p.mode /\ r.found = p.found /\ r.run = p.run /\ r.saved = p.saved
          /\ [r EXCEPT !.pc = "end"].pc = "end" /\ [r EXCEPT !.pc = "end"].cal = r.cal
          /\ [r EXCEPT !.pc = "end"].said = r.said /\ [r EXCEPT !.pc = "end"].own = r.own
          /\ [r EXCEPT !.pc = "end"].mode = r.mode /\ [r EXCEPT !.pc = "end"].found = r.found
          /\ [r EXCEPT !.pc = "end"].run = r.run /\ [r EXCEPT !.pc = "end"].saved = r.saved
      BY <1>1 DEF Procs
    <3>3. r \in Procs
      BY <1>1 DEF Procs
    <3> HIDE DEF r
    <3>4. p.cal = p.found.sec /\ Loads(p.found) /\ p.run = runs /\ runs > 0 /\ ~p.saved
          /\ p.found = CalText /\ runs \notin may
      BY <1>1, <2>1 DEF Knows, Asking, Confirmed
    <3>5. Knows([r EXCEPT !.pc = "end"])
      BY <3>1, <3>2, <3>4 DEF Knows, Asking, Confirmed
    <3> QED BY <1>6, <1>8, <2>1, <2>3, <3>3, <3>5
  <2> QED BY <1>20, <2>2, <2>3 DEF Answer, p
<1>21. CASE ReadCapture(t)
  <2>1. p.pc = "capture" /\ p.pc \in Asking
    BY <1>21 DEF ReadCapture, P, p, Asking
  <2>2. CASE To(t, Fail(p))
    BY <1>1, <1>5, <1>8, <2>1, <2>2
  <2>3. CASE To(t, [p EXCEPT !.pc = "analyse"])
    BY <1>1, <1>7, <2>1, <2>3 DEF Asking, Procs
  <2> QED BY <1>21, <2>2, <2>3 DEF ReadCapture, p
\* A section measured from a capture goes into the calibration itself.
<1>22. ASSUME NEW s \in {"noise", "gyro_temp"}, NEW v \in Int, SectionOf(p.mode) = s,
              p.pc = "analyse",
              To(t, Over([p EXCEPT !.cal[s] = v, !.own = v, !.said = TRUE]))
       PROVE  FileInv'
  <2> DEFINE r == [p EXCEPT !.cal[s] = v, !.own = v, !.said = TRUE]
  <2>1. /\ r.cal = [p.cal EXCEPT ![s] = v] /\ r.said /\ r.own = v
        /\ r.mode = p.mode /\ r.found = p.found /\ r.run = p.run /\ r.saved = p.saved
        /\ [r EXCEPT !.pc = "end"].pc = "end" /\ [r EXCEPT !.pc = "end"].cal = r.cal
        /\ [r EXCEPT !.pc = "end"].said = r.said /\ [r EXCEPT !.pc = "end"].own = r.own
        /\ [r EXCEPT !.pc = "end"].mode = r.mode /\ [r EXCEPT !.pc = "end"].found = r.found
        /\ [r EXCEPT !.pc = "end"].run = r.run /\ [r EXCEPT !.pc = "end"].saved = r.saved
    BY <1>1 DEF Procs
  <2>2. r \in Procs
    BY <1>1 DEF Procs
  <2> HIDE DEF r
  <2>3. p.cal = p.found.sec /\ Loads(p.found) /\ p.run = runs /\ runs > 0 /\ ~p.saved
        /\ p.found = CalText /\ runs \notin may
    BY <1>1, <1>22 DEF Knows, Asking, Confirmed
  <2>4. Knows([r EXCEPT !.pc = "end"])
    BY <1>22, <2>1, <2>3 DEF Knows, Asking, Confirmed
  <2>5. Busy(t) /\ To(t, Over(r))
    BY <1>22 DEF Busy, p, r
  <2> QED BY <1>6, <2>2, <2>4, <2>5
<1>23. p.run \in Int /\ Broken \in Int /\ Mixed \in Int
  BY <1>1 DEF Procs, Broken, Mixed
<1>24. CASE Characterize(t)
  <2> DEFINE noise(v) == [p EXCEPT !.cal["noise"] = v]
  <2>1. p.pc = "analyse" /\ p.pc \in Asking /\ SectionOf(p.mode) = "noise"
    BY <1>24 DEF Characterize, P, p, Asking, SectionOf
  <2>2. CASE To(t, Fail(p))
    BY <1>1, <1>5, <1>8, <2>1, <2>2
  <2>3. CASE To(t, Fail(noise(Mixed)))
    <3>1. noise(Mixed) \in Procs
      BY <1>1, <1>23 DEF Procs
    <3> QED BY <1>5, <1>8, <2>1, <2>3, <3>1
  <2>4. ASSUME NEW v \in {p.run, Broken}, To(t, Over([noise(v) EXCEPT !.own = v, !.said = TRUE]))
        PROVE  FileInv'
    <3>1. [noise(v) EXCEPT !.own = v, !.said = TRUE]
            = [p EXCEPT !.cal["noise"] = v, !.own = v, !.said = TRUE]
      BY <1>1 DEF Procs
    <3> QED BY <1>22, <1>23, <2>1, <2>4, <3>1
  <2>5. \/ To(t, Fail(p)) \/ To(t, Fail(noise(Mixed)))
        \/ \E v \in {p.run, Broken} : To(t, Over([noise(v) EXCEPT !.own = v, !.said = TRUE]))
    BY <1>24 DEF Characterize, p
  <2> HIDE DEF noise
  <2> QED BY <2>2, <2>3, <2>4, <2>5
<1>25. CASE FitTemp(t)
  <2>1. p.pc = "analyse" /\ p.pc \in Asking /\ SectionOf(p.mode) = "gyro_temp"
    BY <1>25 DEF FitTemp, P, p, Asking, SectionOf
  <2>2. CASE To(t, Fail(p))
    BY <1>1, <1>5, <1>8, <2>1, <2>2
  <2>3. ASSUME NEW v \in {p.run, Broken},
               To(t, Over([p EXCEPT !.cal["gyro_temp"] = v, !.own = v, !.said = TRUE]))
        PROVE  FileInv'
    BY <1>22, <1>23, <2>1, <2>3
  <2> QED BY <1>25, <2>2, <2>3 DEF FitTemp, p
<1>26. CASE FitRa(t)
  <2>1. p.pc \in Asking
    BY <1>26 DEF FitRa, P, p, Asking
  <2> QED BY <1>1, <1>5, <1>6, <1>8, <1>26, <2>1 DEF FitRa, p
<1>27. CASE Finish(t)
  <2>1. p.pc = "end" /\ Busy(t)
    BY <1>27 DEF Finish, P, p, Busy
  <2>2. CASE To(t, Exit(p, 0))
    BY <1>1, <1>5, <2>1, <2>2
  <2>3. CASE To(t, [p EXCEPT !.pc = "write"])
    <3>1. Knows([p EXCEPT !.pc = "write"])
      BY <1>1, <2>1 DEF Knows, Asking, Confirmed, Procs
    <3> QED BY <1>4, <2>1, <2>3, <3>1
  <2> QED BY <1>27, <2>2, <2>3 DEF Finish, p
<1>28. CASE Kill(t)
  <2>1. Knows(Idle) /\ Busy(t) /\ To(t, Idle)
    BY <1>28 DEF Kill, Knows, Idle
  <2> QED BY <1>4, <2>1
<1> QED BY <1>9, <1>10, <1>11, <1>12, <1>13, <1>14, <1>15, <1>16, <1>17, <1>18, <1>19, <1>20,
           <1>21, <1>24, <1>25, <1>26, <1>27, <1>28

\* While a run is at it, the others are not.
LEMMA AloneKnows ==
    ASSUME ToolInv, FileInv, NEW t \in Tools, Busy(t), NEW q, Becomes(t, q), Knows(q)',
           DiskInv'
    PROVE  FileInv'
<1>1. proc'[t] = q /\ \A u \in Tools \ {t} : proc'[u] = proc[u]
  BY DEF Becomes, ToolInv
<1>2. \A u \in Tools \ {t} : ~Busy(u)
  BY DEF FileInv, Single
<1>3. Single'
  BY <1>1, <1>2 DEF Single, Busy
<1>4. ASSUME NEW u \in Tools PROVE Knows(proc[u])'
  <2>1. CASE u = t
    BY <1>1, <2>1
  <2>2. CASE u # t
    BY <1>1, <1>2, <2>2 DEF Busy, Knows
  <2> QED BY <2>1, <2>2
<1> QED BY <1>3, <1>4 DEF FileInv

\* The steps of cal_write, up to the sync of the directory.
LEMMA WriteKnows ==
    ASSUME ToolInv, FileInv, NEW t \in Tools,
           Create(t) \/ Flush(t) \/ Sync(t) \/ Rename(t) \/ SyncDir(t)
    PROVE  FileInv'
<1> DEFINE p == proc[t]
<1>1. p \in Procs /\ Knows(p) /\ DiskInv
  BY DEF ToolInv, FileInv
<1>2. Busy(t) /\ p.pc \in {"write", "flush", "sync", "rename", "dirsync"}
  BY DEF Create, Flush, Sync, Rename, SyncDir, P, Busy
<1> HIDE DEF p
<1>3. /\ ino \in [Inodes -> [text : Texts, hard : Texts]]
      /\ dir \in [cal : 0 .. Runs + 1, tmp : 0 .. Runs + 1]
      /\ may \subseteq 0 .. Runs + 1 /\ runs \in 0 .. Runs /\ Runs \in Nat
      /\ NoInode = Runs + 1 /\ Inodes = 0 .. Runs
  BY CalAssumption DEF ToolInv, DiskTypes, NoInode, Inodes
<1>4. /\ p.run = runs /\ runs > 0 /\ ~p.saved /\ Loads(p.found) /\ p.cal = Confirmed(p)
      /\ p.pc # "dirsync" => p.found = CalText
  BY <1>1, <1>2 DEF Knows
<1>5. dir.cal \in may /\ (dir.tmp # NoInode => dir.tmp \notin may)
  BY <1>1 DEF DiskInv
<1>6. ASSUME NEW q, Becomes(t, q), Knows(q)', DiskInv' PROVE FileInv'
  BY <1>2, <1>6, AloneKnows
\* Giving up.
<1>7. ASSUME Becomes(t, Exit(p, 1)), DiskInv' PROVE FileInv'
  <2> PICK q : q = Exit(p, 1)
    OBVIOUS
  <2>1. q.pc = "done"
    BY <1>1 DEF Exit, Procs
  <2>2. Knows(q)'
    BY <2>1 DEF Knows
  <2> QED BY <1>6, <1>7, <2>2
\* Writing to an inode that has no name the disk may know.
<1>8. ASSUME NEW i \in Inodes, i \notin may, may' = may, runs' = runs, dir'.cal = dir.cal,
             dir'.tmp # NoInode => dir'.tmp = i, i <= runs,
             \A c \in Inodes \ {i} : ino'[c] = ino[c]
      PROVE  DiskInv' /\ CalText' = CalText
  <2>1. CalText' = CalText
    <3>1. dir'.cal = dir.cal /\ NoInode' = NoInode /\ dir.cal # i
      BY <1>5, <1>8
    <3>2. dir.cal # NoInode => dir.cal \in Inodes /\ ino'[dir.cal] = ino[dir.cal]
      BY <1>3, <1>8, <3>1
    <3> QED BY <3>1, <3>2 DEF CalText
  <2>2. \A c \in may : c # NoInode => ino'[c] = ino[c]
    BY <1>3, <1>8
  <2> QED BY <1>1, <1>3, <1>5, <1>8, <2>1, <2>2 DEF DiskInv
<1>9. CASE Create(t)
  <2> DEFINE i == IF dir.tmp = NoInode THEN p.run ELSE dir.tmp
  <2>1. p.pc = "write" /\ runs \notin may
    BY <1>1, <1>9 DEF Create, P, p, Knows
  <2>2. i \in Inodes /\ i \notin may /\ i <= runs
    BY <1>1, <1>3, <1>4, <1>5, <2>1 DEF DiskInv
  <2> HIDE DEF i
  <2>3. CASE To(t, Exit(p, 1))
    BY <1>1, <1>2, <2>3, ToKeeps, OnwardKnows, ExitType
  <2>4. CASE /\ Applicable(p.cal)
             /\ ino' = [ino EXCEPT ![i] = [text |-> Torn, hard |-> Torn]]
             /\ dir' = [dir EXCEPT !.tmp = i]
             /\ Becomes(t, [p EXCEPT !.fd = i, !.pc = "flush"])
             /\ UNCHANGED <<may, runs, cuts>>
    <3> PICK q : q = [p EXCEPT !.fd = i, !.pc = "flush"]
      OBVIOUS
    <3>1. dir'.tmp = i /\ dir'.cal = dir.cal /\ i # NoInode
      BY <1>3, <2>2, <2>4
    <3>2. DiskInv' /\ CalText' = CalText
      BY <1>3, <1>8, <2>2, <2>4, <3>1
    <3>3. /\ q.pc = "flush" /\ q.fd = i /\ q.run = p.run /\ q.saved = p.saved
          /\ q.found = p.found /\ q.cal = p.cal /\ Confirmed(q) = Confirmed(p)
      BY <1>1 DEF Procs, Confirmed
    <3>4. Knows(q)'
      BY <1>4, <2>1, <2>4, <3>1, <3>2, <3>3 DEF Knows, Asking, Confirmed
    <3> QED BY <1>6, <2>4, <3>2, <3>4
  <2> QED BY <1>9, <2>3, <2>4 DEF Create, p, i
\* The file of the run.
<1>10. ASSUME p.pc \in {"flush", "sync", "rename"}
       PROVE  /\ p.fd = dir.tmp /\ dir.tmp # NoInode /\ Applicable(p.cal)
              /\ p.fd \in Inodes /\ p.fd \notin may /\ p.fd <= runs
  BY <1>1, <1>3, <1>5, <1>10 DEF Knows, DiskInv
<1>11. CASE Flush(t)
  <2> PICK ok \in BOOLEAN :
           /\ ino' = [ino EXCEPT ![p.fd].text = IF ok THEN Whole(p.cal) ELSE Torn]
           /\ Becomes(t, [p EXCEPT !.ok = ok, !.pc = "sync"])
           /\ UNCHANGED <<dir, may, runs, cuts>>
    BY <1>11 DEF Flush, p
  <2> PICK q : q = [p EXCEPT !.ok = ok, !.pc = "sync"]
    OBVIOUS
  <2>1. p.pc = "flush"
    BY <1>11 DEF Flush, P, p
  <2>2. ino'[p.fd].text = IF ok THEN Whole(p.cal) ELSE Torn
    BY <1>3, <1>10, <2>1
  <2>3. DiskInv' /\ CalText' = CalText
    BY <1>3, <1>8, <1>10, <2>1
  <2>4. /\ q.pc = "sync" /\ q.fd = p.fd /\ q.run = p.run /\ q.saved = p.saved /\ (q.ok <=> ok)
        /\ q.found = p.found /\ q.cal = p.cal /\ Confirmed(q) = Confirmed(p)
    BY <1>1 DEF Procs, Confirmed
  <2>5. Knows(q)'
    BY <1>4, <1>10, <2>1, <2>2, <2>3, <2>4 DEF Knows, Asking, Confirmed
  <2> QED BY <1>6, <2>3, <2>5
<1>12. CASE Sync(t)
  <2> PICK synced \in BOOLEAN, closed \in BOOLEAN :
           /\ ino' = IF p.ok /\ synced THEN [ino EXCEPT ![p.fd].hard = ino[p.fd].text] ELSE ino
           /\ Becomes(t, [p EXCEPT !.ok = (p.ok /\ synced) /\ closed, !.pc = "rename"])
           /\ UNCHANGED <<dir, may, runs, cuts>>
    BY <1>12 DEF Sync, p
  <2> PICK q : q = [p EXCEPT !.ok = (p.ok /\ synced) /\ closed, !.pc = "rename"]
    OBVIOUS
  <2>1. p.pc = "sync" /\ (p.ok => ino[p.fd].text = Whole(p.cal))
    BY <1>1, <1>12 DEF Sync, P, p, Knows
  <2>2. p.ok /\ synced /\ closed => ino'[p.fd].text = Whole(p.cal) /\ ino'[p.fd].hard = Whole(p.cal)
    BY <1>3, <1>10, <2>1
  <2>3. DiskInv' /\ CalText' = CalText
    <3>1. \A c \in Inodes \ {p.fd} : ino'[c] = ino[c]
      BY <1>3
    <3> QED BY <1>3, <1>8, <1>10, <2>1, <3>1
  <2>4. /\ q.pc = "rename" /\ q.fd = p.fd /\ q.run = p.run /\ q.saved = p.saved
        /\ (q.ok => p.ok /\ synced /\ closed)
        /\ q.found = p.found /\ q.cal = p.cal /\ Confirmed(q) = Confirmed(p)
    BY <1>1 DEF Procs, Confirmed
  <2>5. Knows(q)'
    BY <1>4, <1>10, <2>1, <2>2, <2>3, <2>4 DEF Knows, Asking, Confirmed
  <2> QED BY <1>6, <2>3, <2>5
<1>13. CASE Rename(t)
  <2>1. p.pc = "rename" /\ ino' = ino /\ runs' = runs
    BY <1>13 DEF Rename, P, p
  <2>2. CASE /\ p.ok /\ dir' = [cal |-> dir.tmp, tmp |-> NoInode]
             /\ may' = may \cup {dir.tmp}
             /\ Becomes(t, [p EXCEPT !.pc = "dirsync"])
    <3> PICK q : q = [p EXCEPT !.pc = "dirsync"]
      OBVIOUS
    <3>1. /\ ino[p.fd].text = Whole(p.cal) /\ ino[p.fd].hard = Whole(p.cal)
          /\ p.fd = dir.tmp /\ dir.tmp # NoInode /\ Applicable(p.cal)
      BY <1>1, <1>10, <2>1, <2>2 DEF Knows
    <3>2. CalText' = Whole(p.cal) /\ Loads(Whole(p.cal))
      BY <2>1, <2>2, <3>1 DEF CalText, Loads, Whole
    <3>3. Loads(CalText)
      BY <1>4, <2>1
    <3>4. DiskInv'
      <4>1. /\ dir'.cal \in may' /\ dir'.tmp = NoInode
            /\ \A c \in may' \cup {dir'.tmp} : c # NoInode => c <= runs'
        BY <1>1, <2>1, <2>2, <3>1 DEF DiskInv
      <4>2. \A c \in may' : c # NoInode => Loads(ino'[c].hard)
        BY <1>1, <2>1, <2>2, <3>1, <3>2, <3>3 DEF DiskInv
      <4> QED BY <4>1, <4>2 DEF DiskInv, Loads
    <3>5. /\ q.pc = "dirsync" /\ q.run = p.run /\ q.saved = p.saved
          /\ q.found = p.found /\ q.cal = p.cal /\ Confirmed(q) = Confirmed(p)
      BY <1>1 DEF Procs, Confirmed
    <3>6. Knows(q)'
      BY <1>4, <2>1, <3>2, <3>5 DEF Knows, Asking, Confirmed
    <3> QED BY <1>6, <2>2, <3>4, <3>6
  <2>3. CASE /\ dir' = [dir EXCEPT !.tmp = NoInode] /\ may' = may
             /\ Becomes(t, Exit(p, 1))
    <3>1. dir'.cal = dir.cal /\ dir'.tmp = NoInode /\ CalText' = CalText
      BY <1>3, <2>1, <2>3 DEF CalText
    <3>2. DiskInv'
      BY <1>1, <2>1, <2>3, <3>1 DEF DiskInv
    <3> QED BY <1>7, <2>3, <3>2
  <2> QED BY <1>13, <2>2, <2>3 DEF Rename, p
<1>14. CASE SyncDir(t)
  <2> PICK q : q = Exit([p EXCEPT !.saved = TRUE], 0)
    OBVIOUS
  <2>1. /\ Becomes(t, q) /\ UNCHANGED <<ino, dir, runs>>
        /\ may' = may \/ may' = {dir.cal}
    BY <1>14 DEF SyncDir, p
  <2>2. CalText' = CalText
    BY <2>1 DEF CalText
  <2>3. DiskInv'
    BY <1>1, <2>1, <2>2 DEF DiskInv
  <2>4. q.pc = "done"
    BY <1>1 DEF Exit, Procs
  <2>5. Knows(q)'
    BY <2>4 DEF Knows
  <2> QED BY <1>6, <2>1, <2>3, <2>5
<1> QED BY <1>9, <1>11, <1>12, <1>13, <1>14

LEMMA StartKnows ==
    ASSUME ~Together, ToolInv, FileInv, NEW t \in Tools, NEW m \in Modes, StartRun(t, m)
    PROVE  FileInv'
<1>1. /\ runs < Runs /\ \A u \in Tools : ~Busy(u)
      /\ runs' = runs + 1 /\ UNCHANGED <<ino, dir, may>>
  BY DEF StartRun, Disk
<1>2. PICK settle \in BOOLEAN :
        \E q : /\ Becomes(t, q)
              /\ LET p == [Idle EXCEPT !.mode = m, !.run = runs + 1, !.settle = settle,
                                       !.found = CalText, !.pc = "load"]
                 IN  q = p \/ q = Exit(p, 1)
  <2> DEFINE fresh(e) == [Idle EXCEPT !.mode = m, !.run = runs + 1, !.settle = e,
                                      !.found = CalText, !.pc = "load"]
  <2>1. PICK settle \in BOOLEAN : Becomes(t, fresh(settle)) \/ Becomes(t, Exit(fresh(settle), 1))
    BY DEF StartRun
  <2> HIDE DEF fresh
  <2>2. \E q : Becomes(t, q) /\ (q = fresh(settle) \/ q = Exit(fresh(settle), 1))
    BY <2>1
  <2> QED BY <2>2 DEF fresh
<1>2a. PICK q : /\ Becomes(t, q)
               /\ LET p == [Idle EXCEPT !.mode = m, !.run = runs + 1, !.settle = settle,
                                        !.found = CalText, !.pc = "load"]
                  IN  q = p \/ q = Exit(p, 1)
  BY <1>2
<1>3. q.pc \in {"load", "done"}
      /\ (q.pc = "load" => q.run = runs + 1 /\ ~q.saved /\ ~q.said /\ q.found = CalText)
  BY <1>2a, ZenonT(30) DEF Idle, Exit
<1>4. proc'[t] = q /\ \A u \in Tools \ {t} : proc'[u] = proc[u]
  BY <1>2a DEF Becomes, ToolInv
<1>5. CalText' = CalText
  BY <1>1 DEF CalText
<1>6. runs \in Nat /\ Runs \in Nat /\ runs + 1 \in Nat /\ NoInode = Runs + 1
      /\ may \subseteq 0 .. Runs + 1 /\ dir.tmp \in 0 .. Runs + 1
  BY CalAssumption DEF ToolInv, DiskTypes, NoInode
<1>7. DiskInv
  BY DEF FileInv
<1>8. runs + 1 \notin may
  BY <1>1, <1>6, <1>7 DEF DiskInv
<1>9. DiskInv'
  <2>1. \A c \in may \cup {dir.tmp} : c # NoInode => c <= runs + 1
    BY <1>6, <1>7 DEF DiskInv
  <2> QED BY <1>1, <1>5, <1>7, <2>1 DEF DiskInv
<1>10. Single'
  BY <1>1, <1>4 DEF Single, Busy
<1>11. ASSUME NEW u \in Tools PROVE Knows(proc[u])'
  <2>1. CASE u = t
    BY <1>1, <1>3, <1>4, <1>5, <1>6, <1>8, <2>1 DEF Knows, Asking
  <2>2. CASE u # t
    BY <1>1, <1>4, <2>2 DEF Busy, Knows
  <2> QED BY <2>1, <2>2
<1> QED BY <1>9, <1>10, <1>11 DEF FileInv

LEMMA CutKnows == ASSUME ToolInv, FileInv, PowerCut PROVE FileInv'
<1>1. PICK c \in may : \E left \in {NoInode, dir.tmp} \cup (may \ {c}) :
        dir' = [cal |-> c, tmp |-> left] /\ may' = {c}
  BY DEF PowerCut
<1>2. PICK left \in {NoInode, dir.tmp} \cup (may \ {c}) :
        dir' = [cal |-> c, tmp |-> left] /\ may' = {c}
  BY <1>1
<1>3. /\ runs' = runs /\ proc' = [t \in Tools |-> Idle]
      /\ ino' = [i \in Inodes |-> [text |-> ino[i].hard, hard |-> ino[i].hard]]
  BY DEF PowerCut
<1>4. DiskInv /\ may \subseteq 0 .. Runs + 1 /\ Runs \in Nat /\ NoInode = Runs + 1
      /\ Inodes = 0 .. Runs
  BY CalAssumption DEF FileInv, ToolInv, DiskTypes, NoInode, Inodes
<1>5. dir'.cal = c /\ dir'.tmp = left /\ may' = {c}
  BY <1>2
<1>6. c # NoInode => CalText' = ino'[c].hard
  <2>1. ASSUME c # NoInode PROVE c \in Inodes
    BY <1>4, <2>1
  <2> QED BY <1>3, <1>5, <2>1 DEF CalText
<1>7. DiskInv'
  <2>1. dir'.tmp # NoInode => dir'.tmp \notin may'
    BY <1>4, <1>5 DEF DiskInv
  <2>2. \A d \in may' \cup {dir'.tmp} : d # NoInode => d <= runs'
    BY <1>3, <1>4, <1>5 DEF DiskInv
  <2> QED BY <1>5, <1>6, <2>1, <2>2 DEF DiskInv, Loads
<1>8. \A t \in Tools : proc'[t].pc = "off"
  BY <1>3 DEF Idle
<1> QED BY <1>7, <1>8 DEF FileInv, Single, Busy, Knows

LEMMA FileInit == CalInit => FileInv
<1> SUFFICES ASSUME CalInit PROVE FileInv
  OBVIOUS
<1>1. PICK text : ino = [i \in Inodes |-> [text |-> text, hard |-> text]]
  BY DEF CalInit
<1>2. PICK c \in {0, NoInode} : dir = [cal |-> c, tmp |-> NoInode] /\ may = {c}
  BY DEF CalInit
<1>3. runs = 0 /\ \A t \in Tools : proc[t].pc = "off"
  BY DEF CalInit, Idle
<1>4. 0 \in Inodes /\ NoInode # 0
  BY CalAssumption DEF Inodes, NoInode
<1>5. c # NoInode => CalText = ino[c].hard
  BY <1>1, <1>2, <1>4 DEF CalText
<1>6. DiskInv
  BY <1>2, <1>3, <1>4, <1>5 DEF DiskInv
<1> QED BY <1>3, <1>6 DEF FileInv, Single, Busy, Knows

LEMMA FileNext == ASSUME ~Together PROVE ToolInv /\ FileInv /\ [CalNext]_calVars => FileInv'
<1> SUFFICES ASSUME ToolInv, FileInv, [CalNext]_calVars PROVE FileInv'
  OBVIOUS
<1>1. CASE UNCHANGED calVars
  BY <1>1 DEF calVars, FileInv, Single, Busy, DiskInv, Knows, CalText
<1>2. CASE PowerCut
  BY <1>2, CutKnows
<1>3. ASSUME NEW t \in Tools,
             \/ \E m \in Modes : StartRun(t, m)
             \/ CalLoad(t) \/ StartImu(t) \/ Open(t) \/ Settle(t) \/ CtrlC(t)
             \/ MagSample(t) \/ MagFit(t) \/ NextPart(t) \/ Collect(t) \/ CollectCut(t)
             \/ GyroFit(t) \/ AccelFit(t) \/ Answer(t) \/ ReadCapture(t)
             \/ Characterize(t) \/ FitTemp(t) \/ FitRa(t)
             \/ Finish(t) \/ Create(t) \/ Flush(t) \/ Sync(t) \/ Rename(t) \/ SyncDir(t)
             \/ Kill(t)
      PROVE  FileInv'
  BY <1>3, StartKnows, RunKnows, WriteKnows, Zenon
<1> QED BY <1>1, <1>2, <1>3, Zenon DEF CalNext

LEMMA FileAlways == ASSUME ~Together PROVE CalSpec => [](ToolInv /\ FileInv)
<1>1. CalInit => ToolInv /\ FileInv
  BY ToolInit, FileInit
<1>2. (ToolInv /\ FileInv) /\ [CalNext]_calVars => (ToolInv /\ FileInv)'
  BY ToolNext, FileNext
<1> QED BY <1>1, <1>2, PTL DEF CalSpec

(* ------------------------- what a step does to it ------------------------ *)

\* Only the rename of a run and the power cut change what is read.
LEMMA WhoChanges ==
    ASSUME ToolInv, FileInv, [CalNext]_calVars
    PROVE  \/ CalText' = CalText
           \/ PowerCut
           \/ \E t \in Tools : /\ P(t, "rename") /\ Rename(t)
                               /\ CalText' = Whole(proc[t].cal) /\ Applicable(proc[t].cal)
<1>1. ASSUME UNCHANGED <<ino, dir>> PROVE CalText' = CalText
  BY <1>1 DEF CalText
<1>2. CASE UNCHANGED calVars
  BY <1>1, <1>2 DEF calVars
<1>3. ASSUME NEW t \in Tools, NEW q, To(t, q) PROVE UNCHANGED <<ino, dir>>
  BY <1>3 DEF To, Disk
<1>4. ASSUME NEW t \in Tools,
             \/ \E m \in Modes : StartRun(t, m)
             \/ CalLoad(t) \/ StartImu(t) \/ Open(t) \/ Settle(t) \/ CtrlC(t)
             \/ MagSample(t) \/ MagFit(t) \/ NextPart(t)
      PROVE  UNCHANGED <<ino, dir>>
  BY <1>4 DEF StartRun, CalLoad, StartImu, Open, Settle, CtrlC, MagSample, MagFit, NextPart,
              To, Disk
<1>5. ASSUME NEW t \in Tools,
             \/ Collect(t) \/ CollectCut(t) \/ GyroFit(t) \/ AccelFit(t) \/ Answer(t)
             \/ ReadCapture(t) \/ Characterize(t) \/ FitTemp(t) \/ FitRa(t)
             \/ Finish(t) \/ Kill(t) \/ SyncDir(t)
      PROVE  UNCHANGED <<ino, dir>>
  BY <1>5 DEF Collect, CollectCut, GyroFit, AccelFit, Answer, ReadCapture, Characterize,
              FitTemp, FitRa, Finish, Kill, SyncDir, To, Disk
<1>6. DiskInv /\ \A t \in Tools : Knows(proc[t])
  BY DEF FileInv
<1>7. ASSUME NEW i, i # dir.cal, dir'.cal = dir.cal,
             dir.cal # NoInode => ino'[dir.cal].text = ino[dir.cal].text
      PROVE  CalText' = CalText
  BY <1>7 DEF CalText
<1>8. /\ ino \in [Inodes -> [text : Texts, hard : Texts]]
      /\ dir \in [cal : 0 .. Runs + 1, tmp : 0 .. Runs + 1]
      /\ NoInode = Runs + 1 /\ Inodes = 0 .. Runs /\ Runs \in Nat
  BY CalAssumption DEF ToolInv, DiskTypes, NoInode, Inodes
<1>9. ASSUME NEW t \in Tools, Create(t) \/ Flush(t) \/ Sync(t) PROVE CalText' = CalText
  <2> DEFINE p == proc[t]
             i == IF dir.tmp = NoInode THEN p.run ELSE dir.tmp
  <2>1. CASE Create(t)
    <3>1. i # dir.cal
      BY <1>6, <2>1 DEF Create, P, Knows, DiskInv, Asking
    <3>2. UNCHANGED <<ino, dir>> \/ (/\ dir'.cal = dir.cal
                                     /\ \A c \in Inodes \ {i} : ino'[c] = ino[c])
      BY <1>8, <2>1 DEF Create, To, Disk
    <3>3. dir.cal # NoInode => dir.cal \in Inodes
      BY <1>8
    <3> HIDE DEF i
    <3> QED BY <1>1, <1>7, <3>1, <3>2, <3>3
  <2>2. CASE Flush(t) \/ Sync(t)
    <3>1. p.fd # dir.cal
      BY <1>6, <2>2 DEF Flush, Sync, P, Knows, DiskInv
    <3>2. dir' = dir /\ \A c \in Inodes \ {p.fd} : ino'[c] = ino[c]
      BY <1>8, <2>2 DEF Flush, Sync
    <3>3. dir.cal # NoInode => dir.cal \in Inodes
      BY <1>8
    <3> QED BY <1>7, <3>1, <3>2, <3>3
  <2> QED BY <1>9, <2>1, <2>2
<1>10. ASSUME NEW t \in Tools, Rename(t)
       PROVE  \/ CalText' = CalText
              \/ /\ P(t, "rename") /\ Rename(t)
                 /\ CalText' = Whole(proc[t].cal) /\ Applicable(proc[t].cal)
  <2> DEFINE p == proc[t]
  <2>1. p.pc = "rename" /\ ino' = ino
    BY <1>10 DEF Rename, P
  <2>2. CASE p.ok /\ dir' = [cal |-> dir.tmp, tmp |-> NoInode]
    <3>1. ino[dir.tmp].text = Whole(p.cal) /\ dir.tmp # NoInode /\ Applicable(p.cal)
      BY <1>6, <2>1, <2>2 DEF Knows
    <3> QED BY <1>10, <2>1, <2>2, <3>1 DEF CalText, P
  <2>3. CASE dir' = [dir EXCEPT !.tmp = NoInode]
    BY <1>8, <2>1, <2>3 DEF CalText
  <2> QED BY <1>10, <2>2, <2>3 DEF Rename
<1>11. ASSUME NEW t \in Tools,
             \/ \E m \in Modes : StartRun(t, m)
             \/ CalLoad(t) \/ StartImu(t) \/ Open(t) \/ Settle(t) \/ CtrlC(t)
             \/ MagSample(t) \/ MagFit(t) \/ NextPart(t) \/ Collect(t) \/ CollectCut(t)
             \/ GyroFit(t) \/ AccelFit(t) \/ Answer(t) \/ ReadCapture(t)
             \/ Characterize(t) \/ FitTemp(t) \/ FitRa(t)
             \/ Finish(t) \/ Create(t) \/ Flush(t) \/ Sync(t) \/ Rename(t) \/ SyncDir(t)
             \/ Kill(t)
      PROVE  \/ CalText' = CalText
             \/ /\ P(t, "rename") /\ Rename(t)
                /\ CalText' = Whole(proc[t].cal) /\ Applicable(proc[t].cal)
  BY <1>1, <1>4, <1>5, <1>9, <1>10, <1>11, Zenon
<1> QED BY <1>2, <1>11, Zenon DEF CalNext

\* cal.c cal_write: whatever fails, and wherever the run is killed or the power cut,
\* who reads cal.json never finds part of a file where a calibration was.
THEOREM NeverTornHolds == ASSUME ~Together PROVE CalSpec => NeverTorn
<1>1. ToolInv /\ FileInv /\ [CalNext]_calVars => (Loads(CalText) => Loads(CalText)')
  <2> SUFFICES ASSUME ToolInv, FileInv, [CalNext]_calVars, Loads(CalText)
               PROVE  Loads(CalText')
    BY DEF Loads, Applicable
  <2>1. CASE CalText' = CalText
    BY <2>1
  <2>2. CASE PowerCut
    <3>1. PICK c \in may : dir'.cal = c
      BY <2>2 DEF PowerCut
    <3>2. ino' = [i \in Inodes |-> [text |-> ino[i].hard, hard |-> ino[i].hard]]
      BY <2>2 DEF PowerCut
    <3>3. may \subseteq 0 .. Runs + 1 /\ NoInode = Runs + 1 /\ Inodes = 0 .. Runs /\ Runs \in Nat
      BY CalAssumption DEF ToolInv, DiskTypes, NoInode, Inodes
    <3>4. CASE c = NoInode
      BY <3>1, <3>4 DEF CalText, Loads, Whole, Empty, Applicable, Absent, Broken
    <3>5. CASE c # NoInode
      <4>1. c \in Inodes
        BY <3>3, <3>5
      <4>2. CalText' = ino[c].hard
        BY <3>1, <3>2, <3>5, <4>1 DEF CalText
      <4> QED BY <3>5, <4>2 DEF FileInv, DiskInv
    <3> QED BY <3>4, <3>5
  <2>3. ASSUME NEW t \in Tools, CalText' = Whole(proc[t].cal), Applicable(proc[t].cal)
        PROVE  Loads(CalText')
    BY <2>3 DEF Loads, Whole
  <2> QED BY <2>1, <2>2, <2>3, WhoChanges
<1>2. CalSpec => [][CalNext]_calVars
  BY DEF CalSpec
<1> QED BY <1>1, <1>2, FileAlways, PTL DEF NeverTorn

\* What a run has loaded, and whether it has saved, stay with it.
LEMMA RunCarries ==
    ASSUME ToolInv, NEW t \in Tools,
           \/ CalLoad(t) \/ StartImu(t) \/ Open(t) \/ Settle(t) \/ CtrlC(t)
           \/ MagSample(t) \/ MagFit(t) \/ NextPart(t) \/ Collect(t) \/ CollectCut(t)
           \/ GyroFit(t) \/ AccelFit(t) \/ Answer(t) \/ ReadCapture(t)
           \/ Characterize(t) \/ FitTemp(t) \/ FitRa(t) \/ Finish(t)
    PROVE  /\ proc'[t].found = proc[t].found /\ proc'[t].saved = proc[t].saved
           /\ proc[t].pc \in Asking \cup {"load", "end"}
           /\ \E q : To(t, q)
<1> DEFINE p == proc[t]
<1>1. p \in Procs
  BY DEF ToolInv
<1> DEFINE Same(q) == q.found = p.found /\ q.saved = p.saved
<1>2. ASSUME NEW q, To(t, q), Same(q), p.pc \in Asking \cup {"load", "end"}
      PROVE  /\ proc'[t].found = proc[t].found /\ proc'[t].saved = proc[t].saved
             /\ proc[t].pc \in Asking \cup {"load", "end"}
             /\ \E r : To(t, r)
  <2>1. proc'[t] = q
    BY <1>2 DEF To, Becomes, ToolInv
  <2> QED BY <1>2, <2>1
<1> HIDE DEF p
<1>3. ASSUME NEW r \in Procs PROVE /\ Exit(r, 0).found = r.found /\ Exit(r, 0).saved = r.saved
                                   /\ Exit(r, 1).found = r.found /\ Exit(r, 1).saved = r.saved
                                   /\ Fail(r).found = r.found /\ Fail(r).saved = r.saved
                                   /\ Over(r).found = r.found /\ Over(r).saved = r.saved
  BY DEF Exit, Fail, Over, Procs
<1>4. Same(Exit(p, 0)) /\ Same(Exit(p, 1)) /\ Same(Fail(p)) /\ Same(Over(p))
  BY <1>1, <1>3
<1>5. CASE CalLoad(t) \/ StartImu(t) \/ Open(t) \/ Settle(t) \/ CtrlC(t) \/ Finish(t)
  <2>1. p.pc \in Asking \cup {"load", "end"}
    BY <1>5 DEF CalLoad, StartImu, Open, Settle, CtrlC, Finish, P, p, Asking
  <2>2. CASE CalLoad(t)
    <3>1. ASSUME NEW next PROVE Same([p EXCEPT !.cal = CalText.sec, !.pc = next])
      BY <1>1 DEF Procs
    <3> QED BY <1>2, <1>4, <2>1, <2>2, <3>1 DEF CalLoad, p
  <2>3. CASE StartImu(t)
    <3>1. ASSUME NEW b PROVE Same([p EXCEPT !.bus = b, !.pc = "open"])
      BY <1>1 DEF Procs
    <3> QED BY <1>2, <2>1, <2>3, <3>1 DEF StartImu, p
  <2>4. CASE Open(t)
    <3>1. ASSUME NEW b, NEW next PROVE Same([p EXCEPT !.bus = b, !.pc = next])
      BY <1>1 DEF Procs
    <3>2. To(t, Fail(p)) \/ \E b, next : To(t, [p EXCEPT !.bus = b, !.pc = next])
      BY <2>4 DEF Open, p
    <3> HIDE DEF Same
    <3> QED BY <1>2, <1>4, <2>1, <3>1, <3>2
  <2>5. CASE Settle(t)
    <3>1. Same([p EXCEPT !.pc = "measure"])
      BY <1>1 DEF Procs
    <3> QED BY <1>2, <1>4, <2>1, <2>5, <3>1 DEF Settle, p
  <2>6. CASE CtrlC(t)
    <3>1. Same([p EXCEPT !.stop = TRUE])
      BY <1>1 DEF Procs
    <3> QED BY <1>2, <2>1, <2>6, <3>1 DEF CtrlC, p
  <2>7. CASE Finish(t)
    <3>1. Same([p EXCEPT !.pc = "write"])
      BY <1>1 DEF Procs
    <3> QED BY <1>2, <1>4, <2>1, <2>7, <3>1 DEF Finish, p
  <2> QED BY <1>5, <2>2, <2>3, <2>4, <2>5, <2>6, <2>7
<1>6. CASE MagSample(t) \/ MagFit(t) \/ NextPart(t) \/ Collect(t) \/ CollectCut(t)
  <2>1. p.pc \in Asking \cup {"load", "end"}
    BY <1>6 DEF MagSample, MagFit, NextPart, Collect, CollectCut, P, p, Asking
  <2>2. CASE MagSample(t)
    <3>1. Same([p EXCEPT !.keep = Keep(p.keep)])
      BY <1>1 DEF Procs
    <3> QED BY <1>2, <2>1, <2>2, <3>1 DEF MagSample, p
  <2>3. CASE MagFit(t)
    <3> DEFINE r == [p EXCEPT !.bus = @ \ {"imu"}]
    <3>1. r \in Procs /\ Same(r)
      BY <1>1 DEF Procs
    <3>2. \E v \in MagFits(r) :
            To(t, IF v = Absent THEN Fail(r) ELSE [r EXCEPT !.own = v, !.pc = "ask"])
      BY <2>3 DEF MagFit, p
    <3> HIDE DEF r
    <3>3. Same(Fail(r)) /\ \A v : Same([r EXCEPT !.own = v, !.pc = "ask"])
      BY <1>3, <3>1 DEF Procs
    <3> HIDE DEF Same
    <3> QED BY <1>2, <2>1, <3>2, <3>3
  <2>4. CASE NextPart(t)
    <3>1. Same([p EXCEPT !.pc = "collect"]) /\ Same([p EXCEPT !.pc = "fit"])
      BY <1>1 DEF Procs
    <3> QED BY <1>2, <2>1, <2>4, <3>1 DEF NextPart, p
  <2>5. CASE Collect(t) \/ CollectCut(t)
    <3>1. /\ Same([p EXCEPT !.done = @ + 1, !.pc = "measure"])
          /\ Same([p EXCEPT !.done = @ + 1, !.rough = TRUE, !.pc = "measure"])
          /\ Same([p EXCEPT !.done = @ + 1, !.stop = TRUE, !.pc = "measure"])
      BY <1>1 DEF Procs
    <3> QED BY <1>2, <1>4, <2>1, <2>5, <3>1 DEF Collect, CollectCut, p
  <2> QED BY <1>6, <2>2, <2>3, <2>4, <2>5
<1>7. CASE GyroFit(t) \/ AccelFit(t) \/ Answer(t) \/ ReadCapture(t) \/ FitRa(t)
  <2>1. p.pc \in Asking \cup {"load", "end"}
    BY <1>7 DEF GyroFit, AccelFit, Answer, ReadCapture, FitRa, P, p, Asking
  <2>2. CASE GyroFit(t)
    <3>1. ASSUME NEW v PROVE Same([p EXCEPT !.own = v, !.pc = "ask"])
      BY <1>1 DEF Procs
    <3>2. To(t, Fail(p)) \/ \E v : To(t, [p EXCEPT !.own = v, !.pc = "ask"])
      BY <2>2, Zenon DEF GyroFit, p
    <3> HIDE DEF Same
    <3> QED BY <1>2, <1>4, <2>1, <3>1, <3>2
  <2>3. CASE AccelFit(t)
    <3>1. ASSUME NEW v PROVE Same([p EXCEPT !.own = v, !.bus = {}, !.pc = "ask"])
      BY <1>1 DEF Procs
    <3>2. \/ To(t, Fail(p)) \/ To(t, Over(p))
          \/ \E v : To(t, [p EXCEPT !.own = v, !.bus = {}, !.pc = "ask"])
      BY <2>3 DEF AccelFit, p
    <3> HIDE DEF Same
    <3> QED BY <1>2, <1>4, <2>1, <3>1, <3>2
  <2>4. CASE Answer(t)
    <3> DEFINE r == [p EXCEPT !.said = TRUE, !.cal[p.mode] = p.own]
    <3>1. r \in Procs /\ Same(r)
      BY <1>1 DEF Procs
    <3>2. To(t, Over(r)) \/ To(t, Over(p))
      BY <2>4 DEF Answer, p
    <3> HIDE DEF r
    <3>3. Same(Over(r))
      BY <1>3, <3>1
    <3> QED BY <1>2, <1>4, <2>1, <3>2, <3>3
  <2>5. CASE ReadCapture(t)
    <3>1. Same([p EXCEPT !.pc = "analyse"])
      BY <1>1 DEF Procs
    <3> QED BY <1>2, <1>4, <2>1, <2>5, <3>1 DEF ReadCapture, p
  <2>6. CASE FitRa(t)
    BY <1>2, <1>4, <2>1, <2>6 DEF FitRa, p
  <2> QED BY <1>7, <2>2, <2>3, <2>4, <2>5, <2>6
<1>8. p.run \in Int /\ Broken \in Int /\ Mixed \in Int
  BY <1>1 DEF Procs, Broken, Mixed
<1>9. CASE Characterize(t) \/ FitTemp(t)
  <2>1. p.pc \in Asking \cup {"load", "end"}
    BY <1>9 DEF Characterize, FitTemp, P, p, Asking
  <2>2. ASSUME NEW s \in Sections, NEW v \in Int
        PROVE  LET r == [p EXCEPT !.cal[s] = v]
                   q == [p EXCEPT !.cal[s] = v, !.own = v, !.said = TRUE]
               IN  /\ r \in Procs /\ Same(r) /\ q \in Procs /\ Same(q)
                   /\ [r EXCEPT !.own = v, !.said = TRUE] = q
    BY <1>1 DEF Procs
  <2>3. CASE To(t, Fail(p))
    BY <1>2, <1>4, <2>1, <2>3
  <2>4. CASE To(t, Fail([p EXCEPT !.cal["noise"] = Mixed]))
    <3>1. PICK r : r = [p EXCEPT !.cal["noise"] = Mixed]
      OBVIOUS
    <3>2. "noise" \in Sections
      BY DEF Sections
    <3>3. r \in Procs /\ Same(r)
      BY <1>8, <2>2, <3>1, <3>2
    <3> QED BY <1>2, <1>3, <2>1, <2>4, <3>1, <3>3
  <2>5. ASSUME NEW s \in {"noise", "gyro_temp"}, NEW v \in {p.run, Broken},
               To(t, Over([p EXCEPT !.cal[s] = v, !.own = v, !.said = TRUE]))
        PROVE  /\ proc'[t].found = proc[t].found /\ proc'[t].saved = proc[t].saved
               /\ proc[t].pc \in Asking \cup {"load", "end"}
               /\ \E q : To(t, q)
    <3>1. PICK q : q = [p EXCEPT !.cal[s] = v, !.own = v, !.said = TRUE]
      OBVIOUS
    <3>2. s \in Sections /\ v \in Int
      BY <1>8 DEF Sections
    <3>3. q \in Procs /\ Same(q)
      BY <2>2, <3>1, <3>2
    <3> QED BY <1>2, <1>3, <2>1, <2>5, <3>1, <3>3
  <2>6. CASE Characterize(t)
    <3>1. \A v \in {p.run, Broken} :
            [[p EXCEPT !.cal["noise"] = v] EXCEPT !.own = v, !.said = TRUE]
              = [p EXCEPT !.cal["noise"] = v, !.own = v, !.said = TRUE]
      BY <1>8, <2>2 DEF Sections
    <3>2. \/ To(t, Fail(p)) \/ To(t, Fail([p EXCEPT !.cal["noise"] = Mixed]))
          \/ \E v \in {p.run, Broken} :
               To(t, Over([[p EXCEPT !.cal["noise"] = v] EXCEPT !.own = v, !.said = TRUE]))
      BY <2>6 DEF Characterize, p
    <3>3. \/ To(t, Fail(p)) \/ To(t, Fail([p EXCEPT !.cal["noise"] = Mixed]))
          \/ \E v \in {p.run, Broken} :
               To(t, Over([p EXCEPT !.cal["noise"] = v, !.own = v, !.said = TRUE]))
      BY <3>1, <3>2
    <3> QED BY <2>3, <2>4, <2>5, <3>3
  <2>7. CASE FitTemp(t)
    <3>1. \/ To(t, Fail(p))
          \/ \E v \in {p.run, Broken} :
               To(t, Over([p EXCEPT !.cal["gyro_temp"] = v, !.own = v, !.said = TRUE]))
      BY <2>7 DEF FitTemp, p
    <3> QED BY <2>3, <2>5, <3>1
  <2> QED BY <1>9, <2>6, <2>7
<1> QED BY <1>5, <1>6, <1>7, <1>9

\* A step that ends a run: one that saves says what it wrote, any other leaves the
\* file as the run found it.
LEMMA HowItEnds ==
    ASSUME ToolInv, FileInv, [CalNext]_calVars, NEW t \in Tools,
           proc'[t].pc = "done", proc[t].pc # "done"
    PROVE  LET p == proc'[t]
           IN  /\ (p.code = 1 \/ ~p.saved) => CalText' = p.found
               /\ p.saved => CalText' = Whole(Confirmed(p))
<1> DEFINE p == proc[t]
<1>1. p \in Procs /\ Knows(p)
  BY DEF ToolInv, FileInv
<1>2. ASSUME UNCHANGED <<ino, dir>> PROVE CalText' = CalText
  BY <1>2 DEF CalText
<1>3. /\ dir \in [cal : 0 .. Runs + 1, tmp : 0 .. Runs + 1]
      /\ proc \in [Tools -> Procs]
  BY DEF ToolInv, DiskTypes
<1>4. ASSUME CalText' = CalText, proc'[t].found = CalText, ~proc'[t].saved
      PROVE  LET q == proc'[t]
             IN  /\ (q.code = 1 \/ ~q.saved) => CalText' = q.found
                 /\ q.saved => CalText' = Whole(Confirmed(q))
  BY <1>4
<1>5. PICK u \in Tools :
             \/ \E m \in Modes : StartRun(u, m)
             \/ CalLoad(u) \/ StartImu(u) \/ Open(u) \/ Settle(u) \/ CtrlC(u)
             \/ MagSample(u) \/ MagFit(u) \/ NextPart(u) \/ Collect(u) \/ CollectCut(u)
             \/ GyroFit(u) \/ AccelFit(u) \/ Answer(u) \/ ReadCapture(u)
             \/ Characterize(u) \/ FitTemp(u) \/ FitRa(u)
             \/ Finish(u) \/ Create(u) \/ Flush(u) \/ Sync(u) \/ Rename(u) \/ SyncDir(u)
             \/ Kill(u)
  <2>1. ~PowerCut
    BY DEF PowerCut, Idle
  <2>2. calVars' # calVars
    BY DEF calVars
  <2> QED BY <2>1, <2>2, Zenon DEF CalNext
<1>6. ASSUME u # t PROVE FALSE
  <2>1. \A q : Becomes(u, q) => proc'[t] = proc[t]
    BY <1>3, <1>6 DEF Becomes
  <2>2. \E q : Becomes(u, q)
    <3>1. CASE \/ CalLoad(u) \/ StartImu(u) \/ Open(u) \/ Settle(u) \/ CtrlC(u)
               \/ MagSample(u) \/ MagFit(u) \/ NextPart(u) \/ Collect(u) \/ CollectCut(u)
               \/ GyroFit(u) \/ AccelFit(u) \/ Answer(u) \/ ReadCapture(u)
               \/ Characterize(u) \/ FitTemp(u) \/ FitRa(u) \/ Finish(u)
      BY <3>1, RunCarries DEF To
    <3>2. CASE Kill(u)
      BY <3>2 DEF Kill, To
    <3>3. CASE Create(u) \/ Flush(u) \/ Sync(u) \/ Rename(u) \/ SyncDir(u)
      BY <3>3 DEF Create, Flush, Sync, Rename, SyncDir, To
    <3>4. ASSUME NEW m \in Modes, StartRun(u, m) PROVE \E q : Becomes(u, q)
      BY <3>4 DEF StartRun
    <3> QED BY <1>5, <3>1, <3>2, <3>3, <3>4, Zenon
  <2> QED BY <2>1, <2>2
<1>7. CASE \/ CalLoad(t) \/ StartImu(t) \/ Open(t) \/ Settle(t) \/ CtrlC(t)
           \/ MagSample(t) \/ MagFit(t) \/ NextPart(t) \/ Collect(t) \/ CollectCut(t)
           \/ GyroFit(t) \/ AccelFit(t) \/ Answer(t) \/ ReadCapture(t)
           \/ Characterize(t) \/ FitTemp(t) \/ FitRa(t) \/ Finish(t)
  <2>1. /\ proc'[t].found = p.found /\ proc'[t].saved = p.saved
        /\ p.pc \in Asking \cup {"load", "end"} /\ \E q : To(t, q)
    BY <1>7, RunCarries
  <2>2. UNCHANGED <<ino, dir>>
    BY <2>1 DEF To, Disk
  <2>3. p.found = CalText /\ ~p.saved
    BY <1>1, <2>1 DEF Knows, Asking
  <2> QED BY <1>2, <1>4, <2>1, <2>2, <2>3
<1>8. CASE Kill(t)
  BY <1>3, <1>8 DEF Kill, To, Becomes, Idle
<1>9. ASSUME NEW m \in Modes, StartRun(t, m)
      PROVE  proc'[t].found = CalText /\ ~proc'[t].saved /\ CalText' = CalText
  <2>1. UNCHANGED <<ino, dir>>
    BY <1>9 DEF StartRun, Disk
  <2> DEFINE fresh(e) == [Idle EXCEPT !.mode = m, !.run = runs + 1, !.settle = e,
                                      !.found = CalText, !.pc = "load"]
  <2>a. PICK settle \in BOOLEAN : Becomes(t, fresh(settle)) \/ Becomes(t, Exit(fresh(settle), 1))
    BY <1>9 DEF StartRun
  <2>b. PICK q : Becomes(t, q) /\ (q = fresh(settle) \/ q = Exit(fresh(settle), 1))
    BY <2>a, Zenon
  <2>2. /\ Becomes(t, q)
        /\ LET r == [Idle EXCEPT !.mode = m, !.run = runs + 1, !.settle = settle,
                                 !.found = CalText, !.pc = "load"]
           IN  q = r \/ q = Exit(r, 1)
    BY <2>b
  <2>3. q.found = CalText /\ ~q.saved
    BY <2>2, ZenonT(30) DEF Idle, Exit
  <2>4. proc'[t] = q
    BY <1>3, <2>2 DEF Becomes
  <2> QED BY <1>2, <2>1, <2>3, <2>4
<1>10. ASSUME NEW q, Becomes(t, q) PROVE proc'[t] = q
  BY <1>3, <1>10 DEF Becomes
<1>11. Exit(p, 1).found = p.found /\ Exit(p, 1).saved = p.saved
  BY <1>1 DEF Exit, Procs
<1>12. CASE Create(t)
  <2>1. p.pc = "write"
    BY <1>12 DEF Create, P
  <2>2. To(t, Exit(p, 1))
    <3>1. ASSUME NEW i, Becomes(t, [p EXCEPT !.fd = i, !.pc = "flush"]) PROVE FALSE
      BY <1>1, <1>10, <3>1 DEF Procs
    <3> QED BY <1>12, <3>1 DEF Create
  <2>3. UNCHANGED <<ino, dir>> /\ proc'[t] = Exit(p, 1)
    BY <1>10, <2>2 DEF To, Disk
  <2>4. p.found = CalText /\ ~p.saved
    BY <1>1, <2>1 DEF Knows, Asking
  <2> QED BY <1>2, <1>4, <1>11, <2>3, <2>4
<1>13. ~Flush(t) /\ ~Sync(t)
  <2>1. ASSUME NEW ok, NEW next, Becomes(t, [p EXCEPT !.ok = ok, !.pc = next]) PROVE next = "done"
    BY <1>1, <1>10, <2>1 DEF Procs
  <2> QED BY <2>1 DEF Flush, Sync
<1>14. CASE Rename(t)
  <2>1. p.pc = "rename" /\ ino' = ino
    BY <1>14 DEF Rename, P
  <2>2. Becomes(t, Exit(p, 1)) /\ dir' = [dir EXCEPT !.tmp = NoInode]
    <3>1. ASSUME Becomes(t, [p EXCEPT !.pc = "dirsync"]) PROVE FALSE
      BY <1>1, <1>10, <3>1 DEF Procs
    <3> QED BY <1>14, <3>1 DEF Rename
  <2>3. proc'[t] = Exit(p, 1)
    BY <1>10, <2>2
  <2>4. CalText' = CalText
    BY <1>3, <2>1, <2>2 DEF CalText
  <2>5. p.found = CalText /\ ~p.saved
    BY <1>1, <2>1 DEF Knows, Asking
  <2> QED BY <1>4, <1>11, <2>3, <2>4, <2>5
<1>15. CASE SyncDir(t)
  <2>1. p.pc = "dirsync" /\ UNCHANGED <<ino, dir>>
        /\ Becomes(t, Exit([p EXCEPT !.saved = TRUE], 0))
    BY <1>15 DEF SyncDir, P
  <2> PICK q : q = Exit([p EXCEPT !.saved = TRUE], 0)
    OBVIOUS
  <2>2. /\ q.saved /\ q.code = 0 /\ q.found = p.found /\ q.said = p.said /\ q.mode = p.mode
        /\ q.own = p.own
    BY <1>1 DEF Exit, Procs
  <2>3. CalText' = Whole(p.cal) /\ p.cal = Confirmed(p)
    BY <1>1, <1>2, <2>1 DEF Knows
  <2>4. Confirmed(q) = Confirmed(p)
    BY <2>2 DEF Confirmed
  <2>5. proc'[t] = q
    BY <1>10, <2>1
  <2> QED BY <2>2, <2>3, <2>4, <2>5
<1> QED BY <1>4, <1>5, <1>6, <1>7, <1>8, <1>9, <1>12, <1>13, <1>14, <1>15

\* What a rename changes is the section of the run, once confirmed.
LEMMA WhatChanges ==
    ASSUME ToolInv, FileInv, [CalNext]_calVars, cuts' = cuts,
           NEW s \in Sections, CalText'.sec[s] # CalText.sec[s]
    PROVE  \E t \in Tools : P(t, "rename") /\ SectionOf(proc[t].mode) = s /\ proc[t].said
<1>1. ~PowerCut
  BY DEF PowerCut, ToolInv, DiskTypes
<1>2. PICK t \in Tools : P(t, "rename") /\ CalText' = Whole(proc[t].cal)
  BY <1>1, WhoChanges
<1>3. proc[t] \in Procs /\ proc[t].found = CalText /\ proc[t].cal = Confirmed(proc[t])
  BY <1>2 DEF ToolInv, FileInv, Knows, P
<1>4. CalText.sec \in [Sections -> Int]
  BY TextType DEF ToolInv, Texts
<1>5. CalText'.sec[s] = Confirmed(proc[t])[s]
  BY <1>2, <1>3 DEF Whole
<1>6. proc[t].said /\ SectionOf(proc[t].mode) = s
  BY <1>3, <1>4, <1>5 DEF Confirmed
<1> QED BY <1>2, <1>6

\* cal_main.c main, do_characterize, cal.c cal_write: whatever the order of failures,
\* signals and power cuts, only the rename of a run changes the file, only in the
\* section it measured and the operator confirmed, and a run's exit says so.
THEOREM FileAsConfirmedHolds == ASSUME ~Together PROVE CalSpec => FileAsConfirmed
<1>1. ToolInv /\ FileInv /\ [CalNext]_calVars =>
        (cuts' = cuts =>
           \A s \in Sections : CalText'.sec[s] # CalText.sec[s] =>
             \E t \in Tools : /\ P(t, "rename")
                              /\ SectionOf(proc[t].mode) = s /\ proc[t].said)
  BY WhatChanges
<1>2. ToolInv /\ FileInv /\ [CalNext]_calVars =>
        (\A t \in Tools :
           LET p == proc'[t]
               kept == p.found.sec
               confirmed == [kept EXCEPT ![SectionOf(p.mode)] = p.own]
           IN  (p.pc = "done" /\ proc[t].pc # "done") =>
                 /\ (p.code = 1 \/ ~p.saved) => CalText' = p.found
                 /\ p.saved => CalText' = Whole(IF p.said THEN confirmed ELSE kept))
  BY HowItEnds DEF Confirmed
<1>3. CalSpec => SectionsKept
  BY <1>1, FileAlways, PTL DEF CalSpec, SectionsKept
<1>4. CalSpec => ExitHonest
  BY <1>2, FileAlways, PTL DEF CalSpec, ExitHonest
<1> QED BY <1>3, <1>4 DEF FileAsConfirmed

(***************************************************************************)
(* imud-imutest.                                                           *)
(***************************************************************************)

(* ------------------------------- invariants ------------------------------ *)

\* Outside the sweep a part that was brought up is configured as asked, or
\* something failed.
ImuInv == step \in {"start", "probe", "ranging", "done"} \union Recovering \/ failed \/ imu = Base

\* The magnetometer checks run only with a magnetometer that came up, which is
\* in its polled mode (or was left in the constants' one) outside the check of
\* its interrupt.
BeforeMag == {"start", "probe", "integrity", "regdiff", "mag"}
MagChecks == {"magpassive", "magdata", "degauss", "unset", "reversed", "undriven", "magdrdy", "magedges", "magpolled",
              "spinning", "spun"}
MagInv ==
    /\ step \in BeforeMag => ~magOk /\ mag = "foreign"
    /\ step \in {"fuse", "magintegrity"} => job.mag /\ mag \in {"polled", "fuse"}
    /\ step \in MagChecks => magOk
    /\ magOk => job.mag /\ (step \in {"magedges", "magpolled", "done"} \/ failed
                                \/ mag \in {"polled", "fuse"})
    /\ ~magOk => step \in {"fuse", "magintegrity", "done"} \union Recovering \/ failed \/ mag = "foreign"

\* The drain has not taken the line yet, or has let go of it.
LineInv == step \in {"start", "probe", "drdy", "verdict", "write"} => line = "none"

\* Only a program that is over has an exit code, so in the middle of a run a RESET
\* that was reported to have failed has its SET still to come.
BridgeInv == LeftSet /\ (step # "done" => exit = "running")

\* The required groups that can have been graded when a check is entered, of
\* each list in the order of the run.
ImuGraded ==
    CASE step \in {"start", "probe"} -> 0
      [] step \in {"integrity", "regdiff", "mag", "fuse", "magintegrity", "open", "rate"} -> 1
      [] step = "sequence" -> 2
      [] step = "clock" -> 3
      [] step = "errors" -> 4
      [] step \in {"fifo", "rest"} -> 5
      [] step = "temp" -> 6
      [] step \in {"direct", "park", "drdy", "resume", "magpassive", "magdata", "degauss", "unset",
                   "reversed", "undriven", "magdrdy", "magedges", "magpolled", "sweep", "ranging"} -> 7
      [] step = "selftest" -> 8
      [] step \in {"faces", "facing"} -> 9
      [] step \in {"gyro", "bias", "turning"} -> 10
      [] OTHER -> 11
MagGraded ==
    CASE step \in BeforeMag -> 0
      [] step = "magdata" -> 2
      [] step \in {"fuse", "magintegrity", "open", "rate", "sequence", "clock", "errors", "fifo",
                   "rest", "temp", "direct", "park", "drdy", "resume", "magpassive"} -> 1
      [] step \in {"after", "close", "verdict", "write", "done"} -> 4
      [] OTHER -> 3
ClearInv ==
    /\ clear \in Nat /\ failed \in BOOLEAN /\ job.mag \in BOOLEAN
    /\ clear <= ImuGraded + (IF job.mag THEN MagGraded ELSE 0)

VerdictInv == RecommendationEarned /\ (step \notin {"write", "done"} => ~verdict.recommend)

TestInv == ImuInv /\ MagInv /\ LineInv /\ BridgeInv /\ ClearInv /\ VerdictInv

\* A group adds at most one to the count, and a failure is never forgotten.
LEMMA GradeAdds ==
    ASSUME clear \in Nat, failed \in BOOLEAN, NEW group, NEW grades, Grade(group, grades)
    PROVE  /\ clear' \in Nat /\ clear' <= clear + 1
           /\ failed' \in BOOLEAN /\ (failed => failed')
           /\ grades \subseteq {"fail", "other"} => failed'
<1>1. PICK g \in grades : /\ clear' = IF g \in {"pass", "other"} THEN clear + 1 ELSE clear
                          /\ failed' = (failed \/ g \in {"fail", "other"})
  BY DEF Grade
<1>2. clear' \in Nat /\ clear' <= clear + 1
  BY <1>1
<1>3. failed' \in BOOLEAN /\ (failed => failed')
  BY <1>1
<1> QED BY <1>1, <1>2, <1>3

\* The required groups are as many as there are names: eleven of the inertial
\* part, four of the magnetometer.
LEMMA RequiredCount ==
    ASSUME job.mag \in BOOLEAN
    PROVE  Cardinality(Required) = 11 + (IF job.mag THEN 4 ELSE 0)
<1> DEFINE i1 == {"bringup"}  i2 == i1 \union {"rate"}  i3 == i2 \union {"sequence"}
           i4 == i3 \union {"clock"}  i5 == i4 \union {"errors"}  i6 == i5 \union {"noise"}
           i7 == i6 \union {"temp"}  i8 == i7 \union {"scale"}  i9 == i8 \union {"selftest"}
           i10 == i9 \union {"frame"}  i11 == i10 \union {"turns"}
           m1 == i11 \union {"magbringup"}  m2 == m1 \union {"magrate"}
           m3 == m2 \union {"magdata"}  m4 == m3 \union {"magspin"}
<1>1. IsFiniteSet({}) /\ Cardinality({}) = 0
  BY FS_EmptySet
<1>2. \A S, x : IsFiniteSet(S) /\ x \notin S =>
          IsFiniteSet(S \union {x}) /\ Cardinality(S \union {x}) = Cardinality(S) + 1
  BY FS_AddElement
<1>3. IsFiniteSet(i1) /\ Cardinality(i1) = 1
  BY <1>1, <1>2, {} \union {"bringup"} = i1
<1>4. IsFiniteSet(i2) /\ Cardinality(i2) = 2
  <2>1. "rate" \notin i1
    OBVIOUS
  <2> HIDE DEF i1
  <2> QED BY <1>2, <1>3, <2>1
<1>5. IsFiniteSet(i3) /\ Cardinality(i3) = 3
  <2>1. "sequence" \notin i2
    OBVIOUS
  <2> HIDE DEF i2
  <2> QED BY <1>2, <1>4, <2>1
<1>6. IsFiniteSet(i4) /\ Cardinality(i4) = 4
  <2>1. "clock" \notin i3
    OBVIOUS
  <2> HIDE DEF i3
  <2> QED BY <1>2, <1>5, <2>1
<1>7. IsFiniteSet(i5) /\ Cardinality(i5) = 5
  <2>1. "errors" \notin i4
    OBVIOUS
  <2> HIDE DEF i4
  <2> QED BY <1>2, <1>6, <2>1
<1>8. IsFiniteSet(i6) /\ Cardinality(i6) = 6
  <2>1. "noise" \notin i5
    OBVIOUS
  <2> HIDE DEF i5
  <2> QED BY <1>2, <1>7, <2>1
<1>9. IsFiniteSet(i7) /\ Cardinality(i7) = 7
  <2>1. "temp" \notin i6
    OBVIOUS
  <2> HIDE DEF i6
  <2> QED BY <1>2, <1>8, <2>1
<1>10. IsFiniteSet(i8) /\ Cardinality(i8) = 8
  <2>1. "scale" \notin i7
    OBVIOUS
  <2> HIDE DEF i7
  <2> QED BY <1>2, <1>9, <2>1
<1>11. IsFiniteSet(i9) /\ Cardinality(i9) = 9
  <2>1. "selftest" \notin i8
    OBVIOUS
  <2> HIDE DEF i8
  <2> QED BY <1>2, <1>10, <2>1
<1>12. IsFiniteSet(i10) /\ Cardinality(i10) = 10
  <2>1. "frame" \notin i9
    OBVIOUS
  <2> HIDE DEF i9
  <2> QED BY <1>2, <1>11, <2>1
<1>13. IsFiniteSet(i11) /\ Cardinality(i11) = 11
  <2>1. "turns" \notin i10
    OBVIOUS
  <2> HIDE DEF i10
  <2> QED BY <1>2, <1>12, <2>1
<1>14. IsFiniteSet(m1) /\ Cardinality(m1) = 12
  <2>1. "magbringup" \notin i11
    OBVIOUS
  <2> HIDE DEF i11
  <2> QED BY <1>2, <1>13, <2>1
<1>15. IsFiniteSet(m2) /\ Cardinality(m2) = 13
  <2>1. "magrate" \notin m1
    OBVIOUS
  <2> HIDE DEF m1
  <2> QED BY <1>2, <1>14, <2>1
<1>16. IsFiniteSet(m3) /\ Cardinality(m3) = 14
  <2>1. "magdata" \notin m2
    OBVIOUS
  <2> HIDE DEF m2
  <2> QED BY <1>2, <1>15, <2>1
<1>17. IsFiniteSet(m4) /\ Cardinality(m4) = 15
  <2>1. "magspin" \notin m3
    OBVIOUS
  <2> HIDE DEF m3
  <2> QED BY <1>2, <1>16, <2>1
<1>18. ImuRequired = i11 /\ ImuRequired \union MagRequired = m4
  BY DEF ImuRequired, MagRequired
<1>19. Cardinality(ImuRequired) = 11 /\ Cardinality(ImuRequired \union MagRequired) = 15
  <2> HIDE DEF i11, m4
  <2> QED BY <1>13, <1>17, <1>18
<1>20. CASE job.mag
  BY <1>19, <1>20 DEF Required
<1>21. CASE ~job.mag
  <2>1. ImuRequired \union {} = ImuRequired
    OBVIOUS
  <2> QED BY <1>19, <1>21, <2>1 DEF Required
<1> QED BY <1>20, <1>21

\* Every check, prompt and signal keeps it.
LEMMA TestSteps == ASSUME TestInv, TestNext PROVE TestInv'
<1> USE DEF Recovering, TestInv, ImuInv, MagInv, LineInv, BridgeInv, LeftSet, ClearInv, ImuGraded, MagGraded,
            VerdictInv, RecommendationEarned, BeforeMag, MagChecks, Goto, Grade, Aside, Any,
            Graded, part, report, outcome, Required
<1>1. CASE Refused
  BY <1>1 DEF Refused
<1>2. CASE Begin
  BY <1>2 DEF Begin
<1>3. ASSUME RecoverBegin \/ RecoverReset \/ RecoverSet \/ RecoverEnd PROVE TestInv'
  <2>1. /\ step \in {"start"} \union Recovering /\ step' \in {"done"} \union Recovering
        /\ UNCHANGED <<job, aborted, imu, line, clear, failed, phasesRun, magOk, verdict>>
    BY <1>3 DEF RecoverBegin, RecoverReset, RecoverSet, RecoverEnd, Recover
  <2>2. BridgeInv'
    BY <1>3 DEF RecoverBegin, RecoverReset, RecoverSet, RecoverEnd, Recover, Pulse
  <2>3. ImuInv' /\ LineInv'
    BY <2>1
  <2>4. MagInv'
    BY <2>1, <1>3 DEF RecoverBegin, RecoverReset, RecoverSet, RecoverEnd, Recover
  <2>5. ClearInv'
    BY <2>1
  <2>6. VerdictInv'
    <3>1. Required' = Required
      BY <2>1
    <3>2. ~verdict.recommend /\ verdict' = verdict
      BY <2>1
    <3> QED BY <3>1, <3>2
  <2> QED BY <2>2, <2>3, <2>4, <2>5, <2>6
<1>4. CASE BringUp
  <2>1. /\ step = "probe"
        /\ UNCHANGED <<job, aborted, mag, bridge, misfired, line, phasesRun, magOk, verdict, exit>>
    BY <1>4 DEF BringUp
  <2>2. CASE step' = "verdict" /\ Grade("bringup", {"fail"})
    <3>1. clear' \in Nat /\ clear' <= clear + 1 /\ failed'
      BY <2>2, GradeAdds
    <3> QED BY <2>1, <2>2, <3>1
  <2>3. CASE step' = "integrity" /\ imu' = Base /\ Grade("bringup", {"pass", "fail"})
    BY <2>1, <2>3
  <2> QED BY <1>4, <2>2, <2>3 DEF BringUp
<1>5. CASE Integrity
  BY <1>5 DEF Integrity
<1>6. CASE RegDiff
  BY <1>6 DEF RegDiff
<1>7. CASE BringUpMag
  BY <1>7 DEF BringUpMag
<1>8. CASE FuseRom
  BY <1>8 DEF FuseRom
<1>9. CASE MagIntegrity
  BY <1>9 DEF MagIntegrity
<1>10. CASE DrainInit
  BY <1>10 DEF DrainInit, Want
<1>11. CASE Rate
  BY <1>11 DEF Rate
<1>12. CASE Sequence
  BY <1>12 DEF Sequence
<1>13. CASE Clock
  BY <1>13 DEF Clock
<1>14. CASE ErrorContract
  BY <1>14 DEF ErrorContract
<1>15. CASE Fifo
  BY <1>15 DEF Fifo
<1>16. CASE Rest
  BY <1>16 DEF Rest
<1>17. CASE Temperature
  BY <1>17 DEF Temperature
<1>18. CASE DirectVsFifo
  BY <1>18 DEF DirectVsFifo
<1>19. CASE Park
  BY <1>19 DEF Park
<1>20. CASE Drdy
  BY <1>20 DEF Drdy, Any, Graded
<1>21. CASE Resume
  BY <1>21 DEF Resume
<1>22. CASE MagRate
  BY <1>22 DEF MagRate, Pulse
<1>23. CASE MagData
  BY <1>23 DEF MagData
<1>24. ASSUME DegaussSet \/ DegaussReset \/ DegaussEnd PROVE TestInv'
  <2>1. CASE DegaussSet
    BY <2>1 DEF DegaussSet, Pulse
  <2>2. CASE DegaussReset
    BY <2>2 DEF DegaussReset, Pulse
  <2>3. CASE DegaussEnd
    BY <2>3 DEF DegaussEnd, Pulse
  <2> QED BY <1>24, <2>1, <2>2, <2>3
<1>25. CASE MagIrq
  BY <1>25 DEF MagIrq
<1>26. CASE MagEdges
  BY <1>26 DEF MagEdges
<1>27. CASE MagPolled
  BY <1>27 DEF MagPolled
<1>28. CASE SweepBegin
  BY <1>28 DEF SweepBegin
<1>29. CASE SweepRange
  BY <1>29 DEF SweepRange
<1>30. CASE SweepEnd
  <2>1. /\ step = "ranging" /\ step' = "selftest"
        /\ UNCHANGED <<job, aborted, mag, bridge, misfired, line, phasesRun, magOk, verdict, exit>>
    BY <1>30 DEF SweepEnd
  <2>2. PICK ok \in BOOLEAN :
            Restored(ok) /\ Grade("scale", IF ok THEN {"pass"} ELSE {"other"})
    BY <1>30 DEF SweepEnd
  <2>3. clear' \in Nat /\ clear' <= clear + 1 /\ failed' \in BOOLEAN /\ (failed => failed')
    BY <2>2, GradeAdds
  <2>4. imu' = Base \/ failed'
    BY <2>2 DEF Restored
  <2> QED BY <2>1, <2>3, <2>4
<1>31. CASE SelfTest
  <2>1. /\ step = "selftest" /\ step' = "faces"
        /\ UNCHANGED <<job, aborted, mag, bridge, misfired, line, magOk, verdict, exit>>
    BY <1>31 DEF SelfTest
  <2>2. CASE imu' = imu /\ Grade("selftest", {"pass"})
    BY <2>1, <2>2
  <2>3. ASSUME NEW ok \in BOOLEAN, Restored(ok),
               Grade("selftest", IF ok THEN Graded ELSE {"fail", "other"})
        PROVE  TestInv'
    <3>1. clear' \in Nat /\ clear' <= clear + 1 /\ failed' \in BOOLEAN /\ (failed => failed')
      BY <2>3, GradeAdds
    <3>2. imu' = Base \/ failed'
      BY <2>3 DEF Restored
    <3> QED BY <2>1, <3>1, <3>2
  <2> QED BY <1>31, <2>2, <2>3 DEF SelfTest
<1>32. CASE EnterFaces
  BY <1>32 DEF EnterFaces, Enter, Want, Stopped
<1>33. CASE EnterTurns
  BY <1>33 DEF EnterTurns, Enter, Want, Stopped
<1>34. CASE EnterSpin
  BY <1>34 DEF EnterSpin, Enter, Want, Stopped
<1>35. CASE PassFaces
  BY <1>35 DEF PassFaces, PassOver, Want, Stopped
<1>36. CASE PassTurns
  BY <1>36 DEF PassTurns, PassOver, Want, Stopped
<1>37. CASE PassSpin
  BY <1>37 DEF PassSpin, PassOver, Want, Stopped
<1>38. CASE FacesDone
  <2>1. /\ step = "facing" /\ step' = "gyro"
        /\ UNCHANGED <<job, aborted, imu, mag, bridge, misfired, line, phasesRun, magOk, verdict, exit>>
    BY <1>38 DEF FacesDone
  <2>2. PICK grades : Grade("frame", grades)
    BY <1>38 DEF FacesDone
  <2>3. clear' \in Nat /\ clear' <= clear + 1 /\ failed' \in BOOLEAN /\ (failed => failed')
    BY <2>2, GradeAdds
  <2> QED BY <2>1, <2>3
<1>39. CASE GyroBias
  BY <1>39 DEF GyroBias
<1>40. CASE TurnsDone
  <2>1. /\ step = "turning" /\ step' = "spin"
        /\ UNCHANGED <<job, aborted, imu, mag, bridge, misfired, line, phasesRun, magOk, verdict, exit>>
    BY <1>40 DEF TurnsDone
  <2>2. PICK grades : Grade("turns", grades)
    BY <1>40 DEF TurnsDone
  <2>3. clear' \in Nat /\ clear' <= clear + 1 /\ failed' \in BOOLEAN /\ (failed => failed')
    BY <2>2, GradeAdds
  <2> QED BY <2>1, <2>3
<1>41. CASE SpinWithout
  BY <1>41 DEF SpinWithout
<1>42. CASE SpinDone
  BY <1>42 DEF SpinDone
<1>43. CASE RegsAfterRun
  BY <1>43 DEF RegsAfterRun
<1>44. CASE Close
  BY <1>44 DEF Close
<1>45. CASE Verdict
  <2>1. /\ step = "verdict" /\ step' = "write"
        /\ UNCHANGED <<job, aborted, imu, mag, bridge, misfired, line, clear, failed, phasesRun,
                       magOk, exit>>
    BY <1>45 DEF Verdict
  <2>2. verdict'.recommend => Complete /\ ~(clear < Cardinality(Required))
    BY <1>45 DEF Verdict, Blocked
  <2>3. Cardinality(Required) = 11 + (IF job.mag THEN 4 ELSE 0) /\ Required' = Required
    BY <2>1, RequiredCount
  <2>4. verdict'.recommend => clear = Cardinality(Required)
    BY <2>1, <2>2, <2>3
  <2> HIDE DEF Required
  <2>5. RecommendationEarned'
    BY <2>1, <2>2, <2>3, <2>4 DEF Complete
  <2> QED BY <2>1, <2>5
<1>46. CASE Write
  BY <1>46 DEF Write
<1>47. CASE Face
  BY <1>47 DEF Face
<1>48. CASE Turn
  BY <1>48 DEF Turn
<1>49. CASE Spin
  BY <1>49 DEF Spin
<1>50. CASE Signal
  BY <1>50 DEF Signal
<1>51. ASSUME NEW here \in {"facing", "turning", "spinning"},
              NEW there \in {"gyro", "spin", "after"}, AbortAt(here, there),
              <<here, there>> \in {<<"facing", "gyro">>, <<"turning", "spin">>,
                                   <<"spinning", "after">>}
       PROVE  TestInv'
  BY <1>51 DEF AbortAt
<1>52. CASE \/ AbortAt("facing", "gyro") \/ AbortAt("turning", "spin")
            \/ AbortAt("spinning", "after")
  BY <1>51, <1>52
<1>55. CASE Die
  BY <1>55 DEF Die
<1> HIDE DEF TestInv
<1>53. CASE Program
  BY <1>1, <1>2, <1>3, <1>4, <1>5, <1>6, <1>7, <1>8, <1>9, <1>10, <1>11, <1>12,
     <1>13, <1>14, <1>15, <1>16, <1>17, <1>18, <1>19, <1>20, <1>21, <1>22, <1>23, <1>24,
     <1>25, <1>26, <1>27, <1>28, <1>29, <1>30, <1>31, <1>32, <1>33, <1>34, <1>35, <1>36,
     <1>37, <1>38, <1>39, <1>40, <1>41, <1>42, <1>43, <1>44, <1>45, <1>46, <1>53, Zenon
     DEF Program
<1>54. CASE Operator
  BY <1>47, <1>48, <1>49, <1>52, <1>54, Zenon DEF Operator
<1> QED BY <1>50, <1>53, <1>54, <1>55, Zenon DEF TestNext

\* Initially nothing was configured, taken or graded.
LEMMA TestInitHolds == ASSUME TestInit PROVE TestInv
<1>1. job.mag \in BOOLEAN
  BY DEF TestInit
<1>2. step = "start" /\ ~magOk /\ mag = "foreign" /\ line = "none" /\ bridge = "unknown"
      /\ clear = 0 /\ failed = FALSE /\ ~verdict.recommend /\ exit = "running"
  BY DEF TestInit, Unsaid
<1>3. ImuInv /\ MagInv /\ LineInv /\ BridgeInv
  BY <1>2 DEF ImuInv, MagInv, LineInv, BridgeInv, LeftSet, BeforeMag, MagChecks, Recovering
<1>4. ClearInv
  <2>1. ImuGraded = 0 /\ MagGraded = 0
    BY <1>2 DEF ImuGraded, MagGraded, BeforeMag
  <2>2. clear <= ImuGraded + (IF job.mag THEN MagGraded ELSE 0)
    BY <1>2, <2>1
  <2> QED BY <1>1, <1>2, <2>2 DEF ClearInv
<1>5. VerdictInv
  BY <1>2 DEF VerdictInv, RecommendationEarned
<1> QED BY <1>3, <1>4, <1>5 DEF TestInv

LEMMA TestStutters == ASSUME TestInv, UNCHANGED testVars PROVE TestInv'
<1>1. UNCHANGED <<step, job, aborted, imu, mag, bridge, line, clear, failed, phasesRun, magOk,
                  verdict, exit, misfired>>
  BY DEF testVars, part, report, outcome
<1>2. (ImuInv /\ MagInv /\ LineInv /\ BridgeInv)'
  BY <1>1 DEF TestInv, ImuInv, MagInv, LineInv, BridgeInv, LeftSet, BeforeMag, MagChecks, Recovering
<1>3. ClearInv'
  BY <1>1 DEF TestInv, ClearInv, ImuGraded, MagGraded, BeforeMag
<1>4. VerdictInv'
  BY <1>1 DEF TestInv, VerdictInv, RecommendationEarned, Required
<1> QED BY <1>2, <1>3, <1>4 DEF TestInv

LEMMA TestInvHolds == TestSpec => []TestInv
<1>1. TestInv /\ [TestNext]_testVars => TestInv'
  BY TestSteps, TestStutters
<1> QED BY TestInitHolds, <1>1, PTL DEF TestSpec

\* Whatever the part answers, for any ranges, orientations and rotations, and
\* also when a signal or an abort comes in the middle of a check: every check
\* measures the part as it was configured or the report already says that
\* something failed, the interrupt line is free when its edges are counted and
\* given back before the report, and the magnetometer is reset only between the two pulses,
\* or because the program was killed there, or because the last pulse reported as
\* failed was the SET, or was the RESET of a --degauss that says so (check_fs_sweep,
\* check_self_test, mag_restore_polled, drain_gpio_park, check_mag_degauss,
\* imt_degauss).
THEOREM LeftAsFoundHolds == TestSpec => []LeftAsFound
<1>1. TestInv => MeasuredAsConfigured
  BY DEF TestInv, ImuInv, MagInv, MagChecks, MeasuredAsConfigured, Measuring, Recovering
<1>2. TestInv => LineFree /\ LeftSet
  BY DEF TestInv, LineInv, BridgeInv, LineFree
<1>3. TestInv => LeftAsFound
  BY <1>1, <1>2 DEF LeftAsFound
<1> QED BY <1>3, TestInvHolds, PTL

\* A recommendation comes only from a run that did every phase and passed every
\* required check of the parts it had, without an abort or a failure, on a part
\* left configured (imt_decide_verdict).
THEOREM RecommendationEarnedHolds == TestSpec => []RecommendationEarned
<1>1. TestInv => RecommendationEarned
  BY DEF TestInv, VerdictInv
<1> QED BY <1>1, TestInvHolds, PTL

=============================================================================
