-------------------------------- MODULE Bridges --------------------------------
(***************************************************************************)
(* The programs that republish the stream: the loop shared by              *)
(* imud-signalk, imud-influxdb, imud-mavlink, imud-mqtt and                *)
(* imud-prometheus (src/src/bridge.c and the five *_main.c), with what     *)
(* each adds to it: the UDP destination and its reload, the retained       *)
(* topics of a broker that comes and goes on a thread of its own           *)
(* (mqtt_publish.c), the one scrape served at a time (prom_http.c).        *)
(*                                                                         *)
(* The connection to the daemon is Stream's; here it is up, cut or absent. *)
(* A sample is the set of gated topics it allows.  Ticks come when they    *)
(* come.  The outputs over TCP are tables of Subscribers.  The broker      *)
(* receives what is published while it is connected and nothing else:      *)
(* quality of service 0, the configuration's default.                      *)
(***************************************************************************)
EXTENDS FiniteSets

CONSTANTS
    Kinds,       \* which of the programs are considered
    Dests,       \* destinations of the UDP output
    Prefixes,    \* topic prefixes
    Topics,      \* topics a gate may withhold
    NoSocket

Programs == {"signalk", "influx", "mavlink", "mqtt", "prom"}
ASSUME BridgeAssumption ==
    Kinds \subseteq Programs /\ NoSocket \notin Dests /\ Dests # {} /\ Prefixes # {}

VARIABLES
    kind, pc,
    cfg, udp,        \* the configuration in force; the UDP output was opened at the start
    fd,              \* where the UDP socket sends
    stop, reload,    \* bridge_stop, bridge_reload
    asked,           \* history: a SIGHUP came after the file was last read
    daemon,          \* the daemon listens
    stream,          \* none, up, cut
    have, latest,    \* have_pkt, latest
    own,             \* history: latest came over the connection that is up
    broker,          \* down, up without its callback yet, up
    resync,          \* ctx.resync
    live, primed,    \* kept.live, kept.primed
    held,            \* values the broker retains, with their prefix
    moved,           \* history: the prefix changed without a restart
    scrape           \* none, open, late: prom_conn_t and its deadline

config == <<cfg, udp, fd, moved>>
link == <<stream, have, latest, own>>
mqtt == <<broker, resync, live, primed, held>>
signals == <<stop, reload, asked>>
vars == <<kind, pc, config, signals, daemon, link, mqtt, scrape>>

HasUdp == kind \in {"signalk", "influx", "mavlink"}

\* The settings that matter to a program; the rest keep one value.
Files(k) ==
    {f \in [udp : BOOLEAN, dest : Dests, retain : BOOLEAN, prefix : Prefixes] :
        /\ k \notin {"signalk", "influx", "mavlink"} =>
               ~f.udp /\ f.dest = (CHOOSE d \in Dests : TRUE)
        /\ k # "mqtt" => ~f.retain /\ f.prefix = (CHOOSE p \in Prefixes : TRUE)}

Init ==
    /\ kind \in Kinds /\ pc = "start" /\ cfg \in Files(kind)
    /\ udp = FALSE /\ fd = NoSocket /\ moved = FALSE
    /\ stop = FALSE /\ reload = FALSE /\ asked = FALSE
    /\ daemon \in BOOLEAN /\ stream = "none"
    /\ have = FALSE /\ latest = {} /\ own = FALSE
    /\ broker = "down" /\ resync = FALSE /\ live = {} /\ primed = FALSE
    /\ held \in IF kind = "mqtt" THEN SUBSET (Prefixes \X Topics) ELSE {{}}
    /\ scrape = "none"

Go(next) == pc' = next /\ UNCHANGED kind

(* -------------------------------- mutants -------------------------------- *)

\* Bugs the checks must notice: an output enable copied on reload, a broken
\* connection kept, and a callback that does not ask for a resync.
EnableCopied(nc) == nc
LostKeepsHandle ==
    /\ pc = "read" /\ stream = "cut" /\ have' = FALSE /\ Go("top")
    /\ UNCHANGED <<config, signals, daemon, stream, latest, own, mqtt, scrape>>
CallbackForgets ==
    /\ broker = "joining" /\ broker' = "up"
    /\ UNCHANGED <<kind, pc, config, signals, daemon, link, resync, live, primed, held, scrape>>

(* --------------------------- start and signals --------------------------- *)

\* main up to its loop: a program disabled in its configuration, or whose
\* output cannot be opened, ends here.
Start ==
    /\ pc = "start"
    /\ \/ /\ Go("top") /\ udp' = cfg.udp
          /\ fd' = IF cfg.udp THEN cfg.dest ELSE NoSocket
       \/ Go("exit") /\ UNCHANGED <<udp, fd>>
    /\ UNCHANGED <<cfg, moved, signals, daemon, link, mqtt, scrape>>

\* on_signal, at any moment.
OnSignal ==
    /\ pc \notin {"start", "exit"}
    /\ \/ stop' = TRUE /\ UNCHANGED <<reload, asked>>
       \/ reload' = TRUE /\ asked' = TRUE /\ UNCHANGED stop
    /\ UNCHANGED <<kind, pc, config, daemon, link, mqtt, scrape>>

(* -------------------------------- the loop ------------------------------- *)

\* The loop's test, and bridge_reload_begin, which takes the flag first.
Top ==
    /\ pc = "top" /\ reload' = (reload /\ stop)
    /\ Go(IF stop THEN "exit" ELSE IF reload THEN "load" ELSE "link")
    /\ UNCHANGED <<config, stop, asked, daemon, link, mqtt, scrape>>

\* A file that does not parse keeps the configuration.
LoadFails ==
    /\ pc = "load" /\ asked' = FALSE /\ Go("link")
    /\ UNCHANGED <<config, stop, reload, daemon, link, mqtt, scrape>>

\* imud-influxdb keeps the enable that was in force when the socket was opened.
Carried(nc) ==
    IF kind = "influx" THEN [nc EXCEPT !.udp = cfg.udp] ELSE nc

\* imud-mavlink goes by its sink's index, the other two by the configuration.
Sends == IF kind = "mavlink" THEN udp ELSE HasUdp /\ cfg.udp

\* A new destination is a new socket, and one that cannot be opened ends the
\* program; the rest is taken over, the topic prefix included.
Load ==
    /\ pc = "load" /\ asked' = FALSE
    /\ \E nc \in Files(kind) :
        LET moves == Sends /\ nc.dest # cfg.dest IN
        \/ /\ cfg' = Carried(nc) /\ Go("link")
           /\ fd' = IF moves THEN nc.dest ELSE fd
           /\ moved' = (moved \/ nc.prefix # cfg.prefix)
        \/ moves /\ Go("exit") /\ fd' = NoSocket /\ UNCHANGED <<cfg, moved>>
    /\ UNCHANGED <<udp, stop, reload, daemon, link, mqtt, scrape>>

\* bridge_stream_ensure: connected, or connected now, or a sleep that a signal
\* ends; imud-prometheus answers scrapes meanwhile.
Linked ==
    /\ pc = "link" /\ stream # "none" /\ Go("read")
    /\ UNCHANGED <<config, signals, daemon, link, mqtt, scrape>>
Connects ==
    /\ pc = "link" /\ stream = "none" /\ daemon
    /\ stream' = "up" /\ own' = FALSE /\ Go("read")
    /\ UNCHANGED <<config, signals, daemon, have, latest, mqtt, scrape>>
Unavailable ==
    /\ pc = "link" /\ stream = "none" /\ ~daemon
    /\ have' = FALSE /\ Go(IF kind = "prom" THEN "serve" ELSE "top")
    /\ UNCHANGED <<config, signals, daemon, stream, latest, own, mqtt, scrape>>

\* imud_read: a packet, the deadline, or the end of the connection.
After == IF kind = "prom" THEN "serve" ELSE "tick"
Packet ==
    /\ pc = "read" /\ stream = "up"
    /\ have' = TRUE /\ own' = TRUE /\ Go(After)
    /\ latest' \in IF kind = "mqtt" THEN SUBSET Topics ELSE {{}}
    /\ UNCHANGED <<config, signals, daemon, stream, mqtt, scrape>>
Timeout ==
    /\ pc = "read" /\ stream = "up" /\ Go(After)
    /\ UNCHANGED <<config, signals, daemon, link, mqtt, scrape>>
Lost ==
    /\ pc = "read" /\ stream = "cut"
    /\ stream' = "none" /\ have' = FALSE /\ Go("top")
    /\ UNCHANGED <<config, signals, daemon, latest, own, mqtt, scrape>>

\* The tick is not due, there is nothing to publish, or it goes out in one
\* datagram or frame.
Tick ==
    /\ pc = "tick" /\ Go("top")
    /\ UNCHANGED <<config, signals, daemon, link, mqtt, scrape>>

(* ------------------------------- imud-mqtt ------------------------------- *)

Retain(topics) == {<<cfg.prefix, t>> : t \in topics}
Online == broker # "down"

\* mqtt_build_state, each value retained or not by the configuration.
PublishState ==
    /\ kind = "mqtt" /\ pc = "tick" /\ have
    /\ held' = IF cfg.retain /\ Online THEN held \cup Retain(latest) ELSE held
    /\ Go(IF cfg.retain THEN "resync" ELSE "top")
    /\ UNCHANGED <<config, signals, daemon, link, broker, resync, live, primed, scrape>>

\* atomic_exchange(&ctx.resync, false).
TakeResync ==
    /\ pc = "resync" /\ resync' = FALSE /\ primed' = (primed /\ ~resync)
    /\ Go("clears")
    /\ UNCHANGED <<config, signals, daemon, link, broker, live, held, scrape>>

\* mqtt_build_clears: each topic withheld now that was published before, or
\* that an earlier run may have left.
Clears ==
    LET gone == {t \in Topics \ latest : t \in live \/ ~primed} IN
    /\ pc = "clears"
    /\ held' = IF Online THEN held \ Retain(gone) ELSE held
    /\ live' = latest /\ primed' = TRUE
    /\ Go("top")
    /\ UNCHANGED <<config, signals, daemon, link, broker, resync, scrape>>

\* libmosquitto's thread: the socket is up, later on_connect runs; a broker
\* that restarts may have forgotten what it retained.
BrokerComes ==
    /\ kind = "mqtt" /\ pc # "exit" /\ broker = "down" /\ broker' = "joining"
    /\ UNCHANGED <<kind, pc, config, signals, daemon, link, resync, live, primed, held, scrape>>
OnConnect ==
    /\ broker = "joining" /\ broker' = "up" /\ resync' = TRUE
    /\ UNCHANGED <<kind, pc, config, signals, daemon, link, live, primed, held, scrape>>
BrokerGoes ==
    /\ Online /\ broker' = "down" /\ held' \in {held, {}}
    /\ UNCHANGED <<kind, pc, config, signals, daemon, link, resync, live, primed, scrape>>

(* ---------------------------- imud-prometheus ---------------------------- *)

\* prom_conn_service: the request is complete and is answered, the client hung
\* up or sent too much, or it is waited for until its deadline.
Service ==
    /\ scrape # "none"
    /\ scrape' \in IF scrape = "late" THEN {"none"} ELSE {"open", "none"}

\* One pass of the scrape side: the connection it has, or the listener.  A poll
\* that a signal ends repeats the pass.
Serve ==
    /\ pc = "serve" /\ Go("top")
    /\ \/ Service
       \/ scrape = "none" /\ scrape' \in {"none", "open"}
    /\ UNCHANGED <<config, signals, daemon, link, mqtt>>
DeadlinePasses ==
    /\ scrape = "open" /\ scrape' = "late"
    /\ UNCHANGED <<kind, pc, config, signals, daemon, link, mqtt>>

(* --------------------------- the daemon, the rest ------------------------ *)

\* The daemon starts and stops, and drops a client that does not read.
DaemonTurns ==
    /\ pc # "exit" /\ daemon' = ~daemon
    /\ stream' = IF stream = "up" /\ daemon THEN "cut" ELSE stream
    /\ UNCHANGED <<kind, pc, config, signals, have, latest, own, mqtt, scrape>>
Cut ==
    /\ pc # "exit" /\ stream = "up" /\ stream' = "cut"
    /\ UNCHANGED <<kind, pc, config, signals, daemon, have, latest, own, mqtt, scrape>>

Done == pc = "exit" /\ UNCHANGED vars

Loop ==
    \/ Top \/ LoadFails \/ Load \/ Linked \/ Connects \/ Unavailable
    \/ Packet \/ Timeout \/ Lost \/ Tick
    \/ PublishState \/ TakeResync \/ Clears \/ Serve
Next ==
    \/ Start \/ OnSignal \/ Loop
    \/ BrokerComes \/ OnConnect \/ BrokerGoes
    \/ DeadlinePasses \/ DaemonTurns \/ Cut \/ Done

\* The loop blocks in nothing but waits that end, and time passes.
Spec == Init /\ [][Next]_vars /\ WF_vars(Loop) /\ WF_vars(DeadlinePasses)

-----------------------------------------------------------------------------

\* A SIGHUP after the file was edited is never lost, also when it arrives while
\* the file is being read: until the file is read again the flag stays up.
HangupHeard == asked => reload \/ pc \in {"load", "exit"}

\* What is published as current came over the connection that is up.
FromThisConnection == have => own /\ stream # "none"

\* imud-influxdb and imud-mavlink send where the configuration in force says,
\* if the output was enabled when they started, and otherwise nowhere, through
\* any sequence of reloads: the enables apply at a restart, the rest at once.
OutputAsStarted ==
    kind \in {"influx", "mavlink"} /\ pc \notin {"start", "exit"} =>
        fd = IF udp THEN cfg.dest ELSE NoSocket

\* Once the bridge and its broker agree that nothing is left to resynchronise,
\* the broker retains no value the bridge withholds: whatever was lost while
\* the broker was away, between any two steps, is cleared after it returns.
NothingStale ==
    kind = "mqtt" /\ pc \notin {"resync", "clears", "exit"} /\ ~moved =>
        (broker = "up" /\ ~resync /\ primed =>
            \A t \in Topics : <<cfg.prefix, t>> \in held => t \in live)

\* A bridge without a connection gets one while the daemon stays up.
Relinks ==
    pc = "top" /\ stream # "up" ~> stream = "up" \/ ~daemon \/ pc = "exit"

\* SIGTERM ends the program, whatever it is waiting for.
StopEnds == stop ~> pc = "exit"

\* A client that never completes its request does not keep the only place for
\* scrapes, with the daemon up or away.  A daemon that cuts every connection
\* before the first poll after it is the exception: the loop then starts over
\* each time without a look at the scrape.
ScrapeEnds ==
    []<>(pc = "serve") => (scrape # "none" ~> scrape = "none" \/ pc = "exit")

\* SIGHUP does what it promises: it is never lost, and moves what it may move.
ReloadsHonoured == HangupHeard /\ OutputAsStarted

\* Nothing out of date is offered as current: by the bridge, or by its broker.
NothingOutdated == FromThisConnection /\ NothingStale

\* What must happen in the end, whatever daemon, broker and scraper do.
BridgesProgress == Relinks /\ StopEnds /\ ScrapeEnds
=============================================================================
