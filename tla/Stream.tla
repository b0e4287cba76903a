--------------------------------- MODULE Stream ---------------------------------
(***************************************************************************)
(* The stream service and one program that uses it: the table of           *)
(* Subscribers, composed with the client library's handle                  *)
(* (src/lib/libimud.c: dial, imud_read) and the way every bridge holds one *)
(* (src/src/bridge.c: bridge_stream_ensure, bridge_stream_drop).  The      *)
(* other clients of the table stay what they are in Subscribers.           *)
(*                                                                         *)
(* A packet is Payload units, sent in order; the unit's number stands for  *)
(* its bytes.  What the bridge has not read outlives the daemon's close.   *)
(***************************************************************************)
EXTENDS Subscribers

CONSTANT Bridge
ASSUME BridgeAssumption == Bridge \in Clients

VARIABLES
    linked,     \* the handle has a socket: h->fd >= 0
    rx,         \* the units of the frame being collected: h->rx, h->rx_got
    pipe,       \* units on their way to the bridge
    owed        \* history: packets the daemon sent whole, less those delivered

handle == <<linked, rx, pipe, owed>>
allVars == <<vars, handle>>

StreamInit ==
    /\ Init
    /\ linked = FALSE /\ rx = <<>> /\ pipe = <<>> /\ owed = 0

Units(k) == [u \in 1 .. k |-> u]
Least(a, b) == IF a < b THEN a ELSE b

(* -------------------------------- mutants -------------------------------- *)

\* A bug the checks must notice: a hang-up acted on before what came ahead of it
\* was read.
HangUpFirst ==
    /\ linked /\ conn[Bridge] = "away"
    /\ linked' = FALSE
    /\ UNCHANGED <<vars, rx, pipe, owed>>

(* -------------------------- the daemon's side --------------------------- *)

\* What the send of this step puts on the bridge's connection: nothing when it
\* is for another client, or the bridge is gone.
Given ==
    IF fds[i] # Bridge \/ hung[Bridge] THEN 0 ELSE Least(Free(Bridge), Payload)
Give ==
    /\ pipe' = pipe \o Units(Given)
    /\ owed' = IF Given = Payload THEN owed + 1 ELSE owed
    /\ UNCHANGED <<linked, rx>>

Serve ==
    \/ (SendAll \/ SendFull \/ SendDrops \/ FinalLocal) /\ Give
    \/ /\ \/ Sleep \/ SendDone \/ CloseAll \/ Stop
          \/ \E c \in Clients : Accept(c) \/ Reject(c)
          \/ \E settled \in BOOLEAN : Accepted(settled)
       /\ UNCHANGED handle

(* ---------------------------- the bridge's side -------------------------- *)

\* imud_connect_stream, imud_reconnect: a socket, connected while there is a
\* listener, and an empty frame.
Dial ==
    /\ ~linked /\ pc # "exit" /\ Connect(Bridge)
    /\ linked' = TRUE /\ rx' = <<>> /\ pipe' = <<>> /\ owed' = 0

\* One read of imud_read: what there is, up to the end of the frame.  A full
\* frame is delivered when packet_ok accepts it.  The deadline may pass before
\* any of them, which changes nothing: rx waits for the next call.
Fill ==
    /\ linked
    /\ \E k \in 1 .. Least(Len(pipe), Payload - Len(rx)) :
        LET got == rx \o SubSeq(pipe, 1, k) IN
        /\ pipe' = SubSeq(pipe, k + 1, Len(pipe))
        /\ rx' = IF Len(got) = Payload THEN <<>> ELSE got
        /\ owed' = IF got = Units(Payload) THEN owed - 1 ELSE owed
        /\ buf' = [buf EXCEPT ![Bridge] = IF conn[Bridge] = "open" THEN @ - k ELSE @]
    /\ UNCHANGED <<pc, stop, table, i, conn, hung, local, took, tried, linked>>

\* read() returns 0: the daemon closed, and everything before it was read.
\* The bridge drops the handle and will dial again.
Eof ==
    /\ linked /\ conn[Bridge] = "away" /\ pipe = <<>>
    /\ linked' = FALSE
    /\ UNCHANGED <<vars, rx, pipe, owed>>

\* The bridge ends or is killed with the connection up; its next start dials.
Quit ==
    /\ linked /\ HangUp(Bridge)
    /\ linked' = FALSE /\ rx' = <<>> /\ pipe' = <<>> /\ owed' = 0

Others ==
    /\ pc # "exit" /\ \E c \in Clients \ {Bridge} : Connect(c) \/ Read(c) \/ HangUp(c)
    /\ UNCHANGED handle
AllDone == pc = "exit" /\ stop /\ ~linked /\ UNCHANGED allVars

StreamNext == Serve \/ Dial \/ Fill \/ Eof \/ Quit \/ Others \/ AllDone

StreamSpec == StreamInit /\ [][StreamNext]_allVars

-----------------------------------------------------------------------------

\* The frame the library collects and what follows it are whole packets, the
\* last one cut short at most: wherever reads split the stream, whatever the
\* daemon could not send, across every reconnection.  A stream that is out of
\* step fails every CRC from there on, and the library reports nothing.
Aligned ==
    linked => \A k \in DOMAIN (rx \o pipe) : (rx \o pipe)[k] = 1 + ((k - 1) % Payload)

\* Every packet the daemon took as sent is delivered to the program before its
\* handle reports the end of the stream, unless the program itself goes away.
DeliveredFirst ==
    [][linked /\ ~linked' /\ ~hung'[Bridge] => owed = 0]_allVars
=============================================================================
