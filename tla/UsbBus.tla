-------------------------------- MODULE UsbBus --------------------------------
(***************************************************************************)
(* Two sensors behind FT232H bridges (src/src/bus_ft232h.c over            *)
(* ft_usb_linux.c), opened by bus.c and closed again by the program's one  *)
(* main thread, and used by two reader threads in between.                 *)
(*                                                                         *)
(* A message is a stream of MPSSE commands sent in one or more flushes;    *)
(* commands that read leave replies in the bridge, to be collected after   *)
(* the flush.  Payload is a tag: the transfer, and its place in it.        *)
(***************************************************************************)
EXTENDS Integers, Sequences

CONSTANTS
    Nodes,      \* what the configuration may name: a bridge, a chip select or I2C, the I2C clock
    Spi,        \* what a sensor's SPI may be: a mode and a clock
    MaxDev,     \* bridges the table holds
    Transfers,  \* transfers to run
    UsbFaults,  \* USB calls that go wrong
    Kinds       \* the ways they do: "refused", "lost", "late"

ASSUME BusBoundsAssumption == MaxDev \in Nat \ {0} /\ Transfers \in Nat /\ UsbFaults \in Nat
ASSUME NodesAssumption ==
    /\ \A n \in Nodes : n.cs \in Nat /\ n.hz \in Nat
    /\ \A p \in Spi : p.mode \in Nat /\ p.hz \in Nat \ {0}

I2C == 9                        \* no chip select: the node asks for I2C
Sensors == {"imu", "mag"}
Slots == 1 .. MaxDev
Matches == {n.match : n \in Nodes}

VARIABLES
    want,   \* each sensor's node, and its SPI mode and clock
    main,   \* the main thread: opening, running, closing, done
    dev,    \* g_dev: the bridges that are open
    handle, \* g_handle: each sensor's
    lock,   \* who holds a bridge's lock
    xfer,   \* each reader's transfer
    usb,    \* the bridges themselves
    toCome  \* transfers and faults to come

busVars == <<want, main, dev, handle, lock, xfer, usb, toCome>>

NoDev == [refs |-> 0, match |-> "", proto |-> "none", hz |-> 0, spiHz |-> 0, mode |-> 0, upset |-> FALSE]
\* Commands not sent yet, in the order every message emits them: the divisor, the
\* level that selects the part, data and the replies it will bring, the level that
\* lets the part go.
NoCmds == [retune |-> FALSE, select |-> FALSE, data |-> FALSE, reply |-> <<>>, release |-> FALSE]
NoHandle == [used |-> FALSE, dev |-> 0, cs |-> I2C, mode |-> 0, hz |-> 0]
Resting == [pc |-> "rest", kind |-> "read", cmds |-> NoCmds, owed |-> 0, got |-> <<>>, toDo |-> 0, last |-> FALSE, rc |-> 0, id |-> 0]
Unplugged == [claimed |-> 0, clock |-> 0, sel |-> {}, replies |-> <<>>, wrong |-> FALSE, fast |-> FALSE]
Nobody == "nobody"

BusInit ==
    /\ want \in [Sensors -> [node : Nodes, spi : Spi]]
    /\ want["imu"].node.match = want["mag"].node.match => (want["imu"].node.cs = I2C \/ want["imu"].node.cs # want["mag"].node.cs)
    /\ main = [pc |-> "open", at |-> "imu"]
    /\ dev = [d \in Slots |-> NoDev] /\ handle = [s \in Sensors |-> NoHandle]
    /\ lock = [d \in Slots |-> Nobody] /\ xfer = [s \in Sensors |-> Resting]
    /\ usb = [m \in Matches |-> Unplugged] /\ toCome = [transfers |-> Transfers, faults |-> UsbFaults]

(* ------------------ (mutants of the definitions below) ------------------- *)

TakeLockFree(s) == TRUE
LetGoHolding(d, m) == [usb EXCEPT ![m].clock = 0]
BrokenRetries(x) == [x EXCEPT !.pc = "write"]

(* -------------------------------- faults --------------------------------- *)

Fault(kind) == kind \in Kinds /\ toCome.faults > 0 /\ toCome' = [toCome EXCEPT !.faults = @ - 1]
Fine == toCome' = toCome

(* ------------------------ opening (bus.c, open) -------------------------- *)

Proto(node) == IF node.cs = I2C THEN "i2c" ELSE "spi"
Named(node) == {d \in Slots : dev[d].refs > 0 /\ dev[d].match = node.match}
Free == {d \in Slots : dev[d].refs = 0}
FirstFree == CHOOSE d \in Free : \A e \in Free : d <= e

\* The next sensor to open, or the readers.
After(s) == IF s = "imu" THEN [pc |-> "open", at |-> "mag"] ELSE [pc |-> "run", at |-> "mag"]
GiveUp == [pc |-> "close", at |-> "imu"]

\* ft_usb_open: the interface is taken from the kernel's driver.  mpsse_init: the
\* engine is reset, emptied, and set to the protocol.
Claimed(u) == [u EXCEPT !.claimed = 1]
Configured(u, node) == [u EXCEPT !.replies = <<>>, !.sel = {}, !.clock = IF node.cs = I2C THEN node.hz ELSE 0]

Asked == want[main.at].node
Agrees(d) == dev[d].proto = Proto(Asked) /\ (Asked.cs = I2C => dev[d].hz = Asked.hz)
New == [NoDev EXCEPT !.match = Asked.match, !.proto = Proto(Asked), !.hz = Asked.hz]
Opened(s, d) ==
    /\ handle' = [handle EXCEPT ![s] = [NoHandle EXCEPT !.used = TRUE, !.dev = d, !.cs = Asked.cs]]
    /\ main' = IF Asked.cs = I2C THEN After(s) ELSE [main EXCEPT !.pc = "setup"]

\* The bridge is open already; or it is taken and set up; or it could not be, and is
\* closed again; or it is open for something else, or the table is full.
Share(d) ==
    /\ Agrees(d) /\ dev' = [dev EXCEPT ![d].refs = @ + 1] /\ Opened(main.at, d) /\ Fine /\ UNCHANGED usb
TakeOver(d) ==
    /\ Fine /\ dev' = [dev EXCEPT ![d] = [New EXCEPT !.refs = 1]] /\ Opened(main.at, d)
    /\ usb' = [usb EXCEPT ![Asked.match] = Configured(Claimed(@), Asked)]
Untaken(d) == Fault("refused") /\ dev' = [dev EXCEPT ![d] = New] /\ main' = GiveUp /\ UNCHANGED <<handle, usb>>
Unfit == main' = GiveUp /\ Fine /\ UNCHANGED <<dev, handle, usb>>

Open ==
    /\ main.pc = "open"
    /\ \/ \E d \in Named(Asked) : Share(d) \/ (~Agrees(d) /\ Unfit)
       \/ Named(Asked) = {} /\ Free # {} /\ (TakeOver(FirstFree) \/ Untaken(FirstFree))
       \/ Named(Asked) = {} /\ Free = {} /\ Unfit
    /\ UNCHANGED <<want, lock, xfer>>

\* ft232h_spi_setup, and open_spi's closing of a handle it could not set up.
Tuned(s, d, spi) ==
    /\ Fine /\ main' = After(s)
    /\ dev' = [dev EXCEPT ![d].spiHz = spi.hz, ![d].mode = spi.mode]
    /\ handle' = [handle EXCEPT ![s].hz = spi.hz, ![s].mode = spi.mode]
    /\ usb' = [usb EXCEPT ![dev[d].match].clock = spi.hz, ![dev[d].match].sel = {}]
\* A write that times out is taken for one that worked: the program believes in a
\* divisor the bridge never got.
Believed(s, d, spi) ==
    /\ Fault("lost") /\ main' = After(s) /\ UNCHANGED usb
    /\ dev' = [dev EXCEPT ![d].spiHz = spi.hz, ![d].mode = spi.mode, ![d].upset = TRUE]
    /\ handle' = [handle EXCEPT ![s].hz = spi.hz, ![s].mode = spi.mode]
Setup ==
    /\ main.pc = "setup"
    /\ LET d == handle[main.at].dev
           spi == want[main.at].spi
           fits == spi.mode \in {0, 2} /\ (dev[d].spiHz # 0 => dev[d].mode = spi.mode)
       IN \/ fits /\ (Tuned(main.at, d, spi) \/ Believed(main.at, d, spi))
          \/ fits /\ Fault("refused") /\ main' = GiveUp /\ UNCHANGED <<dev, handle, usb>>
          \/ ~fits /\ Unfit
    /\ UNCHANGED <<want, lock, xfer>>

\* ft232h_close: the last handle hands the bridge back.
LetGo(d, m) == [usb EXCEPT ![m] = [Unplugged EXCEPT !.wrong = usb[m].wrong, !.fast = usb[m].fast]]
Close ==
    /\ main.pc = "close"
    /\ LET s == main.at
           d == handle[s].dev
           lastOne == handle[s].used /\ dev[d].refs = 1
       IN /\ main' = IF s = "imu" THEN [main EXCEPT !.at = "mag"] ELSE [main EXCEPT !.pc = "done"]
          /\ handle' = [handle EXCEPT ![s] = NoHandle]
          /\ dev' = IF ~handle[s].used THEN dev ELSE IF lastOne THEN [dev EXCEPT ![d] = NoDev] ELSE [dev EXCEPT ![d].refs = @ - 1]
          /\ usb' = IF lastOne THEN LetGo(d, dev[d].match) ELSE usb
    /\ UNCHANGED <<want, lock, xfer, toCome>>

\* The readers are told to stop, and joined, before main closes.
Stop == main.pc = "run" /\ main' = [main EXCEPT !.pc = "join"] /\ UNCHANGED <<want, dev, handle, lock, xfer, usb, toCome>>
Joined ==
    /\ main.pc = "join" /\ \A s \in Sensors : xfer[s].pc = "rest"
    /\ main' = [pc |-> "close", at |-> "imu"] /\ UNCHANGED <<want, dev, handle, lock, xfer, usb, toCome>>

(* ------------------- transfers (i2c_xfer, spi_msg) ----------------------- *)

On(s) == dev[handle[s].dev]
IsI2C(s) == handle[s].cs = I2C
\* Pieces of the payload that need a flush of their own before them.
Pieces(kind) == IF kind = "long" THEN 2 ELSE 1
Tag(s, k) == <<xfer[s].id, k>>

\* What a transfer of the kind has to bring.
Due(s) == LET data == IF xfer[s].kind = "write" THEN <<>> ELSE [k \in 1 .. Pieces(xfer[s].kind) |-> Tag(s, k)]
          IN IF IsI2C(s) THEN <<Tag(s, 0)>> \o data ELSE data

\* The lock is the bridge's own.
MayTake(s) == lock[handle[s].dev] = Nobody
\* The divisor is sent when another handle's was the last one.
Retuned(s) == On(s).spiHz # handle[s].hz

\* A reader wants a transfer, and waits for the lock.
Ask(s) ==
    /\ main.pc = "run" /\ xfer[s].pc = "rest" /\ toCome.transfers > 0
    /\ toCome' = [toCome EXCEPT !.transfers = @ - 1]
    /\ \E kind \in {"read", "long", "write"} :
          xfer' = [xfer EXCEPT ![s] = [Resting EXCEPT !.pc = "ask", !.kind = kind, !.toDo = Pieces(kind), !.id = toCome.transfers]]
    /\ UNCHANGED <<want, main, dev, handle, lock, usb>>

Begin(s) ==
    /\ xfer[s].pc = "ask" /\ MayTake(s)
    /\ lock' = [lock EXCEPT ![handle[s].dev] = s]
    /\ xfer' = [xfer EXCEPT ![s].pc = "build", ![s].owed = IF IsI2C(s) THEN 1 ELSE 0,
          ![s].cmds = IF IsI2C(s) THEN [NoCmds EXCEPT !.data = TRUE, !.reply = <<Tag(s, 0)>>]
                      ELSE [NoCmds EXCEPT !.retune = Retuned(s), !.select = TRUE]]
    /\ dev' = IF IsI2C(s) \/ ~Retuned(s) THEN dev ELSE [dev EXCEPT ![handle[s].dev].spiHz = handle[s].hz]
    /\ UNCHANGED <<want, main, handle, usb, toCome>>

\* The next piece, when the buffer has room for it, else a flush first; after the
\* last, the stop condition or the deselecting, and the last flush.
Build(s) ==
    /\ xfer[s].pc = "build"
    /\ LET x == xfer[s]
           k == Pieces(x.kind) - x.toDo + 1
           reads == x.kind # "write"
       IN xfer' = [xfer EXCEPT ![s] =
             IF x.toDo = 0 THEN [x EXCEPT !.cmds.release = TRUE, !.last = TRUE, !.pc = "write"]
             ELSE IF k > 1 /\ x.cmds # NoCmds THEN [x EXCEPT !.pc = "write"]
             ELSE [x EXCEPT !.cmds.data = TRUE, !.cmds.reply = IF reads THEN Append(@, Tag(s, k)) ELSE @,
                            !.toDo = @ - 1, !.owed = IF reads THEN @ + 1 ELSE @]]
    /\ UNCHANGED <<want, main, dev, handle, lock, usb, toCome>>

\* The flush failed: the loop is left for the stop condition; or it was the last.
Broken(x) == IF x.last THEN [x EXCEPT !.pc = "end", !.rc = -1] ELSE [x EXCEPT !.pc = "build", !.toDo = 0]
Flushed(x) == [x EXCEPT !.pc = IF x.last THEN "end" ELSE "build"]

\* The bridge carries out what was sent.  Every command that sets a level sets
\* those of all the chip selects.
Carry(s, c) ==
    LET u == usb[On(s).match]
        clock == IF c.retune THEN handle[s].hz ELSE u.clock
        sel == IF c.select THEN {handle[s].cs} ELSE u.sel
        spiData == c.data /\ ~IsI2C(s)
    IN [u EXCEPT !.clock = clock, !.sel = IF c.release THEN {} ELSE sel, !.replies = @ \o c.reply,
                 !.wrong = @ \/ (spiData /\ ~(sel \subseteq {handle[s].cs})),
                 !.fast = @ \/ (spiData /\ clock > handle[s].hz)]

Sent(x) == IF x.owed > 0 THEN [x EXCEPT !.cmds = NoCmds, !.pc = "reply"] ELSE Flushed([x EXCEPT !.cmds = NoCmds])
Upset(s) == dev' = [dev EXCEPT ![handle[s].dev].upset = TRUE]

\* mpsse_flush sends what is queued.  A write that times out returns 0 bytes, and
\* is taken for one that worked.
WriteFine(s) ==
    /\ Fine /\ xfer' = [xfer EXCEPT ![s] = Sent(@)]
    /\ usb' = [usb EXCEPT ![On(s).match] = Carry(s, xfer[s].cmds)] /\ UNCHANGED dev
WriteRefused(s) == Fault("refused") /\ xfer' = [xfer EXCEPT ![s] = Broken(@)] /\ Upset(s) /\ UNCHANGED usb
WriteLost(s) == Fault("lost") /\ xfer' = [xfer EXCEPT ![s] = Sent(@)] /\ Upset(s) /\ UNCHANGED usb
Write(s) ==
    /\ xfer[s].pc = "write" /\ (WriteFine(s) \/ WriteRefused(s) \/ WriteLost(s))
    /\ UNCHANGED <<want, main, handle, lock>>

\* mpsse_reply.  Replies that do not come in time stay in the bridge, but for those
\* that came in part.
Replies(s) == usb[On(s).match].replies
Drop(s, n) == usb' = [usb EXCEPT ![On(s).match].replies = SubSeq(@, n + 1, Len(@))]
Collect(s) ==
    /\ Len(Replies(s)) >= xfer[s].owed /\ Fine /\ UNCHANGED dev
    /\ xfer' = [xfer EXCEPT ![s] = Flushed([xfer[s] EXCEPT !.got = @ \o SubSeq(Replies(s), 1, xfer[s].owed), !.owed = 0])]
    /\ Drop(s, xfer[s].owed)
TimeOut(s) ==
    /\ IF Len(Replies(s)) < xfer[s].owed THEN Fine ELSE Fault("late")
    /\ \E n \in 0 .. xfer[s].owed - 1 : n <= Len(Replies(s)) /\ Drop(s, n)
    /\ xfer' = [xfer EXCEPT ![s] = Broken(@)] /\ Upset(s)
Reply(s) == xfer[s].pc = "reply" /\ (Collect(s) \/ TimeOut(s)) /\ UNCHANGED <<want, main, handle, lock>>

\* The lock is let go, and the acknowledgements looked at.
End(s) ==
    /\ xfer[s].pc = "end"
    /\ lock' = [lock EXCEPT ![handle[s].dev] = Nobody]
    /\ \/ xfer' = [xfer EXCEPT ![s].pc = "rest"]
       \/ IsI2C(s) /\ xfer[s].rc = 0 /\ xfer' = [xfer EXCEPT ![s].pc = "rest", ![s].rc = -1]
    /\ UNCHANGED <<want, main, dev, handle, usb, toCome>>

Transfer(s) == Ask(s) \/ Begin(s) \/ Build(s) \/ Write(s) \/ Reply(s) \/ End(s)
Finished == main.pc = "done" /\ UNCHANGED busVars
MainStep == Open \/ Setup \/ Joined \/ Close
BusNext == MainStep \/ Stop \/ (\E s \in Sensors : Transfer(s)) \/ Finished
\* Both threads go on being scheduled; the daemon is told to stop sooner or later.
BusSpec == BusInit /\ [][BusNext]_busVars /\ WF_busVars(MainStep) /\ WF_busVars(Stop)
        /\ \A s \in Sensors : WF_busVars(Begin(s) \/ Build(s) \/ Write(s) \/ Reply(s) \/ End(s))

(* ------------------------------- properties ------------------------------ *)

\* A transfer that succeeds has brought what it asked for, all of it and nothing
\* of another's (bus_backend.h, i2c_xfer: `rxlen` bytes read back).
Honest(s) == (xfer[s].pc = "rest" /\ xfer[s].id # 0 /\ xfer[s].rc = 0) => xfer[s].got = Due(s)

\* It holds as long as no flush on the bridge has gone wrong: after one, replies
\* that come late are collected by the next message.
OwnBytes == \A s \in Sensors : (handle[s].used /\ ~On(s).upset) => Honest(s)

\* Nothing is clocked to a part that another's message left selected: not before the
\* third USB call that goes wrong.  (Then it can be: replies come late, the level that
\* lets a part go is lost, and so is the first flush of the other's long message,
\* which takes the late replies for its own and goes on.)
Wronged == UsbFaults - toCome.faults
OnlyMine == \A m \in Matches : usb[m].wrong => Wronged >= 3

\* A part is clocked at its own rate although the bridge is shared, as long as no
\* flush has gone wrong: the divisor is believed to be set before it is sent.
ClockIsMine == \A s \in Sensors : (handle[s].used /\ ~On(s).upset) => ~usb[On(s).match].fast

\* Two readers on one bridge, each with its own part, bytes and clock.
MessagesWhole == OwnBytes /\ OnlyMine /\ ClockIsMine

\* A bridge is claimed while, and only while, a handle is on it; and in the end
\* every one is handed back, however opening went.
HandedBack ==
    /\ \A m \in Matches : (usb[m].claimed = 1) <=> \E s \in Sensors : handle[s].used /\ On(s).match = m
    /\ main.pc = "done" => \A m \in Matches : usb[m].claimed = 0

\* A stop ends both readers and closes the bridges: no lock is left held.
BridgeStops == <>(main.pc = "done")
=============================================================================
