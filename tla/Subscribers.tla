------------------------------ MODULE Subscribers ------------------------------
(***************************************************************************)
(* A table of stream subscribers and the thread that serves it: the accept *)
(* loops, netserv_send_each with its swap-removal and stall limit          *)
(* (src/src/netserv.c), and stream_out_thread around them                  *)
(* (src/src/output.c).                                                     *)
(*                                                                         *)
(* Clients connect, read at their own pace and hang up whenever they like, *)
(* also between two sends of one broadcast.  The kernel holds Room units   *)
(* for each, a payload is Payload of them.  Time is counted in ticks, and  *)
(* kept as the age of what the table records, up to the stall limit.       *)
(***************************************************************************)
EXTENDS Integers, Sequences, FiniteSets

CONSTANTS
    Clients,
    MaxClients,    \* NETSRV_MAX_CLIENTS, STREAM_MAX_CLIENTS
    Room,          \* a client's socket buffer
    Payload,       \* one packet
    Stall          \* NETSRV_STALL_NS, in ticks

ASSUME TableAssumption ==
    /\ {MaxClients, Room, Payload, Stall} \subseteq Nat \ {0}
    /\ Payload <= Room

VARIABLES
    pc, stop,
    fds, taken,    \* the table: clients[], taken_ns[], their common length n
    i,             \* send_each's index
    conn,          \* per client: away, in the listen queue, accepted
    hung,          \* the peer has closed
    buf,           \* units unread in the kernel
    local,         \* the table is the AF_UNIX one
    took, tried    \* history: ticks since a client last took a payload, or was
                   \* accepted; sends it had in this broadcast

table == <<fds, taken>>
net == <<conn, hung, buf>>
vars == <<pc, stop, table, i, net, local, took, tried>>

n == Len(fds)
NoneTried == [c \in Clients |-> 0]

Init ==
    /\ pc = "sleep" /\ stop = FALSE
    /\ fds = <<>> /\ taken = <<>> /\ i = 1
    /\ conn = [c \in Clients |-> "away"] /\ hung = [c \in Clients |-> FALSE]
    /\ buf = [c \in Clients |-> 0]
    /\ local \in BOOLEAN
    /\ took = [c \in Clients |-> 0] /\ tried = NoneTried

Older(age) == IF age < Stall THEN age + 1 ELSE age

(* -------------------------------- mutants -------------------------------- *)

\* Bugs the checks must notice: a rejected client left open, and a removal that
\* moves on past the client it moved here.
RejectLeaks(c) ==
    /\ pc = "accept" /\ conn[c] = "waiting" /\ n >= MaxClients
    /\ conn' = [conn EXCEPT ![c] = "open"]
    /\ UNCHANGED <<pc, stop, table, i, hung, buf, local, took, tried>>
RemoveSkips ==
    /\ fds' = SubSeq([fds EXCEPT ![i] = fds[n]], 1, n - 1)
    /\ taken' = SubSeq([taken EXCEPT ![i] = taken[n]], 1, n - 1)
    /\ i' = i + 1

(* ------------------------------- the peers ------------------------------- *)

Connect(c) ==
    /\ conn[c] = "away" /\ conn' = [conn EXCEPT ![c] = "waiting"]
    /\ UNCHANGED <<pc, stop, table, i, hung, buf, local, took, tried>>

Read(c) ==
    /\ conn[c] = "open" /\ \E left \in 0 .. buf[c] - 1 : buf' = [buf EXCEPT ![c] = left]
    /\ UNCHANGED <<pc, stop, table, i, conn, hung, local, took, tried>>

HangUp(c) ==
    /\ conn[c] # "away" /\ ~hung[c] /\ hung' = [hung EXCEPT ![c] = TRUE]
    /\ UNCHANGED <<pc, stop, table, i, conn, buf, local, took, tried>>

\* close(2) on the daemon's side: for the peer it is as if it had never connected.
Closed(gone) ==
    /\ conn' = [c \in Clients |-> IF c \in gone THEN "away" ELSE conn[c]]
    /\ hung' = [c \in Clients |-> hung[c] /\ c \notin gone]
    /\ buf' = [c \in Clients |-> IF c \in gone THEN 0 ELSE buf[c]]

(* ------------------------------- the thread ------------------------------ *)

\* The sleep to the next tick, the loop's test of stop before it.
Sleep ==
    /\ pc = "sleep"
    /\ IF stop
       THEN /\ pc' = "final" /\ i' = 1 /\ tried' = NoneTried
            /\ UNCHANGED <<taken, took>>
       ELSE /\ pc' = "accept" /\ UNCHANGED <<i, tried>>
            /\ taken' = [k \in DOMAIN taken |-> Older(taken[k])]
            /\ took' = [c \in Clients |-> Older(took[c])]
    /\ UNCHANGED <<stop, fds, net, local>>

\* netserv_accept, and stream_out_thread's own loop: the queue's next client.
Accept(c) ==
    /\ pc = "accept" /\ conn[c] = "waiting" /\ n < MaxClients
    /\ fds' = Append(fds, c) /\ taken' = Append(taken, 0)
    /\ conn' = [conn EXCEPT ![c] = "open"] /\ took' = [took EXCEPT ![c] = 0]
    /\ UNCHANGED <<pc, stop, i, hung, buf, local, tried>>

Reject(c) ==
    /\ pc = "accept" /\ conn[c] = "waiting" /\ n >= MaxClients
    /\ Closed({c})
    /\ UNCHANGED <<pc, stop, table, i, local, took, tried>>

\* The queue is empty: a packet for the clients, or no packet because the state
\* is not settled or nobody listens.
Accepted(settled) ==
    /\ pc = "accept" /\ \A c \in Clients : conn[c] # "waiting"
    /\ pc' = IF settled /\ n > 0 THEN "send" ELSE "sleep"
    /\ i' = 1 /\ tried' = NoneTried
    /\ UNCHANGED <<stop, table, net, local, took>>

Sending == (pc = "send" \/ (pc = "final" /\ ~local)) /\ i <= n
Free(c) == Room - buf[c]
Try(c) == tried' = [tried EXCEPT ![c] = @ + 1]

\* send() took the whole payload.
SendAll ==
    LET c == fds[i] IN
    /\ Sending /\ Free(c) >= Payload /\ Try(c)
    /\ buf' = [buf EXCEPT ![c] = @ + Payload]
    /\ taken' = [taken EXCEPT ![i] = 0] /\ took' = [took EXCEPT ![c] = 0]
    /\ i' = i + 1
    /\ UNCHANGED <<pc, stop, fds, conn, hung, local>>

\* The buffer is full, and not for too long: this payload is not for this client.
SendFull ==
    LET c == fds[i] IN
    /\ Sending /\ Free(c) = 0 /\ taken[i] < Stall /\ Try(c)
    /\ i' = i + 1
    /\ UNCHANGED <<pc, stop, table, net, local, took>>

\* The last client takes the place of the one removed, and is tried next.
Remove ==
    /\ fds' = SubSeq([fds EXCEPT ![i] = fds[n]], 1, n - 1)
    /\ taken' = SubSeq([taken EXCEPT ![i] = taken[n]], 1, n - 1)
    /\ UNCHANGED i

\* A mutant: a send that took part of the payload counts as a send.
PartialKept ==
    LET c == fds[i] IN
    /\ Sending /\ Try(c)
    /\ \/ /\ hung[c] \/ (Free(c) = 0 /\ taken[i] >= Stall)
          /\ Closed({c}) /\ Remove /\ UNCHANGED took
       \/ /\ ~hung[c] /\ Free(c) \in 1 .. Payload - 1
          /\ buf' = [buf EXCEPT ![c] = Room] /\ i' = i + 1
          /\ taken' = [taken EXCEPT ![i] = 0] /\ took' = [took EXCEPT ![c] = 0]
          /\ UNCHANGED <<fds, conn, hung>>
    /\ UNCHANGED <<pc, stop, local>>

\* An error, part of the payload, or a client that stopped reading.
SendDrops ==
    LET c == fds[i] IN
    /\ Sending /\ Try(c)
    /\ \/ hung[c]
       \/ Free(c) \in 1 .. Payload - 1
       \/ Free(c) = 0 /\ taken[i] >= Stall
    /\ Closed({c}) /\ Remove
    /\ UNCHANGED <<pc, stop, local, took>>

SendDone ==
    /\ pc = "send" /\ i > n /\ pc' = "sleep"
    /\ UNCHANGED <<stop, table, i, net, local, took, tried>>

\* The shutdown packet of the local table: one send each, whatever becomes of it.
FinalLocal ==
    /\ pc = "final" /\ local /\ i <= n
    /\ LET c == fds[i]
           fits == IF Free(c) < Payload THEN Free(c) ELSE Payload
       IN /\ Try(c)
          /\ buf' = [buf EXCEPT ![c] = @ + fits]
    /\ i' = i + 1
    /\ UNCHANGED <<pc, stop, table, conn, hung, local, took>>

\* Every client and the listener are closed; the queue goes with the listener.
CloseAll ==
    /\ pc = "final" /\ i > n /\ pc' = "exit"
    /\ Closed(Clients) /\ fds' = <<>> /\ taken' = <<>>
    /\ UNCHANGED <<stop, i, local, took, tried>>

Stop ==
    /\ ~stop /\ stop' = TRUE
    /\ UNCHANGED <<pc, table, i, net, local, took, tried>>

Thread ==
    \/ Sleep \/ \E c \in Clients : Accept(c) \/ Reject(c)
    \/ \E settled \in BOOLEAN : Accepted(settled)
    \/ SendAll \/ SendFull \/ SendDrops \/ SendDone \/ FinalLocal \/ CloseAll
Peers == pc # "exit" /\ \E c \in Clients : Connect(c) \/ Read(c) \/ HangUp(c)
Terminated == pc = "exit" /\ stop /\ UNCHANGED vars

Next == Thread \/ Peers \/ Stop \/ Terminated

Spec == Init /\ [][Next]_vars

-----------------------------------------------------------------------------

\* Types, and both arrays of the table within its limit and equally long.
TypeOK ==
    /\ pc \in {"sleep", "accept", "send", "final", "exit"} /\ stop \in BOOLEAN
    /\ n <= MaxClients /\ Len(taken) = n
    /\ fds \in Seq(Clients) /\ taken \in Seq(0 .. Stall) /\ i \in 1 .. MaxClients + 1
    /\ conn \in [Clients -> {"away", "waiting", "open"}] /\ hung \in [Clients -> BOOLEAN]
    /\ buf \in [Clients -> 0 .. Room]
    /\ local \in BOOLEAN /\ took \in [Clients -> 0 .. Stall] /\ tried \in [Clients -> Nat]

\* The table and the open sockets are the same clients, each once and no more
\* than there are places: no removal, rejection or shutdown leaks a socket or
\* keeps a closed one.
TableIsOpenSockets ==
    /\ TypeOK
    /\ \A c \in Clients :
           Cardinality({k \in 1 .. n : fds[k] = c}) = (IF conn[c] = "open" THEN 1 ELSE 0)

\* A broadcast tries each client of the table exactly once, though others are
\* removed and moved while it runs.
EachTriedOnce ==
    /\ \A c \in Clients : tried[c] <= 1
    /\ pc \in {"send", "final"} /\ i > n => \A k \in 1 .. n : tried[fds[k]] = 1

\* The stall limit a client is held to is its own: what the table records is
\* when that client last took a payload, so one that stopped reading costs
\* nobody else its connection; and none outlasts the limit in a broadcast.
StallIsOwn ==
    /\ \A k \in 1 .. n : taken[k] = took[fds[k]]
    /\ pc = "send" /\ i > n => \A k \in 1 .. n : took[fds[k]] < Stall

\* Both: what becomes of one client in a broadcast is nothing to another.
EachOnItsOwn == EachTriedOnce /\ StallIsOwn
=============================================================================
