------------------------------ MODULE Stream_proofs ------------------------------
(***************************************************************************)
(* Proofs about Subscribers and Stream for any number of clients and       *)
(* places, any buffer, payload and stall limit: the table and the open     *)
(* sockets are the same clients, one client's fate is nothing to another,  *)
(* the composition with the library implements the table, and the stream   *)
(* a program reads stays in step and loses nothing that was sent.          *)
(***************************************************************************)
EXTENDS Stream, TLAPS, FiniteSetTheorems

LEMMA Constants ==
    /\ MaxClients \in Nat \ {0} /\ Room \in Nat \ {0} /\ Payload \in Nat \ {0}
    /\ Stall \in Nat \ {0} /\ Payload <= Room
  BY TableAssumption

(* ------------------------------- invariants ------------------------------ *)

\* Each open client has one place in the table, nobody else has any; a client
\* that is away left nothing behind; and after the end everybody is.
TableInv ==
    /\ \A j, k \in 1 .. n : fds[j] = fds[k] => j = k
    /\ \A c \in Clients : conn[c] = "open" <=> \E k \in 1 .. n : fds[k] = c
    /\ \A c \in Clients : conn[c] = "away" => ~hung[c]
    /\ \A c \in Clients : conn[c] # "open" => buf[c] = 0
    /\ pc = "exit" => \A c \in Clients : conn[c] = "away"

Casting == pc \in {"send", "final"}

\* The index splits the table: those before it were tried in this broadcast,
\* those from it on were not.
TriedInv ==
    /\ \A c \in Clients : tried[c] \in {0, 1}
    /\ Casting => /\ i <= n + 1
                  /\ \A k \in 1 .. n : tried[fds[k]] = (IF k < i THEN 1 ELSE 0)

\* The ages of the table are its clients' own, and those a broadcast has passed
\* were within the limit.
StallInv ==
    /\ \A k \in 1 .. n : taken[k] = took[fds[k]]
    /\ pc = "send" => \A k \in 1 .. n : k < i => taken[k] < Stall

SubInv == TypeOK /\ TableInv /\ TriedInv /\ StallInv

LEMMA TypeParts ==
    ASSUME TypeOK
    PROVE  /\ fds \in Seq(Clients) /\ taken \in Seq(0 .. Stall) /\ n \in Nat /\ Len(taken) = n
           /\ n <= MaxClients /\ i \in Nat /\ i >= 1 /\ i <= MaxClients + 1
           /\ \A k \in 1 .. n : fds[k] \in Clients /\ taken[k] \in 0 .. Stall
           /\ \A c \in Clients : buf[c] \in Nat /\ buf[c] <= Room /\ took[c] \in Nat
<1>1. /\ fds \in Seq(Clients) /\ taken \in Seq(0 .. Stall) /\ n \in Nat /\ Len(taken) = n
      /\ n <= MaxClients /\ i \in Nat /\ i >= 1 /\ i <= MaxClients + 1
  BY Constants DEF TypeOK, n
<1>2. \A k \in 1 .. n : fds[k] \in Clients /\ taken[k] \in 0 .. Stall
  <2> DEFINE Ages == 0 .. Stall
  <2>1. taken \in Seq(Ages) /\ fds \in Seq(Clients) /\ Len(taken) = n /\ Len(fds) = n
    BY <1>1 DEF n
  <2> HIDE DEF Ages
  <2>2. \A k \in 1 .. n : fds[k] \in Clients /\ taken[k] \in Ages
    BY <2>1
  <2> QED BY <2>2 DEF Ages
<1>3. \A c \in Clients : buf[c] \in Nat /\ buf[c] <= Room /\ took[c] \in Nat
  BY Constants DEF TypeOK
<1> QED BY <1>1, <1>2, <1>3

\* The last client takes the place of the one removed.
LEMMA RemoveDoes ==
    ASSUME TypeOK, i <= n, Remove
    PROVE  /\ fds' \in Seq(Clients) /\ taken' \in Seq(0 .. Stall)
           /\ n' = n - 1 /\ Len(taken') = n - 1 /\ i' = i
           /\ \A k \in 1 .. n - 1 : /\ fds'[k] = (IF k = i THEN fds[n] ELSE fds[k])
                                    /\ taken'[k] = (IF k = i THEN taken[n] ELSE taken[k])
<1>1. /\ fds \in Seq(Clients) /\ taken \in Seq(0 .. Stall) /\ n \in Nat /\ Len(taken) = n
      /\ Len(fds) = n /\ i \in 1 .. n /\ n \in 1 .. n
  BY TypeParts DEF n
<1>2. fds[n] \in Clients /\ taken[n] \in 0 .. Stall
  BY <1>1, TypeParts
<1> DEFINE F == [fds EXCEPT ![i] = fds[n]]
           T == [taken EXCEPT ![i] = taken[n]]
<1>3. /\ F \in Seq(Clients) /\ Len(F) = n
      /\ \A k \in 1 .. n : F[k] = IF k = i THEN fds[n] ELSE fds[k]
  BY <1>1, <1>2
<1>4. /\ T \in Seq(0 .. Stall) /\ Len(T) = n
      /\ \A k \in 1 .. n : T[k] = IF k = i THEN taken[n] ELSE taken[k]
  BY <1>1, <1>2
<1>5. fds' = SubSeq(F, 1, n - 1) /\ taken' = SubSeq(T, 1, n - 1) /\ i' = i
  BY DEF Remove
<1> HIDE DEF F, T
<1>6. /\ fds' \in Seq(Clients) /\ Len(fds') = n - 1
      /\ \A k \in 1 .. n - 1 : fds'[k] = F[k]
  BY <1>1, <1>3, <1>5
<1>7. /\ taken' \in Seq(0 .. Stall) /\ Len(taken') = n - 1
      /\ \A k \in 1 .. n - 1 : taken'[k] = T[k]
  <2> DEFINE Ages == 0 .. Stall
  <2>1. n \in Nat /\ n >= 1 /\ T \in Seq(Ages) /\ Len(T) = n
    BY <1>1, <1>4
  <2> HIDE DEF Ages
  <2>2. /\ SubSeq(T, 1, n - 1) \in Seq(Ages) /\ Len(SubSeq(T, 1, n - 1)) = n - 1
        /\ \A k \in 1 .. n - 1 : SubSeq(T, 1, n - 1)[k] = T[k]
    BY <2>1
  <2> QED BY <1>5, <2>2 DEF Ages
<1>8. n' = n - 1
  BY <1>6 DEF n
<1> QED BY <1>1, <1>3, <1>4, <1>5, <1>6, <1>7, <1>8

\* What close does to one client and to the others.
LEMMA ClosedDoes ==
    ASSUME TypeOK, NEW gone \in SUBSET Clients, Closed(gone)
    PROVE  /\ conn' \in [Clients -> {"away", "waiting", "open"}] /\ hung' \in [Clients -> BOOLEAN]
           /\ buf' \in [Clients -> 0 .. Room]
           /\ \A c \in gone : conn'[c] = "away" /\ ~hung'[c] /\ buf'[c] = 0
           /\ \A c \in Clients \ gone : conn'[c] = conn[c] /\ hung'[c] = hung[c] /\ buf'[c] = buf[c]
<1>1. conn' \in [Clients -> {"away", "waiting", "open"}]
  BY DEF Closed, TypeOK
<1>2. hung' \in [Clients -> BOOLEAN]
  BY Zenon DEF Closed
<1>3. buf' \in [Clients -> 0 .. Room]
  BY Constants DEF Closed, TypeOK
<1>4. \A c \in Clients : /\ conn'[c] = (IF c \in gone THEN "away" ELSE conn[c])
                         /\ buf'[c] = (IF c \in gone THEN 0 ELSE buf[c])
  BY DEF Closed
<1>5. \A c \in gone : ~hung'[c]
  BY Zenon DEF Closed
<1>6. \A c \in Clients \ gone : hung'[c] = hung[c]
  <2>1. \A c \in Clients \ gone : hung'[c] = (hung[c] /\ c \notin gone)
    BY Zenon DEF Closed
  <2>2. \A c \in Clients : hung[c] \in BOOLEAN
    BY DEF TypeOK
  <2> QED BY <2>1, <2>2
<1> QED BY <1>1, <1>2, <1>3, <1>4, <1>5, <1>6

LEMMA SubInit == Init => SubInv
<1> SUFFICES ASSUME Init PROVE SubInv
  OBVIOUS
<1>1. n = 0
  BY DEF Init, n
<1>2. TypeOK
  <2>1. <<>> \in Seq(Clients) /\ <<>> \in Seq(0 .. Stall) /\ 0 \in 0 .. Room /\ 0 \in 0 .. Stall
        /\ 1 \in 1 .. MaxClients + 1 /\ 0 <= MaxClients /\ Len(<<>>) = 0
    BY Constants
  <2>2. hung \in [Clients -> BOOLEAN] /\ stop \in BOOLEAN /\ local \in BOOLEAN
    BY DEF Init
  <2> QED BY <1>1, <2>1, <2>2 DEF Init, TypeOK, NoneTried
<1>3. TableInv
  <2>1. \A c \in Clients : ~hung[c]
    BY Zenon DEF Init
  <2> QED BY <1>1, <2>1 DEF Init, TableInv
<1>4. TriedInv
  BY <1>1 DEF Init, TriedInv, Casting, NoneTried
<1>5. StallInv
  BY <1>1 DEF Init, StallInv
<1> QED BY <1>2, <1>3, <1>4, <1>5 DEF SubInv

\* An age that grows stays within the limit.
LEMMA OlderType == \A age \in 0 .. Stall : Older(age) \in 0 .. Stall
  BY Constants DEF Older

\* The client whose turn it is.
LEMMA TurnParts ==
    ASSUME SubInv, i <= n
    PROVE  /\ i \in 1 .. n /\ n \in Nat /\ fds[i] \in Clients /\ conn[fds[i]] = "open"
           /\ tried[fds[i]] \in {0, 1} /\ (Casting => tried[fds[i]] = 0)
           /\ \A k \in 1 .. n : fds[k] \in Clients /\ (fds[k] = fds[i] => k = i)
<1>1. i \in 1 .. n /\ n \in Nat /\ fds[i] \in Clients /\ \A k \in 1 .. n : fds[k] \in Clients
  BY TypeParts DEF SubInv
<1>2. conn[fds[i]] = "open" /\ \A k \in 1 .. n : fds[k] = fds[i] => k = i
  BY <1>1 DEF SubInv, TableInv
<1>3. tried[fds[i]] \in {0, 1} /\ (Casting => tried[fds[i]] = 0)
  BY <1>1 DEF SubInv, TriedInv
<1> QED BY <1>1, <1>2, <1>3

\* A try that leaves the table as it is and moves on to the next place.
LEMMA TryMovesOn ==
    ASSUME SubInv, Casting, i <= n, Try(fds[i]), i' = i + 1, UNCHANGED fds
    PROVE  /\ i' \in 1 .. MaxClients + 1 /\ tried' \in [Clients -> Nat] /\ n' = n
           /\ TriedInv'
<1>1. /\ i \in 1 .. n /\ n \in Nat /\ fds[i] \in Clients /\ tried[fds[i]] = 0
      /\ \A k \in 1 .. n : fds[k] \in Clients /\ (fds[k] = fds[i] => k = i)
  BY TurnParts
<1>2. n <= MaxClients /\ i \in Nat /\ tried \in [Clients -> Nat]
  BY TypeParts DEF SubInv, TypeOK
<1>3. /\ tried' \in [Clients -> Nat] /\ tried'[fds[i]] = 1
      /\ \A c \in Clients : c # fds[i] => tried'[c] = tried[c]
  BY <1>1, <1>2 DEF Try
<1>4. n' = n /\ fds' = fds
  BY DEF n
<1>5. \A c \in Clients : tried'[c] \in {0, 1}
  BY <1>3 DEF SubInv, TriedInv
<1>6. \A k \in 1 .. n : tried'[fds[k]] = (IF k < i + 1 THEN 1 ELSE 0)
  <2> SUFFICES ASSUME NEW k \in 1 .. n PROVE tried'[fds[k]] = (IF k < i + 1 THEN 1 ELSE 0)
    OBVIOUS
  <2>1. CASE k = i
    BY <1>1, <1>2, <1>3, <2>1
  <2>2. CASE k # i
    <3>1. tried'[fds[k]] = tried[fds[k]]
      BY <1>1, <1>3, <2>2
    <3>2. k < i + 1 <=> k < i
      BY <1>1, <2>2
    <3> QED BY <3>1, <3>2 DEF SubInv, TriedInv
  <2> QED BY <2>1, <2>2
<1>7. i' \in 1 .. MaxClients + 1 /\ i + 1 <= n + 1
  BY <1>1, <1>2, Constants
<1>8. TriedInv'
  BY <1>4, <1>5, <1>6, <1>7 DEF TriedInv
<1> QED BY <1>3, <1>4, <1>7, <1>8

\* The table as it was, and connections that were opened, closed or emptied
\* outside it.
LEMMA TableStays ==
    ASSUME SubInv, UNCHANGED <<fds, pc>>,
           \A c \in Clients : conn'[c] = "open" <=> conn[c] = "open",
           \A c \in Clients : conn'[c] = "away" => ~hung'[c],
           \A c \in Clients : conn'[c] # "open" => buf'[c] = 0,
           pc = "exit" => UNCHANGED conn
    PROVE  TableInv'
<1>1. n' = n
  BY DEF n
<1> QED BY <1>1 DEF SubInv, TableInv

LEMMA SleepInv == SubInv /\ Sleep => SubInv'
<1> SUFFICES ASSUME SubInv, Sleep PROVE SubInv'
  OBVIOUS
<1>1. /\ pc = "sleep" /\ UNCHANGED <<stop, fds, conn, hung, buf, local>>
      /\ \/ /\ pc' = "final" /\ i' = 1 /\ tried' = NoneTried
            /\ UNCHANGED <<taken, took>>
         \/ /\ pc' = "accept" /\ UNCHANGED <<i, tried>>
            /\ taken' = [k \in DOMAIN taken |-> Older(taken[k])]
            /\ took' = [c \in Clients |-> Older(took[c])]
  BY DEF Sleep, net
<1>2. n' = n /\ n \in Nat /\ DOMAIN taken = 1 .. n
  BY <1>1, TypeParts DEF SubInv, n
<1>3. /\ taken' \in Seq(0 .. Stall) /\ Len(taken') = n /\ took' \in [Clients -> 0 .. Stall]
  <2>1. CASE UNCHANGED <<taken, took>>
    BY <2>1 DEF SubInv, TypeOK
  <2>2. CASE taken' = [k \in DOMAIN taken |-> Older(taken[k])] /\ took' = [c \in Clients |-> Older(took[c])]
    <3>1. took' \in [Clients -> 0 .. Stall]
      BY <2>2, OlderType DEF SubInv, TypeOK
    <3>2. \A k \in 1 .. n : Older(taken[k]) \in 0 .. Stall
      BY <1>2, OlderType, TypeParts DEF SubInv
    <3> DEFINE Ages == 0 .. Stall
    <3> HIDE DEF Ages
    <3>3. taken' \in [1 .. n -> Ages]
      BY <1>2, <2>2, <3>2 DEF Ages
    <3>4. taken' \in Seq(Ages) /\ Len(taken') = n
      BY <1>2, <3>3
    <3> QED BY <3>1, <3>4 DEF Ages
  <2> QED BY <1>1, <2>1, <2>2
<1>4. NoneTried \in [Clients -> Nat] /\ 1 \in 1 .. MaxClients + 1
  BY Constants DEF NoneTried
<1>5. TypeOK'
  BY <1>1, <1>2, <1>3, <1>4 DEF SubInv, TypeOK
<1>6. TableInv'
  BY <1>1, <1>2 DEF SubInv, TableInv
<1>7. TriedInv'
  <2>1. CASE pc' = "final" /\ i' = 1 /\ tried' = NoneTried
    <3>1. \A k \in 1 .. n : fds[k] \in Clients
      BY TypeParts DEF SubInv
    <3> QED BY <1>1, <1>2, <2>1, <3>1 DEF TriedInv, NoneTried
  <2>2. CASE pc' = "accept" /\ UNCHANGED <<i, tried>>
    BY <2>2 DEF SubInv, TriedInv, Casting
  <2> QED BY <1>1, <2>1, <2>2
<1>8. StallInv'
  <2>1. CASE UNCHANGED <<taken, took>>
    BY <1>1, <1>2, <2>1 DEF SubInv, StallInv
  <2>2. CASE taken' = [k \in DOMAIN taken |-> Older(taken[k])] /\ took' = [c \in Clients |-> Older(took[c])]
    <3>1. \A k \in 1 .. n : fds[k] \in Clients
      BY TypeParts DEF SubInv
    <3> QED BY <1>1, <1>2, <2>2, <3>1 DEF SubInv, StallInv
  <2> QED BY <1>1, <2>1, <2>2
<1> QED BY <1>5, <1>6, <1>7, <1>8 DEF SubInv

LEMMA AcceptInv == ASSUME SubInv, NEW c \in Clients, Accept(c) PROVE SubInv'
<1>1. /\ pc = "accept" /\ conn[c] = "waiting" /\ n < MaxClients
      /\ fds' = Append(fds, c) /\ taken' = Append(taken, 0)
      /\ conn' = [conn EXCEPT ![c] = "open"] /\ took' = [took EXCEPT ![c] = 0]
      /\ UNCHANGED <<pc, stop, i, hung, buf, local, tried>>
  BY DEF Accept
<1>2. /\ fds \in Seq(Clients) /\ taken \in Seq(0 .. Stall) /\ n \in Nat /\ Len(taken) = n
      /\ Len(fds) = n /\ 0 \in 0 .. Stall
  BY TypeParts, Constants DEF SubInv, n
<1>3. /\ fds' \in Seq(Clients) /\ n' = n + 1 /\ fds'[n + 1] = c
      /\ \A k \in 1 .. n : fds'[k] = fds[k]
  BY <1>1, <1>2 DEF n
<1>4. /\ taken' \in Seq(0 .. Stall) /\ Len(taken') = n + 1 /\ taken'[n + 1] = 0
      /\ \A k \in 1 .. n : taken'[k] = taken[k]
  <2> DEFINE Ages == 0 .. Stall
  <2>1. taken \in Seq(Ages) /\ 0 \in Ages
    BY <1>2
  <2> HIDE DEF Ages
  <2> QED BY <1>1, <1>2, <2>1 DEF Ages
<1>5. \A k \in 1 .. n : fds[k] \in Clients /\ fds[k] # c
  BY <1>1, <1>2, TypeParts DEF SubInv, TableInv
<1>6. \A k \in 1 .. n' : k \in 1 .. n \/ k = n + 1
  BY <1>2, <1>3
<1>7. TypeOK'
  <2>1. conn' \in [Clients -> {"away", "waiting", "open"}] /\ took' \in [Clients -> 0 .. Stall]
    BY <1>1, <1>2 DEF SubInv, TypeOK
  <2>2. n' <= MaxClients
    BY <1>1, <1>2, <1>3, Constants
  <2> QED BY <1>1, <1>3, <1>4, <2>1, <2>2 DEF SubInv, TypeOK
<1>8. TableInv'
  <2>1. /\ conn'[c] = "open" /\ \A d \in Clients : d # c => conn'[d] = conn[d]
    BY <1>1 DEF SubInv, TypeOK
  <2>2. \A j, k \in 1 .. n' : fds'[j] = fds'[k] => j = k
    BY <1>3, <1>5, <1>6 DEF SubInv, TableInv
  <2>3. \A d \in Clients : conn'[d] = "open" <=> \E k \in 1 .. n' : fds'[k] = d
    <3> SUFFICES ASSUME NEW d \in Clients
                 PROVE  conn'[d] = "open" <=> \E k \in 1 .. n' : fds'[k] = d
      OBVIOUS
    <3>1. CASE d = c
      BY <1>2, <1>3, <2>1, <3>1
    <3>2. CASE d # c
      <4>1. (\E k \in 1 .. n' : fds'[k] = d) <=> (\E k \in 1 .. n : fds[k] = d)
        <5>1. \A k \in 1 .. n : k \in 1 .. n'
          BY <1>2, <1>3
        <5> QED BY <1>3, <1>6, <3>2, <5>1
      <4> QED BY <2>1, <3>2, <4>1 DEF SubInv, TableInv
    <3> QED BY <3>1, <3>2
  <2>4. \A d \in Clients : (conn'[d] = "away" => ~hung'[d]) /\ (conn'[d] # "open" => buf'[d] = 0)
    <3> SUFFICES ASSUME NEW d \in Clients
                 PROVE  (conn'[d] = "away" => ~hung'[d]) /\ (conn'[d] # "open" => buf'[d] = 0)
      OBVIOUS
    <3>1. CASE d = c
      BY <2>1, <3>1
    <3>2. CASE d # c
      BY <1>1, <2>1, <3>2 DEF SubInv, TableInv
    <3> QED BY <3>1, <3>2
  <2>5. pc' # "exit"
    BY <1>1
  <2> QED BY <2>2, <2>3, <2>4, <2>5 DEF TableInv
<1>9. TriedInv'
  BY <1>1 DEF SubInv, TriedInv, Casting
<1>10. StallInv'
  <2>1. took'[c] = 0 /\ \A d \in Clients : d # c => took'[d] = took[d]
    BY <1>1 DEF SubInv, TypeOK
  <2> QED BY <1>1, <1>3, <1>4, <1>5, <1>6, <2>1 DEF SubInv, StallInv
<1> QED BY <1>7, <1>8, <1>9, <1>10 DEF SubInv

LEMMA RejectInv == ASSUME SubInv, NEW c \in Clients, Reject(c) PROVE SubInv'
<1>1. /\ pc = "accept" /\ conn[c] = "waiting" /\ Closed({c})
      /\ UNCHANGED <<pc, stop, fds, taken, i, local, took, tried>>
  BY DEF Reject, table
<1>2. /\ conn' \in [Clients -> {"away", "waiting", "open"}] /\ hung' \in [Clients -> BOOLEAN]
      /\ buf' \in [Clients -> 0 .. Room]
      /\ \A d \in {c} : conn'[d] = "away" /\ ~hung'[d] /\ buf'[d] = 0
      /\ \A d \in Clients \ {c} : conn'[d] = conn[d] /\ hung'[d] = hung[d] /\ buf'[d] = buf[d]
  <2>1. {c} \in SUBSET Clients /\ TypeOK
    BY DEF SubInv
  <2> QED BY <1>1, <2>1, ClosedDoes
<1>3. TypeOK'
  BY <1>1, <1>2 DEF SubInv, TypeOK, n
<1>4. TableInv'
  <2>1. /\ \A d \in Clients : conn'[d] = "open" <=> conn[d] = "open"
        /\ \A d \in Clients : conn'[d] = "away" => ~hung'[d]
        /\ \A d \in Clients : conn'[d] # "open" => buf'[d] = 0
    BY <1>1, <1>2 DEF SubInv, TableInv
  <2> QED BY <1>1, <2>1, TableStays
<1>5. TriedInv' /\ StallInv'
  BY <1>1 DEF SubInv, TriedInv, StallInv, Casting, n
<1> QED BY <1>3, <1>4, <1>5 DEF SubInv

LEMMA AcceptedInv == ASSUME SubInv, NEW settled \in BOOLEAN, Accepted(settled) PROVE SubInv'
<1>1. /\ pc = "accept" /\ pc' \in {"send", "sleep"}
      /\ i' = 1 /\ tried' = NoneTried
      /\ UNCHANGED <<stop, fds, taken, conn, hung, buf, local, took>>
  BY DEF Accepted, table, net
<1>2. n' = n /\ n \in Nat /\ \A k \in 1 .. n : fds[k] \in Clients
  BY <1>1, TypeParts DEF SubInv, n
<1>3. TypeOK'
  <2>1. 1 \in 1 .. MaxClients + 1 /\ NoneTried \in [Clients -> Nat]
    BY Constants DEF NoneTried
  <2> QED BY <1>1, <1>2, <2>1 DEF SubInv, TypeOK
<1>4. TableInv'
  BY <1>1, <1>2 DEF SubInv, TableInv
<1>5. TriedInv'
  BY <1>1, <1>2 DEF TriedInv, NoneTried
<1>6. StallInv'
  BY <1>1, <1>2 DEF SubInv, StallInv
<1> QED BY <1>3, <1>4, <1>5, <1>6 DEF SubInv

LEMMA SendAllInv == ASSUME SubInv, SendAll PROVE SubInv'
<1> DEFINE c == fds[i]
<1>1. /\ Casting /\ i <= n /\ Free(c) >= Payload /\ Try(c)
      /\ buf' = [buf EXCEPT ![c] = @ + Payload]
      /\ taken' = [taken EXCEPT ![i] = 0] /\ took' = [took EXCEPT ![c] = 0]
      /\ i' = i + 1
      /\ UNCHANGED <<pc, stop, fds, conn, hung, local>>
  BY DEF SendAll, Sending, Casting
<1>2. /\ i \in 1 .. n /\ n \in Nat /\ c \in Clients /\ conn[c] = "open"
      /\ \A k \in 1 .. n : fds[k] \in Clients /\ (fds[k] = c => k = i)
  BY <1>1, TurnParts
<1>3. i' \in 1 .. MaxClients + 1 /\ tried' \in [Clients -> Nat] /\ n' = n /\ TriedInv'
  BY <1>1, TryMovesOn
<1> HIDE DEF c
<1>4. taken' \in Seq(0 .. Stall) /\ Len(taken') = n /\ taken'[i] = 0
      /\ \A k \in 1 .. n : k # i => taken'[k] = taken[k]
  <2> DEFINE Ages == 0 .. Stall
  <2>1. taken \in Seq(Ages) /\ Len(taken) = n /\ 0 \in Ages
    BY TypeParts, Constants DEF SubInv
  <2> HIDE DEF Ages
  <2> QED BY <1>1, <1>2, <2>1 DEF Ages
<1>5. /\ took' \in [Clients -> 0 .. Stall] /\ took'[c] = 0
      /\ \A d \in Clients : d # c => took'[d] = took[d]
  BY <1>1, <1>2, Constants DEF SubInv, TypeOK
<1>6. buf' \in [Clients -> 0 .. Room] /\ \A d \in Clients : d # c => buf'[d] = buf[d]
  <2>1. buf[c] \in Nat /\ buf[c] + Payload <= Room
    <3>1. buf[c] \in Nat /\ Room - buf[c] >= Payload
      BY <1>1, <1>2, TypeParts DEF SubInv, Free
    <3> QED BY <3>1, Constants
  <2>2. buf[c] + Payload \in 0 .. Room
    BY <2>1, Constants
  <2> QED BY <1>1, <1>2, <2>2 DEF SubInv, TypeOK
<1>7. TypeOK'
  BY <1>1, <1>3, <1>4, <1>5, <1>6 DEF SubInv, TypeOK
<1>8. TableInv'
  <2>1. \A d \in Clients : conn[d] # "open" => buf'[d] = 0
    BY <1>2, <1>6 DEF SubInv, TableInv
  <2> QED BY <1>1, <2>1, TableStays DEF SubInv, TableInv
<1>9. StallInv'
  <2>1. \A k \in 1 .. n : taken'[k] = took'[fds[k]]
    BY <1>2, <1>4, <1>5 DEF SubInv, StallInv, c
  <2>2. pc = "send" => \A k \in 1 .. n : k < i + 1 => taken'[k] < Stall
    <3> SUFFICES ASSUME pc = "send", NEW k \in 1 .. n, k < i + 1 PROVE taken'[k] < Stall
      OBVIOUS
    <3>1. CASE k = i
      BY <1>4, <3>1, Constants
    <3>2. CASE k # i
      <4>1. k < i
        BY <1>2, <3>2
      <4> QED BY <1>4, <3>2, <4>1 DEF SubInv, StallInv
    <3> QED BY <3>1, <3>2
  <2> QED BY <1>1, <1>3, <2>1, <2>2 DEF StallInv
<1> QED BY <1>3, <1>7, <1>8, <1>9 DEF SubInv

LEMMA SendFullInv == ASSUME SubInv, SendFull PROVE SubInv'
<1>1. /\ Casting /\ i <= n /\ taken[i] < Stall /\ Try(fds[i])
      /\ i' = i + 1
      /\ UNCHANGED <<pc, stop, fds, taken, conn, hung, buf, local, took>>
  BY DEF SendFull, Sending, Casting, table, net
<1>2. i \in 1 .. n /\ n \in Nat
  BY <1>1, TurnParts
<1>3. i' \in 1 .. MaxClients + 1 /\ tried' \in [Clients -> Nat] /\ n' = n /\ TriedInv'
  BY <1>1, TryMovesOn
<1>4. TypeOK'
  BY <1>1, <1>3 DEF SubInv, TypeOK
<1>5. TableInv'
  BY <1>1, <1>3 DEF SubInv, TableInv
<1>6. StallInv'
  <2>1. pc = "send" => \A k \in 1 .. n : k < i + 1 => taken[k] < Stall
    <3> SUFFICES ASSUME pc = "send", NEW k \in 1 .. n, k < i + 1 PROVE taken[k] < Stall
      OBVIOUS
    <3>1. k = i \/ k < i
      BY <1>2
    <3> QED BY <1>1, <3>1 DEF SubInv, StallInv
  <2> QED BY <1>1, <1>3, <2>1 DEF SubInv, StallInv
<1> QED BY <1>3, <1>4, <1>5, <1>6 DEF SubInv

LEMMA SendDropsInv == ASSUME SubInv, SendDrops PROVE SubInv'
<1> DEFINE c == fds[i]
<1>1. /\ Casting /\ i <= n /\ Try(c) /\ Closed({c}) /\ Remove
      /\ UNCHANGED <<pc, stop, local, took>>
  BY DEF SendDrops, Sending, Casting
<1>2. /\ i \in 1 .. n /\ n \in Nat /\ c \in Clients /\ conn[c] = "open" /\ tried[c] = 0
      /\ \A k \in 1 .. n : fds[k] \in Clients /\ (fds[k] = c => k = i)
  BY <1>1, TurnParts
<1>3. /\ fds' \in Seq(Clients) /\ taken' \in Seq(0 .. Stall)
      /\ n' = n - 1 /\ Len(taken') = n - 1 /\ i' = i
      /\ \A k \in 1 .. n - 1 : /\ fds'[k] = (IF k = i THEN fds[n] ELSE fds[k])
                               /\ taken'[k] = (IF k = i THEN taken[n] ELSE taken[k])
  BY <1>1, RemoveDoes DEF SubInv
<1>4. /\ conn' \in [Clients -> {"away", "waiting", "open"}] /\ hung' \in [Clients -> BOOLEAN]
      /\ buf' \in [Clients -> 0 .. Room]
      /\ conn'[c] = "away" /\ ~hung'[c] /\ buf'[c] = 0
      /\ \A d \in Clients : d # c => conn'[d] = conn[d] /\ hung'[d] = hung[d] /\ buf'[d] = buf[d]
  <2>1. {c} \in SUBSET Clients /\ TypeOK
    BY <1>2 DEF SubInv
  <2>2. /\ conn' \in [Clients -> {"away", "waiting", "open"}] /\ hung' \in [Clients -> BOOLEAN]
        /\ buf' \in [Clients -> 0 .. Room]
        /\ \A d \in {c} : conn'[d] = "away" /\ ~hung'[d] /\ buf'[d] = 0
        /\ \A d \in Clients \ {c} : conn'[d] = conn[d] /\ hung'[d] = hung[d] /\ buf'[d] = buf[d]
    BY <1>1, <2>1, ClosedDoes
  <2> QED BY <2>2
<1>5. /\ tried' \in [Clients -> Nat] /\ tried'[c] = 1
      /\ \A d \in Clients : d # c => tried'[d] = tried[d]
  BY <1>1, <1>2 DEF Try, SubInv, TypeOK
<1> HIDE DEF c
\* Where the client now at each place was before.
<1> DEFINE From(k) == IF k = i THEN n ELSE k
<1>6. \A k \in 1 .. n' : /\ From(k) \in 1 .. n /\ From(k) # i
                         /\ fds'[k] = fds[From(k)] /\ taken'[k] = taken[From(k)]
                         /\ fds[From(k)] # c /\ fds[From(k)] \in Clients
                         /\ (k < i => From(k) = k /\ From(k) < i)
                         /\ (~(k < i) => ~(From(k) < i))
  <2> SUFFICES ASSUME NEW k \in 1 .. n'
               PROVE  /\ From(k) \in 1 .. n /\ From(k) # i
                      /\ fds'[k] = fds[From(k)] /\ taken'[k] = taken[From(k)]
                      /\ fds[From(k)] # c /\ fds[From(k)] \in Clients
                      /\ (k < i => From(k) = k /\ From(k) < i)
                      /\ (~(k < i) => ~(From(k) < i))
    OBVIOUS
  <2>1. k \in Nat /\ k >= 1 /\ k <= n - 1 /\ i \in Nat /\ i >= 1 /\ i <= n /\ k \in 1 .. n - 1
    BY <1>2, <1>3
  <2>2. CASE k = i
    <3>1. From(k) = n /\ n \in 1 .. n /\ n # i
      BY <1>2, <2>1, <2>2
    <3> QED BY <1>2, <1>3, <2>1, <2>2, <3>1
  <2>3. CASE k # i
    <3>1. From(k) = k /\ k \in 1 .. n
      BY <1>2, <2>1, <2>3
    <3> QED BY <1>2, <1>3, <2>1, <2>3, <3>1
  <2> QED BY <2>2, <2>3
<1>7. TypeOK'
  <2>1. n' <= MaxClients
    BY <1>2, <1>3, TypeParts, Constants DEF SubInv
  <2> QED BY <1>1, <1>3, <1>4, <1>5, <2>1 DEF SubInv, TypeOK
<1>8. TableInv'
  <2>1. \A j, k \in 1 .. n' : fds'[j] = fds'[k] => j = k
    <3> SUFFICES ASSUME NEW j \in 1 .. n', NEW k \in 1 .. n', fds'[j] = fds'[k] PROVE j = k
      OBVIOUS
    <3>1. From(j) = From(k)
      <4>1. fds[From(j)] = fds[From(k)] /\ From(j) \in 1 .. n /\ From(k) \in 1 .. n
        BY <1>6
      <4> HIDE DEF From
      <4> QED BY <4>1 DEF SubInv, TableInv
    <3>2. j # n /\ k # n
      BY <1>2, <1>3
    <3> QED BY <3>1, <3>2
  <2>2. \A d \in Clients : conn'[d] = "open" <=> \E k \in 1 .. n' : fds'[k] = d
    <3> SUFFICES ASSUME NEW d \in Clients
                 PROVE  conn'[d] = "open" <=> \E k \in 1 .. n' : fds'[k] = d
      OBVIOUS
    <3>1. CASE d = c
      BY <1>4, <1>6, <3>1
    <3>2. CASE d # c
      <4>1. ASSUME NEW k \in 1 .. n, fds[k] = d PROVE \E j \in 1 .. n' : fds'[j] = d
        <5>1. k # i
          BY <3>2, <4>1 DEF c
        <5>2. k \in Nat /\ k >= 1 /\ k <= n /\ i \in Nat /\ i >= 1 /\ i <= n
          BY <1>2
        <5>3. CASE k = n
          <6>1. i \in 1 .. n'
            BY <1>3, <5>1, <5>2, <5>3
          <6>2. fds'[i] = d
            BY <1>6, <4>1, <5>3, <6>1
          <6> QED BY <6>1, <6>2
        <5>4. CASE k # n
          <6>1. k \in 1 .. n'
            BY <1>2, <1>3, <5>2, <5>4
          <6>2. fds'[k] = d
            BY <1>6, <4>1, <5>1, <6>1
          <6> QED BY <6>1, <6>2
        <5> QED BY <5>3, <5>4
      <4>2. ASSUME NEW k \in 1 .. n', fds'[k] = d PROVE \E j \in 1 .. n : fds[j] = d
        BY <1>6, <4>2
      <4>3. conn'[d] = conn[d] /\ (conn[d] = "open" <=> \E k \in 1 .. n : fds[k] = d)
        BY <1>4, <3>2 DEF SubInv, TableInv
      <4> QED BY <4>1, <4>2, <4>3
    <3> QED BY <3>1, <3>2
  <2>3. /\ \A d \in Clients : conn'[d] = "away" => ~hung'[d]
        /\ \A d \in Clients : conn'[d] # "open" => buf'[d] = 0
    <3> SUFFICES ASSUME NEW d \in Clients
                 PROVE (conn'[d] = "away" => ~hung'[d]) /\ (conn'[d] # "open" => buf'[d] = 0)
      OBVIOUS
    <3> QED BY <1>4 DEF SubInv, TableInv
  <2>4. pc' # "exit"
    BY <1>1 DEF Casting
  <2> QED BY <2>1, <2>2, <2>3, <2>4 DEF TableInv
<1>9. TriedInv'
  <2>1. \A d \in Clients : tried'[d] \in {0, 1}
    BY <1>5 DEF SubInv, TriedInv
  <2>2. i' <= n' + 1
    BY <1>2, <1>3
  <2>3. \A k \in 1 .. n' : tried'[fds'[k]] = (IF k < i THEN 1 ELSE 0)
    <3> SUFFICES ASSUME NEW k \in 1 .. n' PROVE tried'[fds'[k]] = (IF k < i THEN 1 ELSE 0)
      OBVIOUS
    <3>1. /\ From(k) \in 1 .. n /\ fds'[k] = fds[From(k)] /\ (From(k) < i <=> k < i)
          /\ fds[From(k)] # c /\ fds[From(k)] \in Clients
      BY <1>6
    <3> HIDE DEF From
    <3>2. tried[fds[From(k)]] = (IF From(k) < i THEN 1 ELSE 0)
      BY <1>1, <3>1 DEF SubInv, TriedInv
    <3> QED BY <1>5, <3>1, <3>2
  <2> QED BY <1>3, <2>1, <2>2, <2>3 DEF TriedInv
<1>10. StallInv'
  <2>1. \A k \in 1 .. n' : taken'[k] = took[fds'[k]]
    <3> SUFFICES ASSUME NEW k \in 1 .. n' PROVE taken'[k] = took[fds'[k]]
      OBVIOUS
    <3>1. From(k) \in 1 .. n /\ fds'[k] = fds[From(k)] /\ taken'[k] = taken[From(k)]
      BY <1>6
    <3> HIDE DEF From
    <3> QED BY <3>1 DEF SubInv, StallInv
  <2>2. pc = "send" => \A k \in 1 .. n' : k < i => taken'[k] < Stall
    <3> SUFFICES ASSUME pc = "send", NEW k \in 1 .. n', k < i PROVE taken'[k] < Stall
      OBVIOUS
    <3>1. k \in 1 .. n /\ taken'[k] = taken[k]
      BY <1>6
    <3> QED BY <3>1 DEF SubInv, StallInv
  <2> QED BY <1>1, <1>3, <2>1, <2>2 DEF StallInv
<1> QED BY <1>7, <1>8, <1>9, <1>10 DEF SubInv

LEMMA FinalLocalInv == ASSUME SubInv, FinalLocal PROVE SubInv'
<1> DEFINE c == fds[i]
           fits == IF Free(c) < Payload THEN Free(c) ELSE Payload
<1>1. /\ pc = "final" /\ i <= n /\ Try(c)
      /\ buf' = [buf EXCEPT ![c] = @ + fits]
      /\ i' = i + 1
      /\ UNCHANGED <<pc, stop, fds, taken, conn, hung, local, took>>
  BY DEF FinalLocal, table
<1>2. i \in 1 .. n /\ n \in Nat /\ c \in Clients /\ conn[c] = "open"
  BY <1>1, TurnParts
<1>3. i' \in 1 .. MaxClients + 1 /\ tried' \in [Clients -> Nat] /\ n' = n /\ TriedInv'
  <2>1. Casting
    BY <1>1 DEF Casting
  <2> QED BY <1>1, <2>1, TryMovesOn
<1>4. buf[c] + fits \in 0 .. Room
  <2>1. buf[c] \in Nat /\ buf[c] <= Room
    BY <1>2, TypeParts DEF SubInv
  <2> HIDE DEF c
  <2> QED BY <2>1, Constants DEF Free
<1> HIDE DEF c, fits
<1>5. buf' \in [Clients -> 0 .. Room] /\ \A d \in Clients : d # c => buf'[d] = buf[d]
  BY <1>1, <1>2, <1>4 DEF SubInv, TypeOK
<1>6. TypeOK'
  BY <1>1, <1>3, <1>5 DEF SubInv, TypeOK
<1>7. TableInv'
  <2>1. \A d \in Clients : conn[d] # "open" => buf'[d] = 0
    BY <1>2, <1>5 DEF SubInv, TableInv
  <2> QED BY <1>1, <2>1, TableStays DEF SubInv, TableInv
<1>8. StallInv'
  BY <1>1, <1>3 DEF SubInv, StallInv
<1> QED BY <1>3, <1>6, <1>7, <1>8 DEF SubInv

LEMMA CloseAllInv == ASSUME SubInv, CloseAll PROVE SubInv'
<1>1. /\ pc' = "exit" /\ Closed(Clients) /\ fds' = <<>> /\ taken' = <<>>
      /\ UNCHANGED <<stop, i, local, took, tried>>
  BY DEF CloseAll
<1>2. /\ conn' \in [Clients -> {"away", "waiting", "open"}] /\ hung' \in [Clients -> BOOLEAN]
      /\ buf' \in [Clients -> 0 .. Room]
      /\ \A c \in Clients : conn'[c] = "away" /\ ~hung'[c] /\ buf'[c] = 0
  <2>1. Clients \in SUBSET Clients /\ TypeOK
    BY DEF SubInv
  <2> QED BY <1>1, <2>1, ClosedDoes
<1>3. n' = 0 /\ fds' \in Seq(Clients) /\ taken' \in Seq(0 .. Stall) /\ Len(taken') = 0
  BY <1>1 DEF n
<1>4. TypeOK'
  BY <1>1, <1>2, <1>3, Constants DEF SubInv, TypeOK
<1>5. TableInv'
  BY <1>2, <1>3 DEF TableInv
<1>6. TriedInv' /\ StallInv'
  BY <1>1, <1>3 DEF SubInv, TriedInv, StallInv, Casting
<1> QED BY <1>4, <1>5, <1>6 DEF SubInv

\* Steps that leave the thread's data alone: the end of a broadcast, stop, and
\* what the peers do.
LEMMA QuietInv ==
    ASSUME SubInv, UNCHANGED <<fds, taken, i, took, tried, local>>,
           pc' = pc \/ pc' = "sleep", stop' \in BOOLEAN,
           conn' \in [Clients -> {"away", "waiting", "open"}], hung' \in [Clients -> BOOLEAN],
           buf' \in [Clients -> 0 .. Room],
           \A c \in Clients : conn'[c] = "open" <=> conn[c] = "open",
           \A c \in Clients : conn'[c] = "away" => ~hung'[c],
           \A c \in Clients : conn'[c] # "open" => buf'[c] = 0,
           pc = "exit" => UNCHANGED conn
    PROVE  SubInv'
<1>1. n' = n
  BY DEF n
<1>2. TypeOK'
  BY <1>1 DEF SubInv, TypeOK
<1>3. TableInv'
  BY <1>1 DEF SubInv, TableInv
<1>4. TriedInv' /\ StallInv'
  BY <1>1 DEF SubInv, TriedInv, StallInv, Casting
<1> QED BY <1>2, <1>3, <1>4 DEF SubInv

LEMMA PeersInv ==
    ASSUME SubInv, NEW c \in Clients, Connect(c) \/ Read(c) \/ HangUp(c), pc # "exit"
    PROVE  SubInv'
<1>1. /\ conn \in [Clients -> {"away", "waiting", "open"}] /\ hung \in [Clients -> BOOLEAN]
      /\ buf \in [Clients -> 0 .. Room] /\ stop \in BOOLEAN
      /\ \A d \in Clients : conn[d] = "away" => ~hung[d]
      /\ \A d \in Clients : conn[d] # "open" => buf[d] = 0
  BY DEF SubInv, TypeOK, TableInv
<1>2. CASE Connect(c)
  <2>1. /\ conn[c] = "away" /\ conn' = [conn EXCEPT ![c] = "waiting"]
        /\ UNCHANGED <<pc, stop, fds, taken, i, hung, buf, local, took, tried>>
    BY <1>2 DEF Connect, table
  <2>2. /\ conn' \in [Clients -> {"away", "waiting", "open"}] /\ conn'[c] = "waiting"
        /\ \A d \in Clients : d # c => conn'[d] = conn[d]
    BY <1>1, <2>1
  <2>3. /\ \A d \in Clients : conn'[d] = "open" <=> conn[d] = "open"
        /\ \A d \in Clients : conn'[d] = "away" => ~hung'[d]
        /\ \A d \in Clients : conn'[d] # "open" => buf'[d] = 0
    BY <1>1, <2>1, <2>2
  <2> QED BY <1>1, <2>1, <2>2, <2>3, QuietInv
<1>3. CASE Read(c)
  <2>1. conn[c] = "open" /\ UNCHANGED <<pc, stop, fds, taken, i, conn, hung, local, took, tried>>
    BY <1>3 DEF Read, table
  <2>2. PICK left \in 0 .. buf[c] - 1 : buf' = [buf EXCEPT ![c] = left]
    BY <1>3 DEF Read
  <2>3. left \in 0 .. Room
    <3>1. buf[c] \in 0 .. Room
      BY <1>1
    <3> QED BY <3>1, Constants
  <2>4. buf' \in [Clients -> 0 .. Room] /\ \A d \in Clients : d # c => buf'[d] = buf[d]
    BY <1>1, <2>2, <2>3
  <2>5. /\ \A d \in Clients : conn'[d] = "open" <=> conn[d] = "open"
        /\ \A d \in Clients : conn'[d] = "away" => ~hung'[d]
        /\ \A d \in Clients : conn'[d] # "open" => buf'[d] = 0
    BY <1>1, <2>1, <2>4
  <2> QED BY <1>1, <2>1, <2>4, <2>5, QuietInv
<1>4. CASE HangUp(c)
  <2>1. /\ conn[c] # "away" /\ hung' = [hung EXCEPT ![c] = TRUE]
        /\ UNCHANGED <<pc, stop, fds, taken, i, conn, buf, local, took, tried>>
    BY <1>4 DEF HangUp, table
  <2>2. hung' \in [Clients -> BOOLEAN] /\ \A d \in Clients : d # c => hung'[d] = hung[d]
    BY <1>1, <2>1
  <2>3. \A d \in Clients : conn'[d] = "away" => ~hung'[d]
    BY <1>1, <2>1, <2>2
  <2> QED BY <1>1, <2>1, <2>2, <2>3, QuietInv
<1> QED BY <1>2, <1>3, <1>4

LEMMA SubNext == SubInv /\ [Next]_vars => SubInv'
<1> SUFFICES ASSUME SubInv, [Next]_vars PROVE SubInv'
  OBVIOUS
<1>1. CASE Sleep
  BY <1>1, SleepInv
<1>2. ASSUME NEW c \in Clients, Accept(c) \/ Reject(c) PROVE SubInv'
  BY <1>2, AcceptInv, RejectInv
<1>3. ASSUME NEW settled \in BOOLEAN, Accepted(settled) PROVE SubInv'
  BY <1>3, AcceptedInv
<1>4. CASE SendAll \/ SendFull \/ SendDrops \/ FinalLocal \/ CloseAll
  BY <1>4, SendAllInv, SendFullInv, SendDropsInv, FinalLocalInv, CloseAllInv
<1>5. /\ conn \in [Clients -> {"away", "waiting", "open"}] /\ hung \in [Clients -> BOOLEAN]
      /\ buf \in [Clients -> 0 .. Room] /\ stop \in BOOLEAN
      /\ \A d \in Clients : conn[d] = "away" => ~hung[d]
      /\ \A d \in Clients : conn[d] # "open" => buf[d] = 0
  BY DEF SubInv, TypeOK, TableInv
<1>6. CASE SendDone
  <2>1. /\ pc' = "sleep"
        /\ UNCHANGED <<stop, fds, taken, i, conn, hung, buf, local, took, tried>>
    BY <1>6 DEF SendDone, table, net
  <2> QED BY <1>5, <2>1, QuietInv
<1>7. CASE Stop
  <2>1. /\ stop' = TRUE
        /\ UNCHANGED <<pc, fds, taken, i, conn, hung, buf, local, took, tried>>
    BY <1>7 DEF Stop, table, net
  <2> QED BY <1>5, <2>1, QuietInv
<1>8. CASE Peers
  BY <1>8, PeersInv DEF Peers
<1>9. CASE UNCHANGED vars
  <2>1. UNCHANGED <<pc, stop, fds, taken, i, conn, hung, buf, local, took, tried>>
    BY <1>9 DEF vars, table, net
  <2> QED BY <1>5, <2>1, QuietInv
<1> QED
  BY <1>1, <1>2, <1>3, <1>4, <1>6, <1>7, <1>8, <1>9 DEF Next, Thread, Terminated

(* ------------------------------- the table ------------------------------- *)

LEMMA InvTable == SubInv => TableIsOpenSockets
<1> SUFFICES ASSUME SubInv, NEW c \in Clients
             PROVE  Cardinality({k \in 1 .. n : fds[k] = c}) = (IF conn[c] = "open" THEN 1 ELSE 0)
  BY DEF SubInv, TableIsOpenSockets
<1>1. CASE conn[c] = "open"
  <2>1. PICK k \in 1 .. n : fds[k] = c
    BY <1>1 DEF SubInv, TableInv
  <2>2. {j \in 1 .. n : fds[j] = c} = {k}
    BY <2>1 DEF SubInv, TableInv
  <2> QED BY <1>1, <2>2, FS_Singleton
<1>2. CASE conn[c] # "open"
  <2>1. {j \in 1 .. n : fds[j] = c} = {}
    BY <1>2 DEF SubInv, TableInv
  <2> QED BY <1>2, <2>1, FS_EmptySet
<1> QED BY <1>1, <1>2

LEMMA InvOwn == SubInv => EachOnItsOwn
<1> SUFFICES ASSUME SubInv PROVE EachTriedOnce /\ StallIsOwn
  BY DEF EachOnItsOwn
<1>1. n \in Nat /\ i \in Nat
  BY TypeParts DEF SubInv
<1>2. pc \in {"send", "final"} /\ i > n => \A k \in 1 .. n : k < i
  BY <1>1
<1>3. EachTriedOnce
  BY <1>2 DEF SubInv, TriedInv, Casting, EachTriedOnce
<1>4. StallIsOwn
  BY <1>2 DEF SubInv, StallInv, StallIsOwn
<1> QED BY <1>3, <1>4

\* The subscriber table by itself: its clients and the open sockets are the same,
\* each once, through every accept, removal, rejection and shutdown.
THEOREM TableHolds == Spec => []TableIsOpenSockets
  BY SubInit, SubNext, InvTable, PTL DEF Spec

\* In a broadcast each client is tried once and held only to its own stall limit.
THEOREM EachOnItsOwnHolds == Spec => []EachOnItsOwn
  BY SubInit, SubNext, InvOwn, PTL DEF Spec

(* ------------------------------- positions ------------------------------- *)

\* Multiples of the payload, and where a unit stands in its packet.
LEMMA Multiples ==
    ASSUME NEW q \in Nat
    PROVE  /\ (q + 1) * Payload = q * Payload + Payload
           /\ q * Payload \in Nat
           /\ 0 * Payload = 0
           /\ q # 0 => (q - 1) * Payload = q * Payload - Payload
<1>1. Payload \in Nat \ {0}
  BY Constants
<1> QED BY <1>1

LEMMA PlaceInPacket ==
    ASSUME NEW q \in Nat, NEW u \in 0 .. Payload - 1
    PROVE  (q * Payload + u) % Payload = u
<1>1. Payload \in Nat \ {0}
  BY Constants
<1> QED BY <1>1

LEMMA NextPacket ==
    ASSUME NEW a \in Nat
    PROVE  (a + Payload) % Payload = a % Payload
<1> DEFINE q == a \div Payload
           r == a % Payload
<1>1. Payload \in Nat \ {0}
  BY Constants
<1>2. r \in 0 .. Payload - 1 /\ a = q * Payload + r /\ q \in Nat
  BY <1>1
<1> HIDE DEF q, r
<1>3. a + Payload = (q + 1) * Payload + r
  BY <1>1, <1>2, Multiples
<1>4. ((q + 1) * Payload + r) % Payload = r
  BY <1>2, PlaceInPacket
<1> QED BY <1>3, <1>4 DEF r

\* One sequence of units after another.
LEMMA Concatenation ==
    ASSUME NEW a \in Seq(Nat), NEW b \in Seq(Nat)
    PROVE  /\ a \o b \in Seq(Nat) /\ Len(a) \in Nat /\ Len(b) \in Nat
           /\ Len(a \o b) = Len(a) + Len(b) /\ DOMAIN (a \o b) = 1 .. Len(a) + Len(b)
           /\ \A k \in 1 .. Len(a) : (a \o b)[k] = a[k]
           /\ \A k \in 1 .. Len(b) : (a \o b)[Len(a) + k] = b[k]
  OBVIOUS

\* The first g units of a packet.
LEMMA UnitsParts ==
    ASSUME NEW g \in Nat
    PROVE  /\ Units(g) \in Seq(Nat) /\ Len(Units(g)) = g
           /\ \A u \in 1 .. g : Units(g)[u] = u
  BY DEF Units

(* ------------------------------ the connection --------------------------- *)

\* What was sent to the bridge and not delivered to the program.
Line == rx \o pipe

\* The final packet was sent to the bridge, perhaps in part; nothing follows it.
Cut == pc = "final" /\ local /\ tried[Bridge] = 1

HandleOK ==
    /\ linked \in BOOLEAN /\ rx \in Seq(Nat) /\ pipe \in Seq(Nat) /\ owed \in Nat
    /\ Len(rx) < Payload

\* The handle and the daemon's end of the connection.
LinkInv ==
    /\ linked => ~hung[Bridge]
    /\ ~linked => conn[Bridge] = "away" \/ hung[Bridge]
    /\ linked /\ conn[Bridge] = "open" => Len(pipe) = buf[Bridge]
    /\ linked /\ conn[Bridge] = "waiting" => rx = <<>> /\ pipe = <<>> /\ owed = 0

\* The undelivered units are the packets owed and, only at the end, part of one.
OwedInv ==
    linked =>
        /\ owed * Payload <= Len(Line) /\ Len(Line) < owed * Payload + Payload
        /\ conn[Bridge] = "open" /\ ~Cut => Len(Line) = owed * Payload

StreamInv == HandleOK /\ LinkInv /\ OwedInv /\ Aligned

LEMMA StreamInvInit == StreamInit => StreamInv
<1> SUFFICES ASSUME StreamInit PROVE StreamInv
  OBVIOUS
<1>1. linked = FALSE /\ rx = <<>> /\ pipe = <<>> /\ owed = 0 /\ conn[Bridge] = "away"
  BY BridgeAssumption DEF StreamInit, Init
<1>2. HandleOK
  <2>1. linked \in BOOLEAN
    BY <1>1
  <2>2. rx \in Seq(Nat) /\ pipe \in Seq(Nat) /\ Len(rx) = 0 /\ owed = 0
    BY <1>1
  <2>3. 0 \in Nat /\ 0 < Payload
    BY Constants
  <2> QED BY <2>1, <2>2, <2>3 DEF HandleOK
<1> QED BY <1>1, <1>2 DEF StreamInv, LinkInv, OwedInv, Aligned

\* The units of the line: those collected, then those on their way.
LEMMA LineParts ==
    ASSUME HandleOK
    PROVE  /\ Len(rx) \in Nat /\ Len(pipe) \in Nat /\ Len(Line) = Len(rx) + Len(pipe)
           /\ DOMAIN Line = 1 .. Len(rx) + Len(pipe)
           /\ \A k \in 1 .. Len(rx) : Line[k] = rx[k]
           /\ \A k \in 1 .. Len(pipe) : Line[Len(rx) + k] = pipe[k]
  BY DEF HandleOK, Line

\* What a send gives the bridge: something only if it is the bridge's turn, and
\* then what fits.
LEMMA GivenParts ==
    ASSUME SubInv, StreamInv, i <= n
    PROVE  /\ Given \in Nat /\ Given <= Payload
           /\ Given # 0 => fds[i] = Bridge /\ linked /\ conn[Bridge] = "open"
           /\ fds[i] = Bridge /\ linked => Given = Least(Free(Bridge), Payload)
<1>1. buf[Bridge] \in Nat /\ buf[Bridge] <= Room
  BY TypeParts, BridgeAssumption DEF SubInv
<1>2. Least(Free(Bridge), Payload) \in Nat /\ Least(Free(Bridge), Payload) <= Payload
  BY <1>1, Constants DEF Free, Least
<1>3. Given \in Nat /\ Given <= Payload
  BY <1>2, Constants DEF Given
<1>4. Given # 0 => fds[i] = Bridge /\ ~hung[Bridge]
  BY DEF Given
<1>5. fds[i] = Bridge => conn[Bridge] = "open"
  BY TurnParts
<1>6. fds[i] = Bridge /\ ~hung[Bridge] => linked
  BY <1>5 DEF StreamInv, LinkInv
<1>7. fds[i] = Bridge /\ linked => Given = Least(Free(Bridge), Payload)
  BY DEF Given, StreamInv, LinkInv
<1> QED BY <1>3, <1>4, <1>5, <1>6, <1>7

\* Giving keeps the line in step, if it ended with a whole packet before: the
\* units given start the next one.
LEMMA GiveKeepsStep ==
    ASSUME SubInv, StreamInv, i <= n, Give,
           Given # 0 => Len(Line) = owed * Payload
    PROVE  /\ HandleOK' /\ Aligned'
           /\ Len(pipe') = Len(pipe) + Given /\ Len(Line') = Len(Line) + Given
           /\ linked => /\ owed' * Payload <= Len(Line')
                        /\ Len(Line') < owed' * Payload + Payload
                        /\ Given = 0 => owed' = owed
                        /\ Given = Payload => Len(Line') = owed' * Payload
<1>1. /\ Given \in Nat /\ Given <= Payload /\ (Given # 0 => linked)
      /\ Payload \in Nat /\ Payload > 0
  BY GivenParts, Constants
<1>2. /\ pipe' = pipe \o Units(Given) /\ linked' = linked /\ rx' = rx
      /\ owed' = IF Given = Payload THEN owed + 1 ELSE owed
  BY DEF Give
<1>3. /\ linked \in BOOLEAN /\ rx \in Seq(Nat) /\ pipe \in Seq(Nat) /\ owed \in Nat
      /\ Len(rx) < Payload
  BY DEF StreamInv, HandleOK
<1>4. /\ Units(Given) \in Seq(Nat) /\ Len(Units(Given)) = Given
      /\ \A u \in 1 .. Given : Units(Given)[u] = u
  BY <1>1, UnitsParts
<1> HIDE DEF Given
<1>5. /\ pipe' \in Seq(Nat) /\ Len(pipe') = Len(pipe) + Given
      /\ \A k \in 1 .. Len(pipe) : pipe'[k] = pipe[k]
      /\ \A u \in 1 .. Given : pipe'[Len(pipe) + u] = u
  <2> DEFINE U == Units(Given)
  <2>1. U \in Seq(Nat) /\ Len(U) = Given /\ pipe' = pipe \o U /\ \A u \in 1 .. Given : U[u] = u
    BY <1>2, <1>4
  <2>2. pipe \in Seq(Nat)
    BY <1>3
  <2> HIDE DEF U
  <2>3. /\ pipe \o U \in Seq(Nat) /\ Len(pipe \o U) = Len(pipe) + Len(U)
        /\ \A k \in 1 .. Len(pipe) : (pipe \o U)[k] = pipe[k]
        /\ \A k \in 1 .. Len(U) : (pipe \o U)[Len(pipe) + k] = U[k]
    <3>1. U \in Seq(Nat)
      BY <2>1
    <3> QED BY <2>2, <3>1, Concatenation
  <2> QED BY <2>1, <2>3
<1>6. HandleOK'
  BY <1>1, <1>2, <1>3, <1>5 DEF HandleOK
<1>7. /\ Len(Line) = Len(rx) + Len(pipe) /\ Len(rx) \in Nat /\ Len(pipe) \in Nat
      /\ DOMAIN Line = 1 .. Len(Line)
      /\ \A k \in 1 .. Len(rx) : Line[k] = rx[k]
      /\ \A k \in 1 .. Len(pipe) : Line[Len(rx) + k] = pipe[k]
  BY LineParts DEF StreamInv
<1>8. /\ Len(Line') = Len(Line) + Given
      /\ DOMAIN Line' = 1 .. Len(Line) + Given
      /\ \A k \in 1 .. Len(Line) : Line'[k] = Line[k]
      /\ \A u \in 1 .. Given : Line'[Len(Line) + u] = u
  <2>1. /\ Line' = rx \o pipe' /\ rx \in Seq(Nat)
    BY <1>2, <1>3 DEF Line
  <2>2. /\ Len(Line') = Len(rx) + Len(pipe') /\ DOMAIN Line' = 1 .. Len(rx) + Len(pipe')
        /\ \A k \in 1 .. Len(rx) : Line'[k] = rx[k]
        /\ \A k \in 1 .. Len(pipe') : Line'[Len(rx) + k] = pipe'[k]
    <3>1. rx \in Seq(Nat) /\ pipe' \in Seq(Nat) /\ Line' = rx \o pipe'
      BY <1>5, <2>1
    <3> QED BY <3>1, Concatenation
  <2>3. ASSUME NEW k \in 1 .. Len(Line) PROVE Line'[k] = Line[k]
    <3>1. CASE k \in 1 .. Len(rx)
      BY <1>7, <2>2, <3>1
    <3>2. CASE k \notin 1 .. Len(rx)
      <4>1. k - Len(rx) \in 1 .. Len(pipe) /\ k - Len(rx) \in 1 .. Len(pipe') /\ k = Len(rx) + (k - Len(rx))
        BY <1>1, <1>5, <1>7, <3>2
      <4> QED BY <1>5, <1>7, <2>2, <4>1
    <3> QED BY <3>1, <3>2
  <2>4. ASSUME NEW u \in 1 .. Given PROVE Line'[Len(Line) + u] = u
    <3>1. Len(pipe) + u \in 1 .. Len(pipe') /\ Len(Line) + u = Len(rx) + (Len(pipe) + u)
      BY <1>1, <1>5, <1>7
    <3> QED BY <1>5, <2>2, <3>1
  <2> QED BY <1>1, <1>5, <1>7, <2>2, <2>3, <2>4
<1>9. Aligned'
  <2> SUFFICES ASSUME linked, NEW k \in 1 .. Len(Line) + Given
               PROVE  Line'[k] = 1 + ((k - 1) % Payload)
    BY <1>2, <1>8 DEF Aligned, Line
  <2>1. CASE k \in 1 .. Len(Line)
    <3>1. Line[k] = 1 + ((k - 1) % Payload)
      BY <1>7, <2>1 DEF StreamInv, Aligned, Line
    <3> QED BY <1>8, <2>1, <3>1
  <2>2. CASE k \notin 1 .. Len(Line)
    <3>1. k - Len(Line) \in 1 .. Given /\ Given # 0 /\ k = Len(Line) + (k - Len(Line))
      BY <1>1, <1>7, <2>2
    <3>2. Line'[k] = k - Len(Line)
      BY <1>8, <3>1
    <3>3. k - Len(Line) - 1 \in 0 .. Payload - 1 /\ owed \in Nat
      BY <1>1, <1>3, <1>7, <3>1
    <3>4. (owed * Payload + (k - Len(Line) - 1)) % Payload = k - Len(Line) - 1
      BY <3>3, PlaceInPacket
    <3>5. owed * Payload + (k - Len(Line) - 1) = k - 1
      BY <1>7, <3>1
    <3> QED BY <1>7, <3>2, <3>4, <3>5
  <2> QED BY <2>1, <2>2
<1>10. linked => /\ owed' * Payload <= Len(Line')
                 /\ Len(Line') < owed' * Payload + Payload
                 /\ Given = 0 => owed' = owed
                 /\ Given = Payload => Len(Line') = owed' * Payload
  <2> SUFFICES ASSUME linked
               PROVE  /\ owed' * Payload <= Len(Line')
                      /\ Len(Line') < owed' * Payload + Payload
                      /\ Given = 0 => owed' = owed
                      /\ Given = Payload => Len(Line') = owed' * Payload
    OBVIOUS
  <2>1. owed * Payload <= Len(Line) /\ Len(Line) < owed * Payload + Payload
    BY DEF StreamInv, OwedInv
  <2>2. (owed + 1) * Payload = owed * Payload + Payload /\ owed * Payload \in Nat
    BY <1>3, Multiples
  <2>3. Len(Line') = Len(Line) + Given /\ Len(Line) \in Nat
    BY <1>7, <1>8
  <2>4. CASE Given = 0
    BY <1>1, <1>2, <2>1, <2>3, <2>4
  <2>5. CASE Given = Payload
    <3>1. owed' = owed + 1 /\ Len(Line) = owed * Payload
      BY <1>1, <1>2, <2>5
    <3> QED BY <1>1, <2>2, <2>3, <2>5, <3>1
  <2>6. CASE Given # 0 /\ Given # Payload
    <3>1. owed' = owed /\ Len(Line) = owed * Payload
      BY <1>2, <2>6
    <3> QED BY <1>1, <2>2, <2>3, <2>6, <3>1
  <2> QED BY <2>4, <2>5, <2>6
<1> QED BY <1>5, <1>6, <1>8, <1>9, <1>10

(* ------------------------------- the steps ------------------------------- *)

\* A step that leaves the handle alone and does to the connection what it allows.
LEMMA HandleStays ==
    ASSUME StreamInv, UNCHANGED handle,
           linked => ~hung'[Bridge],
           ~linked => conn'[Bridge] = "away" \/ hung'[Bridge],
           linked /\ conn'[Bridge] = "open" => Len(pipe) = buf'[Bridge],
           linked /\ conn'[Bridge] = "open" /\ ~Cut' => Len(Line) = owed * Payload,
           linked /\ conn'[Bridge] = "waiting" => rx = <<>> /\ pipe = <<>> /\ owed = 0
    PROVE  StreamInv'
<1>1. UNCHANGED <<linked, rx, pipe, owed>>
  BY DEF handle
<1>2. Line' = Line
  BY <1>1 DEF Line
<1>3. HandleOK' /\ Aligned'
  BY <1>1 DEF StreamInv, HandleOK, Aligned
<1>4. LinkInv'
  BY <1>1 DEF LinkInv
<1>5. OwedInv'
  <2>1. linked => owed * Payload <= Len(Line) /\ Len(Line) < owed * Payload + Payload
    BY DEF StreamInv, OwedInv
  <2> QED BY <1>1, <1>2, <2>1 DEF OwedInv
<1> QED BY <1>3, <1>4, <1>5 DEF StreamInv

\* The sends of a broadcast, with what they put on the bridge's connection.
LEMMA SendGives ==
    ASSUME SubInv, StreamInv, SendAll \/ SendFull \/ SendDrops \/ FinalLocal, Give
    PROVE  StreamInv'
<1>1. /\ i <= n /\ Casting /\ Try(fds[i]) /\ UNCHANGED <<pc, local>>
  BY DEF SendAll, SendFull, SendDrops, FinalLocal, Sending, Casting
<1>2. /\ fds[i] \in Clients /\ Bridge \in Clients /\ tried[fds[i]] = 0 /\ conn[fds[i]] = "open"
      /\ tried \in [Clients -> Nat]
  BY <1>1, TurnParts, BridgeAssumption DEF SubInv, TypeOK
<1>3. /\ Given \in Nat /\ Given <= Payload
      /\ Given # 0 => fds[i] = Bridge /\ linked /\ conn[Bridge] = "open"
      /\ fds[i] = Bridge /\ linked => Given = Least(Free(Bridge), Payload)
  BY <1>1, GivenParts
<1>4. /\ fds[i] = Bridge => ~Cut
      /\ fds[i] # Bridge => tried'[Bridge] = tried[Bridge]
      /\ fds[i] = Bridge => tried'[Bridge] = 1
  BY <1>1, <1>2 DEF Cut, Try
<1>5. fds[i] # Bridge => Cut' = Cut
  BY <1>1, <1>4 DEF Cut
<1>6. linked /\ conn[Bridge] = "open" /\ ~Cut => Len(Line) = owed * Payload
  BY DEF StreamInv, OwedInv
<1>7. Given # 0 => Len(Line) = owed * Payload
  BY <1>3, <1>4, <1>6
<1>8. /\ HandleOK' /\ Aligned'
      /\ Len(pipe') = Len(pipe) + Given /\ Len(Line') = Len(Line) + Given
      /\ linked => /\ owed' * Payload <= Len(Line')
                   /\ Len(Line') < owed' * Payload + Payload
                   /\ Given = 0 => owed' = owed
                   /\ Given = Payload => Len(Line') = owed' * Payload
  BY <1>1, <1>7, GiveKeepsStep
<1>9. /\ UNCHANGED <<linked, rx>> /\ pipe' = pipe \o Units(Given)
      /\ pipe \in Seq(Nat) /\ Len(pipe) \in Nat /\ Len(Line) \in Nat /\ pipe' \in Seq(Nat)
  BY <1>8, LineParts DEF Give, StreamInv, HandleOK
<1>10. /\ buf \in [Clients -> 0 .. Room] /\ buf[Bridge] \in Nat /\ buf[Bridge] <= Room
       /\ conn \in [Clients -> {"away", "waiting", "open"}] /\ hung \in [Clients -> BOOLEAN]
  BY <1>2, TypeParts DEF SubInv, TypeOK
<1> HIDE DEF Given
\* What each send does to the bridge's own connection.
<1>11. \/ /\ conn'[Bridge] = conn[Bridge] /\ hung'[Bridge] = hung[Bridge]
          /\ linked /\ conn[Bridge] = "open" => buf'[Bridge] = buf[Bridge] + Given
          /\ fds[i] = Bridge /\ linked => Given = 0 \/ Given = Payload \/ Cut'
       \/ fds[i] = Bridge /\ conn'[Bridge] = "away" /\ ~hung'[Bridge]
  <2>1. CASE SendAll
    <3>1. /\ UNCHANGED <<conn, hung>> /\ Free(fds[i]) >= Payload
          /\ buf' = [buf EXCEPT ![fds[i]] = @ + Payload]
      BY <2>1 DEF SendAll
    <3>2. fds[i] = Bridge /\ linked => Given = Payload
      <4>1. Free(Bridge) \in Int /\ Payload \in Nat
        BY <1>10, Constants DEF Free
      <4> QED BY <1>3, <3>1, <4>1 DEF Least
    <3>3. CASE fds[i] = Bridge
      BY <1>2, <1>10, <3>1, <3>2, <3>3
    <3>4. CASE fds[i] # Bridge
      BY <1>2, <1>3, <1>10, <3>1, <3>4
    <3> QED BY <3>3, <3>4
  <2>2. CASE SendFull
    <3>1. UNCHANGED <<conn, hung, buf>> /\ Free(fds[i]) = 0
      BY <2>2 DEF SendFull, net
    <3>2. Given = 0
      BY <1>3, <3>1, Constants DEF Least
    <3> QED BY <1>10, <3>1, <3>2
  <2>3. CASE SendDrops
    <3>1. Closed({fds[i]}) /\ {fds[i]} \in SUBSET Clients /\ TypeOK
      BY <1>2, <2>3 DEF SendDrops, SubInv
    <3>2. /\ \A c \in {fds[i]} : conn'[c] = "away" /\ ~hung'[c] /\ buf'[c] = 0
          /\ \A c \in Clients \ {fds[i]} : conn'[c] = conn[c] /\ hung'[c] = hung[c] /\ buf'[c] = buf[c]
      BY <3>1, ClosedDoes
    <3>3. CASE fds[i] = Bridge
      BY <3>2, <3>3
    <3>4. CASE fds[i] # Bridge
      <4>1. Given = 0
        BY <1>3, <3>4
      <4> QED BY <1>2, <1>10, <3>2, <3>4, <4>1
    <3> QED BY <3>3, <3>4
  <2>4. CASE FinalLocal
    <3>1. /\ UNCHANGED <<conn, hung>> /\ pc = "final" /\ local
          /\ buf' = [buf EXCEPT ![fds[i]] = @ + IF Free(fds[i]) < Payload THEN Free(fds[i]) ELSE Payload]
      BY <2>4 DEF FinalLocal
    <3>2. CASE fds[i] = Bridge
      <4>1. Cut'
        BY <1>1, <1>4, <3>1, <3>2 DEF Cut
      <4>2. linked => buf'[Bridge] = buf[Bridge] + Given
        BY <1>2, <1>3, <1>10, <3>1, <3>2 DEF Least
      <4> QED BY <3>1, <4>1, <4>2
    <3>3. CASE fds[i] # Bridge
      BY <1>2, <1>3, <1>10, <3>1, <3>3
    <3> QED BY <3>2, <3>3
  <2> QED BY <2>1, <2>2, <2>3, <2>4
<1>12. LinkInv'
  <2>1. LinkInv
    BY DEF StreamInv
  <2>2. CASE fds[i] = Bridge /\ conn'[Bridge] = "away" /\ ~hung'[Bridge]
    BY <1>9, <2>2 DEF LinkInv
  <2>3. CASE /\ conn'[Bridge] = conn[Bridge] /\ hung'[Bridge] = hung[Bridge]
             /\ linked /\ conn[Bridge] = "open" => buf'[Bridge] = buf[Bridge] + Given
    <3>1. linked /\ conn[Bridge] = "open" => Len(pipe') = buf'[Bridge]
      BY <1>8, <2>1, <2>3 DEF LinkInv
    <3>2. linked /\ conn[Bridge] = "waiting" => rx' = <<>> /\ pipe' = <<>> /\ owed' = 0
      <4> SUFFICES ASSUME linked, conn[Bridge] = "waiting"
                   PROVE  rx' = <<>> /\ pipe' = <<>> /\ owed' = 0
        OBVIOUS
      <4>1. Given = 0 /\ rx = <<>> /\ pipe = <<>> /\ owed = 0
        BY <1>3, <2>1 DEF LinkInv
      <4>2. Len(pipe') = 0 /\ owed' = 0
        BY <1>8, <4>1
      <4> QED BY <1>9, <4>1, <4>2
    <3> QED BY <1>9, <2>1, <2>3, <3>1, <3>2 DEF LinkInv
  <2> QED BY <1>11, <2>2, <2>3
<1>13. OwedInv'
  <2> SUFFICES ASSUME linked, conn'[Bridge] = "open", ~Cut'
               PROVE  Len(Line') = owed' * Payload
    BY <1>8, <1>9 DEF OwedInv
  <2>1. conn[Bridge] = "open"
    BY <1>11
  <2>2. CASE fds[i] = Bridge
    <3>1. Len(Line) = owed * Payload /\ (Given = 0 \/ Given = Payload)
      BY <1>4, <1>6, <1>11, <2>1, <2>2
    <3> QED BY <1>8, <1>9, <3>1
  <2>3. CASE fds[i] # Bridge
    <3>1. Given = 0 /\ Len(Line) = owed * Payload
      BY <1>3, <1>5, <1>6, <2>1, <2>3
    <3> QED BY <1>8, <1>9, <3>1
  <2> QED BY <2>2, <2>3
<1> QED BY <1>8, <1>12, <1>13 DEF StreamInv

\* The daemon's other steps leave the handle alone.
LEMMA ServesElse ==
    ASSUME SubInv, StreamInv, UNCHANGED handle,
           \/ Sleep \/ SendDone \/ CloseAll \/ Stop
           \/ \E c \in Clients : Accept(c) \/ Reject(c)
           \/ \E settled \in BOOLEAN : Accepted(settled)
    PROVE  StreamInv'
<1>1. /\ Bridge \in Clients /\ LinkInv
      /\ linked /\ conn[Bridge] = "open" /\ ~Cut => Len(Line) = owed * Payload
      /\ conn \in [Clients -> {"away", "waiting", "open"}]
  BY BridgeAssumption DEF SubInv, TypeOK, StreamInv, OwedInv
<1>2. CASE Sleep \/ SendDone \/ Stop \/ \E settled \in BOOLEAN : Accepted(settled)
  <2>1. UNCHANGED <<conn, hung, buf>>
    BY <1>2 DEF Sleep, SendDone, Stop, Accepted, net
  <2>2. Cut => Cut'
    <3>1. CASE Stop
      BY <3>1 DEF Stop, Cut
    <3>2. CASE Sleep \/ SendDone \/ \E settled \in BOOLEAN : Accepted(settled)
      BY <3>2 DEF Sleep, SendDone, Accepted, Cut
    <3> QED BY <1>2, <3>1, <3>2
  <2> QED BY <1>1, <2>1, <2>2, HandleStays DEF LinkInv
<1>3. CASE CloseAll
  <2>1. conn'[Bridge] = "away" /\ ~hung'[Bridge]
    <3>1. Clients \in SUBSET Clients /\ TypeOK /\ Closed(Clients)
      BY <1>3 DEF SubInv, CloseAll
    <3> QED BY <1>1, <3>1, ClosedDoes
  <2> QED BY <2>1, HandleStays
<1>4. ASSUME NEW c \in Clients, Accept(c) PROVE StreamInv'
  <2>1. /\ conn[c] = "waiting" /\ conn' = [conn EXCEPT ![c] = "open"]
        /\ UNCHANGED <<pc, local, tried, hung, buf>>
    BY <1>4 DEF Accept
  <2>2. Cut' = Cut
    BY <2>1 DEF Cut
  <2>3. CASE c = Bridge
    <3>1. conn'[Bridge] = "open" /\ buf'[Bridge] = 0
      BY <1>1, <2>1, <2>3 DEF SubInv, TableInv
    <3>2. linked => rx = <<>> /\ pipe = <<>> /\ owed = 0
      BY <1>1, <2>1, <2>3 DEF LinkInv
    <3>3. linked => Len(pipe) = 0 /\ Len(Line) = owed * Payload
      <4>1. HandleOK /\ 0 * Payload = 0
        BY Multiples DEF StreamInv
      <4> QED BY <3>2, <4>1, LineParts
    <3> QED BY <1>1, <2>1, <2>3, <3>1, <3>3, HandleStays DEF LinkInv
  <2>4. CASE c # Bridge
    <3>1. conn'[Bridge] = conn[Bridge]
      BY <1>1, <2>1, <2>4
    <3> QED BY <1>1, <2>1, <2>2, <3>1, HandleStays DEF LinkInv
  <2> QED BY <2>3, <2>4
<1>5. ASSUME NEW c \in Clients, Reject(c) PROVE StreamInv'
  <2>1. Closed({c}) /\ {c} \in SUBSET Clients /\ TypeOK /\ UNCHANGED <<pc, local, tried>>
    BY <1>5 DEF Reject, SubInv
  <2>2. /\ \A d \in {c} : conn'[d] = "away" /\ ~hung'[d] /\ buf'[d] = 0
        /\ \A d \in Clients \ {c} : conn'[d] = conn[d] /\ hung'[d] = hung[d] /\ buf'[d] = buf[d]
    BY <2>1, ClosedDoes
  <2>3. CASE c = Bridge
    BY <2>2, <2>3, HandleStays
  <2>4. CASE c # Bridge
    <3>1. /\ conn'[Bridge] = conn[Bridge] /\ hung'[Bridge] = hung[Bridge]
          /\ buf'[Bridge] = buf[Bridge]
      BY <1>1, <2>2, <2>4
    <3>2. Cut' = Cut
      BY <2>1 DEF Cut
    <3> QED BY <1>1, <3>1, <3>2, HandleStays DEF LinkInv
  <2> QED BY <2>3, <2>4
<1> QED BY <1>2, <1>3, <1>4, <1>5

\* A new connection starts with nothing sent and nothing collected.
LEMMA DialInv == ASSUME SubInv, StreamInv, Dial PROVE StreamInv'
<1>1. /\ Connect(Bridge) /\ linked' = TRUE /\ rx' = <<>> /\ pipe' = <<>> /\ owed' = 0
  BY DEF Dial
<1>2. conn'[Bridge] = "waiting" /\ ~hung'[Bridge]
  BY <1>1, BridgeAssumption DEF Connect, SubInv, TypeOK, TableInv
<1>3. HandleOK'
  <2>1. linked' \in BOOLEAN
    BY <1>1
  <2>2. rx' \in Seq(Nat) /\ pipe' \in Seq(Nat) /\ Len(rx') = 0 /\ owed' = 0
    BY <1>1
  <2>3. 0 \in Nat /\ 0 < Payload
    BY Constants
  <2> QED BY <2>1, <2>2, <2>3 DEF HandleOK
<1>4. Len(Line') = 0 /\ DOMAIN Line' = {}
  BY <1>1 DEF Line
<1>5. Aligned'
  BY <1>4 DEF Aligned, Line
<1>6. OwedInv'
  <2>1. 0 * Payload = 0 /\ 0 < Payload /\ Payload \in Nat
    BY Multiples, Constants
  <2> QED BY <1>1, <1>2, <1>4, <2>1 DEF OwedInv
<1>7. LinkInv'
  BY <1>1, <1>2 DEF LinkInv
<1> QED BY <1>3, <1>5, <1>6, <1>7 DEF StreamInv

\* One read: what it takes from the line.
FillTakes(k) ==
    LET got == rx \o SubSeq(pipe, 1, k) IN
    /\ pipe' = SubSeq(pipe, k + 1, Len(pipe))
    /\ rx' = IF Len(got) = Payload THEN <<>> ELSE got
    /\ owed' = IF got = Units(Payload) THEN owed - 1 ELSE owed

LEMMA FillInv ==
    ASSUME SubInv, StreamInv, linked, NEW k \in 1 .. Least(Len(pipe), Payload - Len(rx)),
           FillTakes(k), UNCHANGED <<pc, conn, hung, local, tried, linked>>,
           conn[Bridge] = "open" => buf'[Bridge] = buf[Bridge] - k
    PROVE  StreamInv'
<1> DEFINE head == SubSeq(pipe, 1, k)
           got == rx \o head
           rest == SubSeq(pipe, k + 1, Len(pipe))
<1>1. /\ rx \in Seq(Nat) /\ pipe \in Seq(Nat) /\ owed \in Nat /\ linked \in BOOLEAN
      /\ Len(rx) \in Nat /\ Len(pipe) \in Nat /\ Len(rx) < Payload
      /\ Payload \in Nat /\ Payload > 0
  BY Constants DEF StreamInv, HandleOK
<1>2. k \in Nat /\ k >= 1 /\ k <= Len(pipe) /\ Len(rx) + k <= Payload
  BY <1>1 DEF Least
<1>3. /\ head \in Seq(Nat) /\ Len(head) = k
      /\ \A j \in 1 .. k : head[j] = pipe[j]
  BY <1>1, <1>2
<1>4. /\ rest \in Seq(Nat) /\ Len(rest) = Len(pipe) - k
      /\ \A j \in 1 .. Len(pipe) - k : rest[j] = pipe[k + j]
  BY <1>1, <1>2
<1> HIDE DEF head, rest
<1>5. /\ got \in Seq(Nat) /\ Len(got) = Len(rx) + k
      /\ \A j \in 1 .. Len(rx) : got[j] = rx[j]
      /\ \A j \in 1 .. k : got[Len(rx) + j] = head[j]
  <2>1. rx \in Seq(Nat) /\ head \in Seq(Nat)
    BY <1>1, <1>3
  <2>2. /\ got \in Seq(Nat) /\ Len(got) = Len(rx) + Len(head)
        /\ \A j \in 1 .. Len(rx) : got[j] = rx[j]
        /\ \A j \in 1 .. Len(head) : got[Len(rx) + j] = head[j]
    BY <2>1, Concatenation
  <2> QED BY <1>3, <2>2
<1>6. /\ Len(Line) = Len(rx) + Len(pipe) /\ DOMAIN Line = 1 .. Len(Line)
      /\ \A j \in 1 .. Len(rx) : Line[j] = rx[j]
      /\ \A j \in 1 .. Len(pipe) : Line[Len(rx) + j] = pipe[j]
  BY LineParts DEF StreamInv
<1> HIDE DEF got
<1>7. \A j \in 1 .. Len(got) : got[j] = Line[j]
  <2> SUFFICES ASSUME NEW j \in 1 .. Len(got) PROVE got[j] = Line[j]
    OBVIOUS
  <2>1. CASE j \in 1 .. Len(rx)
    BY <1>5, <1>6, <2>1
  <2>2. CASE j \notin 1 .. Len(rx)
    <3>1. j - Len(rx) \in 1 .. k /\ j - Len(rx) \in 1 .. Len(pipe) /\ j = Len(rx) + (j - Len(rx))
      BY <1>1, <1>2, <1>5, <2>2
    <3> QED BY <1>3, <1>5, <1>6, <3>1
  <2> QED BY <2>1, <2>2
<1>8. \A j \in 1 .. Len(rest) : rest[j] = Line[Len(got) + j]
  <2> SUFFICES ASSUME NEW j \in 1 .. Len(rest) PROVE rest[j] = Line[Len(got) + j]
    OBVIOUS
  <2>1. j \in 1 .. Len(pipe) - k /\ k + j \in 1 .. Len(pipe) /\ Len(got) + j = Len(rx) + (k + j)
    BY <1>1, <1>2, <1>4, <1>5
  <2> QED BY <1>4, <1>6, <2>1
<1>9. Len(Line) = Len(got) + Len(rest) /\ Len(got) \in Nat /\ Len(rest) \in Nat /\ Len(got) <= Payload
  BY <1>1, <1>2, <1>4, <1>5, <1>6
<1>10. \A j \in 1 .. Len(Line) : Line[j] = 1 + ((j - 1) % Payload)
  BY <1>6 DEF StreamInv, Aligned, Line
<1>11. /\ pipe' = rest /\ rx' = (IF Len(got) = Payload THEN <<>> ELSE got)
       /\ owed' = (IF got = Units(Payload) THEN owed - 1 ELSE owed)
  BY DEF FillTakes, got, head, rest
<1>12. /\ owed * Payload <= Len(Line) /\ Len(Line) < owed * Payload + Payload
       /\ conn[Bridge] = "open" /\ ~Cut => Len(Line) = owed * Payload
  BY DEF StreamInv, OwedInv
<1>13. Cut' = Cut
  BY DEF Cut
\* A frame that fills up is a packet: it is delivered.
<1>14. CASE Len(got) = Payload
  <2>1. \A j \in 1 .. Payload : got[j] = j
    <3> SUFFICES ASSUME NEW j \in 1 .. Payload PROVE got[j] = j
      OBVIOUS
    <3>1. j - 1 \in 0 .. Payload - 1 /\ 0 * Payload = 0 /\ j \in Nat
      BY <1>1, Multiples
    <3>2. (0 * Payload + (j - 1)) % Payload = j - 1
      BY <3>1, PlaceInPacket
    <3>3. (j - 1) % Payload = j - 1
      BY <3>1, <3>2
    <3>4. got[j] = 1 + ((j - 1) % Payload)
      <4>1. j \in 1 .. Len(got) /\ j \in 1 .. Len(Line)
        BY <1>1, <1>9, <1>14
      <4> QED BY <1>7, <1>10, <4>1
    <3> QED BY <3>1, <3>3, <3>4
  <2>2. got = Units(Payload)
    <3>1. got = [j \in 1 .. Payload |-> got[j]]
      BY <1>5, <1>14
    <3>2. [j \in 1 .. Payload |-> got[j]] = [j \in 1 .. Payload |-> j]
      BY <2>1
    <3> QED BY <3>1, <3>2 DEF Units
  <2>3. owed # 0
    BY <1>1, <1>9, <1>12, <1>14, Multiples
  <2>4. /\ owed' = owed - 1 /\ owed' \in Nat /\ rx' = <<>> /\ pipe' = rest
        /\ owed' * Payload = owed * Payload - Payload
    BY <1>1, <1>11, <1>14, <2>2, <2>3, Multiples
  <2>5. HandleOK'
    <3>1. <<>> \in Seq(Nat) /\ Len(<<>>) = 0
      OBVIOUS
    <3> QED BY <1>1, <1>4, <2>4, <3>1 DEF HandleOK
  <2>6. /\ Len(Line') = Len(rest) /\ DOMAIN Line' = 1 .. Len(rest)
        /\ \A j \in 1 .. Len(rest) : Line'[j] = rest[j]
    <3>1. Line' = rest
      BY <1>4, <2>4 DEF Line
    <3> QED BY <1>4, <3>1
  <2>7. Aligned'
    <3> SUFFICES ASSUME NEW j \in 1 .. Len(rest) PROVE Line'[j] = 1 + ((j - 1) % Payload)
      BY <2>6 DEF Aligned, Line
    <3>1. j - 1 \in Nat /\ Payload + j \in 1 .. Len(Line) /\ Payload + j - 1 = (j - 1) + Payload
      BY <1>1, <1>9, <1>14
    <3>2. Line'[j] = 1 + (((j - 1) + Payload) % Payload)
      BY <1>8, <1>10, <1>14, <2>6, <3>1, SMTT(20)
    <3>3. ((j - 1) + Payload) % Payload = (j - 1) % Payload
      BY <3>1, NextPacket
    <3> QED BY <3>2, <3>3
  <2>8. OwedInv'
    <3>1. Len(Line') = Len(Line) - Payload /\ owed * Payload \in Nat
      BY <1>1, <1>9, <1>14, <2>6, Multiples
    <3> QED BY <1>1, <1>9, <1>12, <1>13, <2>4, <3>1 DEF OwedInv
  <2>9. LinkInv'
    BY <1>2, <1>4, <2>4 DEF StreamInv, LinkInv
  <2> QED BY <2>5, <2>7, <2>8, <2>9 DEF StreamInv
<1>15. CASE Len(got) # Payload
  <2>1. got # Units(Payload)
    BY <1>1, <1>15, UnitsParts
  <2>2. owed' = owed /\ rx' = got /\ pipe' = rest
    BY <1>11, <1>15, <2>1
  <2>3. HandleOK'
    <3>1. Len(got) < Payload
      BY <1>1, <1>9, <1>15
    <3> QED BY <1>1, <1>4, <1>5, <2>2, <3>1 DEF HandleOK
  <2>4. /\ Len(Line') = Len(Line) /\ DOMAIN Line' = 1 .. Len(Line)
        /\ \A j \in 1 .. Len(Line) : Line'[j] = Line[j]
    <3>1. Line' = got \o rest /\ got \in Seq(Nat) /\ rest \in Seq(Nat)
      BY <1>4, <1>5, <2>2 DEF Line
    <3>2. /\ Len(Line') = Len(got) + Len(rest) /\ DOMAIN Line' = 1 .. Len(got) + Len(rest)
          /\ \A j \in 1 .. Len(got) : Line'[j] = got[j]
          /\ \A j \in 1 .. Len(rest) : Line'[Len(got) + j] = rest[j]
      BY <3>1, Concatenation
    <3>3. ASSUME NEW j \in 1 .. Len(Line) PROVE Line'[j] = Line[j]
      <4>1. CASE j \in 1 .. Len(got)
        BY <1>7, <3>2, <4>1
      <4>2. CASE j \notin 1 .. Len(got)
        <5>1. j - Len(got) \in 1 .. Len(rest) /\ j = Len(got) + (j - Len(got))
          BY <1>9, <4>2
        <5> QED BY <1>8, <3>2, <5>1
      <4> QED BY <4>1, <4>2
    <3> QED BY <1>9, <3>2, <3>3
  <2>5. Aligned'
    BY <1>10, <2>4 DEF Aligned, Line
  <2>6. OwedInv'
    BY <1>12, <1>13, <2>2, <2>4 DEF OwedInv
  <2>7. LinkInv'
    <3>1. conn[Bridge] # "waiting"
      <4>1. pipe # <<>>
        BY <1>2
      <4> QED BY <4>1 DEF StreamInv, LinkInv
    <3>2. conn[Bridge] = "open" => Len(rest) = buf'[Bridge]
      BY <1>4 DEF StreamInv, LinkInv
    <3> QED BY <2>2, <3>1, <3>2 DEF StreamInv, LinkInv
  <2> QED BY <2>3, <2>5, <2>6, <2>7 DEF StreamInv
<1> QED BY <1>14, <1>15

\* A read takes no more than the kernel holds for the connection.
LEMMA FillIsRead ==
    ASSUME SubInv, StreamInv, Fill
    PROVE  /\ (pc # "exit" /\ Read(Bridge)) \/ UNCHANGED vars
           /\ StreamInv'
<1>1. PICK k \in 1 .. Least(Len(pipe), Payload - Len(rx)) :
        /\ FillTakes(k)
        /\ buf' = [buf EXCEPT ![Bridge] = IF conn[Bridge] = "open" THEN @ - k ELSE @]
  BY DEF Fill, FillTakes
<1>2. linked /\ UNCHANGED <<pc, stop, table, i, conn, hung, local, took, tried, linked>>
  BY DEF Fill
<1>3. /\ Len(rx) \in Nat /\ Len(pipe) \in Nat /\ Payload \in Nat
      /\ buf \in [Clients -> 0 .. Room] /\ Bridge \in Clients /\ buf[Bridge] \in Nat
  BY LineParts, Constants, BridgeAssumption, TypeParts DEF SubInv, TypeOK, StreamInv, HandleOK
<1>4. k \in Nat /\ k >= 1 /\ k <= Len(pipe)
  BY <1>3 DEF Least
<1>5. CASE conn[Bridge] = "open"
  <2>1. Len(pipe) = buf[Bridge]
    BY <1>2, <1>5 DEF StreamInv, LinkInv
  <2>2. buf' = [buf EXCEPT ![Bridge] = buf[Bridge] - k] /\ buf'[Bridge] = buf[Bridge] - k
    BY <1>1, <1>3, <1>5
  <2>3. buf[Bridge] - k \in 0 .. buf[Bridge] - 1
    BY <1>3, <1>4, <2>1
  <2>4. Read(Bridge)
    BY <1>2, <1>5, <2>2, <2>3 DEF Read
  <2>5. pc # "exit"
    BY <1>3, <1>5 DEF SubInv, TableInv
  <2>6. StreamInv'
    BY <1>1, <1>2, <2>2, FillInv
  <2> QED BY <2>4, <2>5, <2>6
<1>6. CASE conn[Bridge] # "open"
  <2>1. buf' = buf
    BY <1>1, <1>3, <1>6
  <2>2. UNCHANGED vars
    BY <1>2, <2>1 DEF vars, net
  <2>3. StreamInv'
    BY <1>1, <1>2, <1>6, FillInv
  <2> QED BY <2>2, <2>3
<1> QED BY <1>5, <1>6

\* Every step of the composition is a step of the table, or none, for the table.
LEMMA StreamStep ==
    ASSUME SubInv, StreamInv, [StreamNext]_allVars
    PROVE  [Next]_vars
<1>1. Bridge \in Clients
  BY BridgeAssumption
<1>2. CASE Serve
  BY <1>2 DEF Serve, Next, Thread
<1>3. CASE Dial
  BY <1>1, <1>3 DEF Dial, Next, Peers
<1>4. CASE Fill
  BY <1>1, <1>4, FillIsRead DEF Next, Peers
<1>5. CASE Eof
  BY <1>5 DEF Eof
<1>6. CASE Quit
  <2>1. HangUp(Bridge) /\ conn[Bridge] # "away"
    BY <1>6 DEF Quit, HangUp
  <2>2. pc # "exit"
    BY <1>1, <2>1 DEF SubInv, TableInv
  <2> QED BY <1>1, <2>1, <2>2 DEF Next, Peers
<1>7. CASE Others
  BY <1>7 DEF Others, Next, Peers
<1>8. CASE AllDone \/ UNCHANGED allVars
  BY <1>8 DEF AllDone, allVars
<1> QED BY <1>2, <1>3, <1>4, <1>5, <1>6, <1>7, <1>8 DEF StreamNext

LEMMA StreamInvNext == SubInv /\ StreamInv /\ [StreamNext]_allVars => StreamInv'
<1> SUFFICES ASSUME SubInv, StreamInv, [StreamNext]_allVars PROVE StreamInv'
  OBVIOUS
<1>1. CASE Serve
  <2>1. CASE (SendAll \/ SendFull \/ SendDrops \/ FinalLocal) /\ Give
    BY <2>1, SendGives
  <2>2. CASE /\ \/ Sleep \/ SendDone \/ CloseAll \/ Stop
                \/ \E c \in Clients : Accept(c) \/ Reject(c)
                \/ \E settled \in BOOLEAN : Accepted(settled)
             /\ UNCHANGED handle
    BY <2>2, ServesElse
  <2> QED BY <1>1, <2>1, <2>2 DEF Serve
<1>2. CASE Dial
  BY <1>2, DialInv
<1>3. CASE Fill
  BY <1>3, FillIsRead
\* Without a handle nothing is said of the line but its types.
<1>4. ASSUME linked' = FALSE, rx' \in Seq(Nat), pipe' \in Seq(Nat), owed' \in Nat, Len(rx') < Payload,
             conn'[Bridge] = "away" \/ hung'[Bridge]
      PROVE  StreamInv'
  <2>1. linked' \in BOOLEAN
    BY <1>4
  <2>2. HandleOK'
    BY <1>4, <2>1 DEF HandleOK
  <2> QED BY <1>4, <2>2 DEF StreamInv, LinkInv, OwedInv, Aligned
<1>5. CASE Eof
  <2>1. /\ linked' = FALSE /\ UNCHANGED <<rx, pipe, owed, conn>> /\ conn[Bridge] = "away"
    BY <1>5 DEF Eof, vars, net
  <2> QED BY <1>4, <2>1 DEF StreamInv, HandleOK
<1>6. CASE Quit
  <2>1. /\ HangUp(Bridge) /\ linked' = FALSE /\ rx' = <<>> /\ pipe' = <<>> /\ owed' = 0
    BY <1>6 DEF Quit
  <2>2. hung'[Bridge]
    BY <2>1, BridgeAssumption DEF HangUp, SubInv, TypeOK
  <2>3. <<>> \in Seq(Nat) /\ Len(<<>>) = 0 /\ 0 < Payload
    BY Constants
  <2> QED BY <1>4, <2>1, <2>2, <2>3
<1>7. CASE Others
  <2>1. PICK c \in Clients \ {Bridge} : Connect(c) \/ Read(c) \/ HangUp(c)
    BY <1>7 DEF Others
  <2>2. UNCHANGED handle /\ UNCHANGED <<pc, local, tried>>
    BY <1>7, <2>1 DEF Others, Connect, Read, HangUp
  <2>3. /\ conn'[Bridge] = conn[Bridge] /\ hung'[Bridge] = hung[Bridge] /\ buf'[Bridge] = buf[Bridge]
    BY <2>1, BridgeAssumption DEF Connect, Read, HangUp, SubInv, TypeOK
  <2>4. Cut' = Cut
    BY <2>2 DEF Cut
  <2> QED BY <2>2, <2>3, <2>4, HandleStays DEF StreamInv, LinkInv, OwedInv
<1>8. CASE AllDone \/ UNCHANGED allVars
  <2>1. UNCHANGED handle /\ UNCHANGED <<pc, local, tried, conn, hung, buf>>
    BY <1>8 DEF AllDone, allVars, vars, net
  <2>2. Cut' = Cut
    BY <2>1 DEF Cut
  <2> QED BY <2>1, <2>2, HandleStays DEF StreamInv, LinkInv, OwedInv
<1> QED BY <1>1, <1>2, <1>3, <1>5, <1>6, <1>7, <1>8 DEF StreamNext

LEMMA StreamInduction ==
    /\ StreamInit => SubInv /\ StreamInv
    /\ SubInv /\ StreamInv /\ [StreamNext]_allVars => SubInv' /\ StreamInv'
<1>1. StreamInit => SubInv /\ StreamInv
  BY SubInit, StreamInvInit DEF StreamInit
<1>2. SubInv /\ StreamInv /\ [StreamNext]_allVars => SubInv' /\ StreamInv'
  BY StreamStep, SubNext, StreamInvNext
<1> QED BY <1>1, <1>2

(* ----------------------------- the composition --------------------------- *)

\* The service with a bridge on it is the table of Subscribers: what holds of the
\* table for clients that do as they like holds with the library's.
THEOREM StreamImplementsTable == StreamSpec => Spec
<1>1. StreamInit => Init
  BY DEF StreamInit
<1>2. SubInv /\ StreamInv /\ [StreamNext]_allVars => [Next]_vars
  BY StreamStep
<1> QED BY <1>1, <1>2, StreamInduction, PTL DEF StreamSpec, Spec

\* So the table keeps its promises with the library's handle on it.
COROLLARY TableHoldsComposed == StreamSpec => [](TableIsOpenSockets /\ EachOnItsOwn)
  BY StreamImplementsTable, TableHolds, EachOnItsOwnHolds, PTL

\* The library's frame and what follows it are whole packets, in step, wherever
\* reads split the stream and whatever the daemon could not send.
THEOREM AlignedHolds == StreamSpec => []Aligned
<1>1. StreamInv => Aligned
  BY DEF StreamInv
<1> QED BY <1>1, StreamInduction, PTL DEF StreamSpec

\* What was sent whole is delivered before the handle reports the end of the
\* stream.
THEOREM DeliveredFirstHolds == StreamSpec => DeliveredFirst
<1>1. SubInv /\ StreamInv /\ [StreamNext]_allVars =>
         [linked /\ ~linked' /\ ~hung'[Bridge] => owed = 0]_allVars
  <2> SUFFICES ASSUME SubInv, StreamInv, StreamNext, linked, ~linked', ~hung'[Bridge]
               PROVE  owed = 0
    OBVIOUS
  <2>1. CASE Eof
    <3>1. pipe = <<>> /\ HandleOK /\ owed * Payload <= Len(Line)
      BY <2>1 DEF Eof, StreamInv, OwedInv
    <3>2. Len(Line) < Payload /\ Len(Line) \in Nat /\ owed \in Nat
      BY <3>1, LineParts DEF HandleOK
    <3>3. Payload \in Nat
      BY Constants
    <3> QED BY <3>1, <3>2, <3>3
  <2>2. CASE Quit
    <3>1. hung'[Bridge]
      BY <2>2, BridgeAssumption DEF Quit, HangUp, SubInv, TypeOK
    <3> QED BY <3>1
  <2>3. CASE Serve \/ Dial \/ Fill \/ Others \/ AllDone
    <3>1. linked'
      BY <2>3 DEF Serve, Give, Dial, Fill, Others, AllDone, allVars, handle
    <3> QED BY <3>1
  <2> QED BY <2>1, <2>2, <2>3 DEF StreamNext
<1> QED BY <1>1, StreamInduction, PTL DEF StreamSpec, DeliveredFirst
=============================================================================
