--------------------------- MODULE ImuRing_proofs ---------------------------
(***************************************************************************)
(* Proofs about ImuRing for rings, bursts and behaviours of any size: the  *)
(* ring is a window on the newest samples, no loss goes uncounted, samples *)
(* are delivered in order, and the threads implement LossyQueue.           *)
(***************************************************************************)
EXTENDS ImuRing, SequenceTheorems, TLAPS

(* ------------------------- arithmetic of the slots ----------------------- *)

\* Below twice the length the mask is one subtraction.
LEMMA WrapIsStep ==
    \A i \in 0 .. (2 * RingLen - 1) :
        RB!Wrap(i) = IF i < RingLen THEN i ELSE i - RingLen
  BY RingLenAssumption DEF RB!Wrap

LEMMA AdvanceIs ==
    ASSUME NEW i \in RB!Slots
    PROVE  /\ RB!Advance(i) \in RB!Slots
           /\ RB!Advance(i) = IF i = RingLen - 1 THEN 0 ELSE i + 1
<1>1. i + 1 \in 0 .. (2 * RingLen - 1)
  BY RingLenAssumption DEF RB!Slots
<1> QED BY <1>1, WrapIsStep, RingLenAssumption DEF RB!Advance, RB!Slots

\* The slot of the k-th oldest sample, without the remainder.
LEMMA SlotIs ==
    ASSUME NEW r, r.tail \in RB!Slots, NEW k \in 0 .. RingLen
    PROVE  /\ RB!SlotOf(r, k) \in RB!Slots
           /\ RB!SlotOf(r, k) = IF r.tail + k < RingLen THEN r.tail + k
                                                        ELSE r.tail + k - RingLen
<1>1. r.tail + k \in 0 .. (2 * RingLen - 1)
  BY RingLenAssumption DEF RB!Slots
<1> QED BY <1>1, WrapIsStep, RingLenAssumption DEF RB!SlotOf, RB!Slots

(* --------------------------- one push, one pop --------------------------- *)

\* A push keeps the ring well formed and puts the sample after the samples
\* already there; when the ring is full the oldest is gone.
LEMMA PushShifts ==
    ASSUME NEW r \in RB!RingType(Nat), RB!WellFormed(r), NEW s \in Nat,
           NEW r2, r2 = RB!PushOne(r, s),
           NEW lost, lost = IF RB!IsFull(r) THEN 1 ELSE 0
    PROVE  /\ r2 \in RB!RingType(Nat)
           /\ RB!WellFormed(r2)
           /\ r2.count = r.count + 1 - lost
           /\ r2.buf[RB!SlotOf(r2, r2.count - 1)] = s
           /\ \A k \in 0 .. (r2.count - 2) :
                 r2.buf[RB!SlotOf(r2, k)] = r.buf[RB!SlotOf(r, k + lost)]
<1>1. /\ r.head \in RB!Slots /\ r.tail \in RB!Slots /\ r.count \in 0 .. RingLen
      /\ r.buf \in [RB!Slots -> Nat]
  BY DEF RB!RingType
<1>2. /\ r2.head = RB!Advance(r.head)
      /\ r2.buf = [r.buf EXCEPT ![r.head] = s]
      /\ r2.tail = IF lost = 1 THEN RB!Advance(r.tail) ELSE r.tail
      /\ r2.count = r.count + 1 - lost
      /\ lost \in {0, 1} /\ (lost = 1 <=> r.count = RingLen)
  BY <1>1, RingLenAssumption DEF RB!PushOne, RB!IsFull
<1>3. /\ r2.head \in RB!Slots /\ r2.tail \in RB!Slots
      /\ r2.head = IF r.head = RingLen - 1 THEN 0 ELSE r.head + 1
      /\ r2.tail = IF lost = 0 THEN r.tail
                   ELSE IF r.tail = RingLen - 1 THEN 0 ELSE r.tail + 1
  BY <1>1, <1>2, AdvanceIs
<1>4. r2.count \in 1 .. RingLen
  BY <1>1, <1>2, RingLenAssumption
<1>5. r2 \in RB!RingType(Nat)
  <2>1. r2 = [buf |-> r2.buf, head |-> r2.head, tail |-> r2.tail, count |-> r2.count]
    BY DEF RB!PushOne
  <2>2. r2.buf \in [RB!Slots -> Nat]
    BY <1>1, <1>2
  <2>3. r2.count \in 0 .. RingLen
    BY <1>4
  <2> QED BY <2>1, <2>2, <2>3, <1>3 DEF RB!RingType
<1>6. /\ r.head = IF r.tail + r.count < RingLen THEN r.tail + r.count
                                                ELSE r.tail + r.count - RingLen
  BY <1>1, SlotIs DEF RB!WellFormed
<1>7. \A k \in 0 .. r2.count : RB!SlotOf(r2, k) = IF r2.tail + k < RingLen THEN r2.tail + k
                                                    ELSE r2.tail + k - RingLen
  <2>1. \A k \in 0 .. r2.count : k \in 0 .. RingLen
    BY <1>4, RingLenAssumption
  <2> QED BY <2>1, <1>3, SlotIs
<1>8. RB!WellFormed(r2)
  <2>1. r2.count \in 0 .. r2.count
    BY <1>4, RingLenAssumption
  <2>2. RB!SlotOf(r2, r2.count) = IF r2.tail + r2.count < RingLen THEN r2.tail + r2.count
                                  ELSE r2.tail + r2.count - RingLen
    BY <1>7, <2>1
  <2>3. /\ RingLen \in Int /\ r.tail \in Int /\ r.tail >= 0 /\ r.tail < RingLen
        /\ r.count \in Int /\ r.count >= 0 /\ r.count <= RingLen
    BY <1>1, RingLenAssumption DEF RB!Slots
  <2>4. r2.head = RB!SlotOf(r2, r2.count)
    <3>1. CASE lost = 0
      <4>1. r2.tail = r.tail /\ r2.count = r.count + 1 /\ r.count < RingLen
        BY <1>2, <1>3, <2>3, <3>1
      <4> QED BY <1>3, <1>6, <2>2, <2>3, <4>1
    <3>2. CASE lost = 1
      <4>1. r2.count = RingLen /\ r.count = RingLen
        BY <1>2, <2>3, <3>2
      <4>2. r2.head = r2.tail
        BY <1>3, <1>6, <2>3, <3>2, <4>1
      <4>3. r2.tail \in Int /\ r2.tail >= 0
        BY <1>3, RingLenAssumption DEF RB!Slots
      <4> QED BY <2>2, <2>3, <4>1, <4>2, <4>3
    <3> QED BY <1>2, <3>1, <3>2
  <2> QED BY <2>4 DEF RB!WellFormed
<1>9. r2.buf[RB!SlotOf(r2, r2.count - 1)] = s
  <2>1. r2.count - 1 \in 0 .. r2.count
    BY <1>4, RingLenAssumption
  <2>2. RB!SlotOf(r2, r2.count - 1) =
          IF r2.tail + (r2.count - 1) < RingLen THEN r2.tail + (r2.count - 1)
                                                ELSE r2.tail + (r2.count - 1) - RingLen
    BY <1>7, <2>1
  <2>3. RB!SlotOf(r2, r2.count - 1) = r.head
    BY <1>1, <1>2, <1>3, <1>6, <2>2, RingLenAssumption DEF RB!Slots
  <2> QED BY <2>3, <1>1, <1>2
<1>10. ASSUME NEW k \in 0 .. (r2.count - 2)
       PROVE  r2.buf[RB!SlotOf(r2, k)] = r.buf[RB!SlotOf(r, k + lost)]
  <2>1. k \in 0 .. r2.count /\ k + lost \in 0 .. RingLen /\ k + lost < r.count
    BY <1>1, <1>2, <1>4, RingLenAssumption
  <2>2. /\ RB!SlotOf(r, k + lost) \in RB!Slots
        /\ RB!SlotOf(r, k + lost) = IF r.tail + (k + lost) < RingLen THEN r.tail + (k + lost)
                                    ELSE r.tail + (k + lost) - RingLen
    BY <1>1, <2>1, SlotIs
  <2>3. RB!SlotOf(r2, k) = IF r2.tail + k < RingLen THEN r2.tail + k
                           ELSE r2.tail + k - RingLen
    BY <1>7, <2>1
  <2>4. /\ RingLen \in Int /\ r.tail \in Int /\ r.tail >= 0 /\ r.tail < RingLen
        /\ r.count \in Int /\ r.count >= 0 /\ r.count <= RingLen
        /\ k \in Int /\ k >= 0 /\ k + lost < r.count
    BY <1>1, <1>4, <2>1, RingLenAssumption DEF RB!Slots
  <2>5. RB!SlotOf(r2, k) = RB!SlotOf(r, k + lost)
    <3>1. CASE lost = 0
      BY <1>3, <2>2, <2>3, <2>4, <3>1
    <3>2. CASE lost = 1 /\ r.tail = RingLen - 1
      <4>1. r2.tail = 0
        BY <1>3, <3>2
      <4> QED BY <2>2, <2>3, <2>4, <3>2, <4>1
    <3>3. CASE lost = 1 /\ r.tail # RingLen - 1
      <4>1. r2.tail = r.tail + 1
        BY <1>3, <3>3
      <4> QED BY <2>2, <2>3, <2>4, <3>3, <4>1
    <3> QED BY <1>2, <3>1, <3>2, <3>3
  <2>6. RB!SlotOf(r, k + lost) # r.head
    <3>1. CASE lost = 0
      BY <1>2, <1>6, <2>2, <2>4, <3>1
    <3>2. CASE lost = 1
      BY <1>6, <2>2, <2>4, <3>2
    <3> QED BY <1>2, <3>1, <3>2
  <2> QED BY <1>1, <1>2, <2>2, <2>5, <2>6
<1> QED BY <1>2, <1>5, <1>8, <1>9, <1>10

\* A pop takes the oldest sample and leaves the rest in place and in order.
LEMMA PopShifts ==
    ASSUME NEW r \in RB!RingType(Nat), RB!WellFormed(r), ~RB!IsEmpty(r),
           NEW r2, r2 = RB!PopOne(r)
    PROVE  /\ r2 \in RB!RingType(Nat)
           /\ RB!WellFormed(r2)
           /\ r2.count = r.count - 1
           /\ r2.buf = r.buf
           /\ RB!Oldest(r) = r.buf[RB!SlotOf(r, 0)]
           /\ RB!Oldest(r) \in Nat
           /\ \A k \in 0 .. (r2.count - 1) : RB!SlotOf(r2, k) = RB!SlotOf(r, k + 1)
<1>1. /\ r.head \in RB!Slots /\ r.tail \in RB!Slots /\ r.count \in 1 .. RingLen
      /\ r.buf \in [RB!Slots -> Nat]
  BY RingLenAssumption DEF RB!RingType, RB!IsEmpty
<1>2. /\ r2.head = r.head /\ r2.buf = r.buf
      /\ r2.tail = RB!Advance(r.tail) /\ r2.count = r.count - 1
  BY DEF RB!PopOne
<1>3. /\ r2.tail \in RB!Slots
      /\ r2.tail = IF r.tail = RingLen - 1 THEN 0 ELSE r.tail + 1
  BY <1>1, <1>2, AdvanceIs
<1>4. r2 \in RB!RingType(Nat)
  <2>1. r2 = [buf |-> r2.buf, head |-> r2.head, tail |-> r2.tail, count |-> r2.count]
    BY DEF RB!PopOne
  <2>2. r2.count \in 0 .. RingLen
    BY <1>1, <1>2, RingLenAssumption
  <2> QED BY <2>1, <2>2, <1>1, <1>2, <1>3 DEF RB!RingType
<1>5. \A k \in 0 .. r.count : RB!SlotOf(r, k) = IF r.tail + k < RingLen THEN r.tail + k
                                                 ELSE r.tail + k - RingLen
  <2>1. \A k \in 0 .. r.count : k \in 0 .. RingLen
    BY <1>1, RingLenAssumption
  <2> QED BY <2>1, <1>1, SlotIs
<1>6. \A k \in 0 .. r2.count : RB!SlotOf(r2, k) = IF r2.tail + k < RingLen THEN r2.tail + k
                                                   ELSE r2.tail + k - RingLen
  <2>1. \A k \in 0 .. r2.count : k \in 0 .. RingLen
    BY <1>1, <1>2, RingLenAssumption
  <2> QED BY <2>1, <1>3, SlotIs
<1>7. ASSUME NEW k \in 0 .. r2.count
      PROVE  RB!SlotOf(r2, k) = RB!SlotOf(r, k + 1)
  <2>1. k \in Int /\ k >= 0 /\ k + 1 \in 0 .. r.count
    BY <1>1, <1>2, RingLenAssumption
  <2>2. RB!SlotOf(r, k + 1) = IF r.tail + (k + 1) < RingLen THEN r.tail + (k + 1)
                              ELSE r.tail + (k + 1) - RingLen
    BY <1>5, <2>1
  <2>3. RB!SlotOf(r2, k) = IF r2.tail + k < RingLen THEN r2.tail + k
                           ELSE r2.tail + k - RingLen
    BY <1>6
  <2>4. /\ RingLen \in Int /\ r.tail \in Int /\ r.tail >= 0 /\ r.tail < RingLen
        /\ r.count \in Int /\ r.count <= RingLen /\ k + 1 <= r.count
    BY <1>1, <2>1, RingLenAssumption DEF RB!Slots
  <2>5. CASE r.tail = RingLen - 1
    <3>1. r2.tail = 0
      BY <1>3, <2>5
    <3> QED BY <2>1, <2>2, <2>3, <2>4, <2>5, <3>1
  <2>6. CASE r.tail # RingLen - 1
    <3>1. r2.tail = r.tail + 1
      BY <1>3, <2>6
    <3> QED BY <2>1, <2>2, <2>3, <2>4, <3>1
  <2> QED BY <2>5, <2>6
<1>8. RB!WellFormed(r2)
  <2>1. r2.count \in 0 .. r2.count /\ r2.count + 1 = r.count
    BY <1>1, <1>2, RingLenAssumption
  <2>2. RB!SlotOf(r2, r2.count) = RB!SlotOf(r, r.count)
    BY <1>7, <2>1
  <2> QED BY <1>2, <2>2 DEF RB!WellFormed
<1>9. RB!Oldest(r) = r.buf[RB!SlotOf(r, 0)] /\ RB!Oldest(r) \in Nat
  <2>1. RB!SlotOf(r, 0) = r.tail
    <3>1. 0 \in 0 .. r.count
      BY <1>1, RingLenAssumption
    <3>2. RB!SlotOf(r, 0) = IF r.tail + 0 < RingLen THEN r.tail + 0 ELSE r.tail + 0 - RingLen
      BY <1>5, <3>1
    <3> QED BY <1>1, <3>2, RingLenAssumption DEF RB!Slots
  <2> QED BY <1>1, <2>1 DEF RB!Oldest
<1>10. \A k \in 0 .. (r2.count - 1) : k \in 0 .. r2.count
  BY <1>1, <1>2, RingLenAssumption
<1> QED BY <1>2, <1>4, <1>7, <1>8, <1>9, <1>10

(* ------------------------- the inductive invariant ----------------------- *)

\* The ring theorem needs to know where the reader is in a burst (its locals
\* are zero between bursts) and that fusion has seen nothing newer than what
\* has left the ring.
ReaderAt ==
    /\ rpc \in {"read", "exit"} => burst = 0 /\ left = 0 /\ dropped = 0
    /\ rpc \in {"signal", "count"} => left = 0

SeenIsGone == out <= accepted - ring.count

IInv == TypeOK /\ LockHeld /\ ReaderAt /\ WindowInv /\ LossAccounted /\ SeenIsGone

LEMMA InitIInv == Init => IInv
<1> SUFFICES ASSUME Init PROVE IInv
  OBVIOUS
<1>1. ring \in RB!RingType(Nat) /\ ring.count = 0
  BY RingLenAssumption DEF Init, RB!EmptyRing, RB!RingType, RB!Slots
<1>2. RB!WellFormed(ring)
  <2>1. ring.tail = 0 /\ ring.head = 0 /\ 0 \in RB!Slots /\ 0 \in 0 .. RingLen /\ 0 < RingLen
    BY RingLenAssumption DEF Init, RB!EmptyRing, RB!Slots
  <2>2. RB!SlotOf(ring, 0) = 0
    BY <2>1, SlotIs, RingLenAssumption
  <2> QED BY <1>1, <2>1, <2>2 DEF RB!WellFormed
<1>3. TypeOK
  <2>1. NumbersOK
    BY <1>1, MaxBurstAssumption DEF Init, NumbersOK
  <2>2. FlagsOK
    BY DEF Init, FlagsOK
  <2> QED BY <2>1, <2>2 DEF TypeOK
<1>4. WindowInv
  BY <1>1, <1>2 DEF WindowInv
<1>5. LockHeld /\ ReaderAt
  BY DEF Init, LockHeld, ReaderAt
<1>6. LossAccounted /\ SeenIsGone
  BY <1>1 DEF Init, LossAccounted, SeenIsGone
<1> QED BY <1>3, <1>4, <1>5, <1>6 DEF IInv

\* What a push does to the invariant, in the terms of the ring lemma.
LEMMA PushKeepsIInv == IInv /\ PushStep => IInv'
<1> SUFFICES ASSUME IInv, PushStep PROVE IInv'
  OBVIOUS
<1> DEFINE lost == IF RB!IsFull(ring) THEN 1 ELSE 0
<1>1. /\ ring \in RB!RingType(Nat) /\ RB!WellFormed(ring)
      /\ ring.count \in 0 .. RingLen /\ accepted \in Nat
  BY DEF IInv, TypeOK, NumbersOK, FlagsOK, WindowInv, RB!RingType
<1>2. /\ ring' \in RB!RingType(Nat) /\ RB!WellFormed(ring')
      /\ ring'.count = ring.count + 1 - lost
      /\ ring'.buf[RB!SlotOf(ring', ring'.count - 1)] = accepted + 1
      /\ \A k \in 0 .. (ring'.count - 2) :
            ring'.buf[RB!SlotOf(ring', k)] = ring.buf[RB!SlotOf(ring, k + lost)]
  BY <1>1, PushShifts DEF PushStep
<1>3. accepted' = accepted + 1 /\ left' = left - 1 /\ left > 0
      /\ dropped' = dropped + lost /\ overwritten' = overwritten + lost
  BY DEF PushStep, IInv, TypeOK, NumbersOK
<1>4. TypeOK'
  <2>1. left \in 0 .. MaxBurst /\ dropped \in Nat /\ overwritten \in Nat /\ lost \in {0, 1}
    BY DEF IInv, TypeOK, NumbersOK
  <2>2. left' \in 0 .. MaxBurst /\ dropped' \in Nat /\ overwritten' \in Nat /\ accepted' \in Nat
    BY <1>1, <1>3, <2>1, MaxBurstAssumption
  <2>3. NumbersOK'
    BY <1>2, <2>2 DEF IInv, TypeOK, NumbersOK, PushStep, fusionVars
  <2>4. FlagsOK'
    BY DEF IInv, TypeOK, FlagsOK, PushStep, fusionVars
  <2> QED BY <2>3, <2>4 DEF TypeOK
<1>5. LockHeld' /\ ReaderAt'
  BY DEF IInv, LockHeld, ReaderAt, PushStep, fusionVars
<1>6. WindowInv'
  <2>1. RB!WellFormed(ring)'
    BY <1>2 DEF RB!WellFormed, RB!SlotOf
  <2>2. ASSUME NEW k \in 0 .. (RingLen - 1), k < ring'.count
        PROVE  ring'.buf[RB!SlotOf(ring', k)] = accepted' - ring'.count + k + 1
    <3>1. ring'.count \in 0 .. RingLen
      BY <1>2 DEF RB!RingType
    <3>2. CASE k = ring'.count - 1
      BY <1>1, <1>2, <1>3, <3>1, <3>2
    <3>3. CASE k # ring'.count - 1
      <4>1. k \in 0 .. (ring'.count - 2) /\ k + lost \in 0 .. (RingLen - 1)
            /\ k + lost < ring.count
        BY <1>1, <1>2, <2>2, <3>1, <3>3, RingLenAssumption DEF RB!IsFull
      <4>2. ring.buf[RB!SlotOf(ring, k + lost)] = accepted - ring.count + (k + lost) + 1
        BY <4>1 DEF IInv, WindowInv
      <4> QED BY <1>1, <1>2, <1>3, <3>1, <4>1, <4>2
    <3> QED BY <3>2, <3>3
  <2> QED BY <2>1, <2>2 DEF WindowInv, RB!SlotOf
<1>7. LossAccounted'
  BY <1>1, <1>2, <1>3 DEF IInv, TypeOK, NumbersOK, FlagsOK, LossAccounted, PushStep, fusionVars
<1>8. SeenIsGone'
  BY <1>1, <1>2, <1>3 DEF IInv, TypeOK, NumbersOK, FlagsOK, SeenIsGone, PushStep, fusionVars
<1> QED BY <1>4, <1>5, <1>6, <1>7, <1>8 DEF IInv

LEMMA TakeKeepsIInv == IInv /\ PopTake => IInv'
<1> SUFFICES ASSUME IInv, PopTake PROVE IInv'
  OBVIOUS
<1>1. /\ ring \in RB!RingType(Nat) /\ RB!WellFormed(ring)
      /\ ring.count \in 0 .. RingLen /\ accepted \in Nat /\ fpc = "take"
  BY DEF IInv, TypeOK, NumbersOK, FlagsOK, WindowInv, RB!RingType, PopTake
<1>2. LockHeld' /\ ReaderAt'
  BY DEF IInv, LockHeld, ReaderAt, PopTake, readerVars
<1>3. CASE RB!IsEmpty(ring)
  <2>1. ring' = ring /\ out' = out /\ consumed' = consumed /\ accepted' = accepted
        /\ overwritten' = overwritten
    BY <1>3 DEF PopTake
  <2> QED BY <1>2, <2>1 DEF IInv, TypeOK, NumbersOK, FlagsOK, WindowInv, LossAccounted, SeenIsGone,
                            PopTake, readerVars, RB!WellFormed, RB!SlotOf
<1>4. CASE ~RB!IsEmpty(ring)
  <2>1. /\ ring' = RB!PopOne(ring) /\ out' = RB!Oldest(ring) /\ consumed' = consumed + 1
        /\ accepted' = accepted /\ overwritten' = overwritten
    BY <1>4 DEF PopTake
  <2>2. /\ ring' \in RB!RingType(Nat) /\ RB!WellFormed(ring')
        /\ ring'.count = ring.count - 1 /\ ring'.buf = ring.buf
        /\ out' = ring.buf[RB!SlotOf(ring, 0)] /\ out' \in Nat
        /\ \A k \in 0 .. (ring'.count - 1) : RB!SlotOf(ring', k) = RB!SlotOf(ring, k + 1)
    BY <1>1, <1>4, <2>1, PopShifts
  <2>3. ring.count \in 1 .. RingLen
    BY <1>1, <1>4, RingLenAssumption DEF RB!IsEmpty
  <2>4. out' = accepted - ring.count + 1
    BY <1>1, <2>2, <2>3, RingLenAssumption DEF IInv, WindowInv
  <2>5. TypeOK'
    BY <2>1, <2>2 DEF IInv, TypeOK, NumbersOK, FlagsOK, PopTake, readerVars
  <2>6. WindowInv'
    <3>1. RB!WellFormed(ring)'
      BY <2>2 DEF RB!WellFormed, RB!SlotOf
    <3>2. ASSUME NEW k \in 0 .. (RingLen - 1), k < ring'.count
          PROVE  ring'.buf[RB!SlotOf(ring', k)] = accepted' - ring'.count + k + 1
      <4>1. k \in 0 .. (ring'.count - 1) /\ k + 1 \in 0 .. (RingLen - 1)
            /\ k + 1 < ring.count
        BY <2>2, <2>3, <3>2, RingLenAssumption
      <4>2. ring.buf[RB!SlotOf(ring, k + 1)] = accepted - ring.count + (k + 1) + 1
        BY <4>1 DEF IInv, WindowInv
      <4> QED BY <1>1, <2>1, <2>2, <2>3, <4>1, <4>2
    <3> QED BY <3>1, <3>2 DEF WindowInv, RB!SlotOf
  <2>7. LossAccounted'
    BY <2>1, <2>2, <2>3 DEF IInv, TypeOK, NumbersOK, FlagsOK, LossAccounted, PopTake, readerVars
  <2>8. SeenIsGone'
    BY <1>1, <2>1, <2>2, <2>3, <2>4 DEF SeenIsGone
  <2> QED BY <1>2, <2>5, <2>6, <2>7, <2>8 DEF IInv
<1> QED BY <1>3, <1>4

\* The steps that leave the ring and its history alone.
LEMMA OthersKeepIInv ==
    ASSUME IInv, [Next]_vars, ~PushStep, ~PopTake
    PROVE  IInv'
<1>1. UNCHANGED ringVars
  BY DEF Next, Reader, Fusion, Main, ReaderExit, ReaderBurst, PushLock, PushUnlock,
         PushSignal, ReaderCount, FusionTop, PopLock, PopCheck, PopWait, PopTimeout,
         SpuriousWakeup, DeadlinePasses, StopSet, StopBroadcast, Terminated,
         ringVars, vars
<1>2. WindowInv'
  BY <1>1 DEF IInv, WindowInv, ringVars, RB!WellFormed, RB!SlotOf
<1>3. NumbersOK' /\ LockHeld' /\ ReaderAt' /\ LossAccounted' /\ SeenIsGone'
  <2> USE <1>1, MaxBurstAssumption DEF ringVars, readerVars, fusionVars
  <2>1. CASE ReaderExit
    BY <2>1 DEF IInv, TypeOK, NumbersOK, LockHeld, ReaderAt, LossAccounted, SeenIsGone,
                ReaderExit
  <2>2. ASSUME NEW n \in 0 .. MaxBurst, NEW rc \in {0, 1}, ReaderBurst(n, rc)
        PROVE  NumbersOK' /\ LockHeld' /\ ReaderAt' /\ LossAccounted' /\ SeenIsGone'
    BY <2>2 DEF IInv, TypeOK, NumbersOK, LockHeld, ReaderAt, LossAccounted, SeenIsGone,
                ReaderBurst
  <2>3. CASE PushLock
    BY <2>3 DEF IInv, TypeOK, NumbersOK, LockHeld, ReaderAt, LossAccounted, SeenIsGone,
                PushLock
  <2>4. CASE PushUnlock
    BY <2>4 DEF IInv, TypeOK, NumbersOK, LockHeld, ReaderAt, LossAccounted, SeenIsGone,
                PushUnlock
  <2>5. CASE PushSignal
    BY <2>5 DEF IInv, TypeOK, NumbersOK, LockHeld, ReaderAt, LossAccounted, SeenIsGone,
                PushSignal, WakeFusion
  <2>6. CASE ReaderCount
    BY <2>6 DEF IInv, TypeOK, NumbersOK, LockHeld, ReaderAt, LossAccounted, SeenIsGone,
                ReaderCount
  <2>7. CASE FusionTop
    BY <2>7 DEF IInv, TypeOK, NumbersOK, LockHeld, ReaderAt, LossAccounted, SeenIsGone,
                FusionTop
  <2>8. CASE PopLock
    BY <2>8 DEF IInv, TypeOK, NumbersOK, LockHeld, ReaderAt, LossAccounted, SeenIsGone,
                PopLock
  <2>9. CASE PopCheck
    BY <2>9 DEF IInv, TypeOK, NumbersOK, LockHeld, ReaderAt, LossAccounted, SeenIsGone,
                PopCheck
  <2>10. CASE PopWait
    BY <2>10 DEF IInv, TypeOK, NumbersOK, LockHeld, ReaderAt, LossAccounted, SeenIsGone,
                 PopWait
  <2>11. CASE PopTimeout
    BY <2>11 DEF IInv, TypeOK, NumbersOK, LockHeld, ReaderAt, LossAccounted, SeenIsGone,
                 PopTimeout
  <2>12. CASE SpuriousWakeup
    BY <2>12 DEF IInv, TypeOK, NumbersOK, LockHeld, ReaderAt, LossAccounted, SeenIsGone,
                 SpuriousWakeup
  <2>13. CASE DeadlinePasses
    BY <2>13 DEF IInv, TypeOK, NumbersOK, LockHeld, ReaderAt, LossAccounted, SeenIsGone,
                 DeadlinePasses
  <2>14. CASE StopSet
    BY <2>14 DEF IInv, TypeOK, NumbersOK, LockHeld, ReaderAt, LossAccounted, SeenIsGone,
                 StopSet
  <2>15. CASE StopBroadcast
    BY <2>15 DEF IInv, TypeOK, NumbersOK, LockHeld, ReaderAt, LossAccounted, SeenIsGone,
                 StopBroadcast, WakeFusion
  <2>16. CASE Terminated \/ UNCHANGED vars
    BY <2>16 DEF IInv, TypeOK, NumbersOK, LockHeld, ReaderAt, LossAccounted, SeenIsGone,
                 Terminated, vars
  <2> QED BY <2>1, <2>2, <2>3, <2>4, <2>5, <2>6, <2>7, <2>8, <2>9, <2>10, <2>11,
             <2>12, <2>13, <2>14, <2>15, <2>16 DEF Next, Reader, Fusion, Main
<1>4. FlagsOK'
  BY DEF IInv, TypeOK, FlagsOK, Next, Reader, Fusion, Main, ReaderExit, ReaderBurst,
         PushLock, PushUnlock, PushSignal, ReaderCount, FusionTop, PopLock, PopCheck,
         PopWait, PopTimeout, SpuriousWakeup, DeadlinePasses, StopSet, StopBroadcast,
         Terminated, vars, fusionVars
<1> QED BY <1>2, <1>3, <1>4 DEF IInv, TypeOK

LEMMA StepIInv == IInv /\ [Next]_vars => IInv'
  BY PushKeepsIInv, TakeKeepsIInv, OthersKeepIInv

\* Types, the window on the newest samples, and the accounting of losses, for
\* any ring length, burst size and number of samples.
THEOREM RingSafe == Spec => []RingSound
<1>1. IInv => RingSound
  BY DEF IInv, RingSound
<1> QED BY <1>1, InitIInv, StepIInv, PTL DEF Spec

(* ------------------------- order and implementation ---------------------- *)

\* What a pop delivers is the sample that follows everything overwritten and
\* everything delivered before.
LEMMA TakeDeliversOldest ==
    ASSUME IInv, PopTake, ~RB!IsEmpty(ring)
    PROVE  /\ out' = accepted - ring.count + 1
           /\ ring'.count = ring.count - 1 /\ ring.count \in 1 .. RingLen
           /\ consumed' = consumed + 1 /\ accepted' = accepted
           /\ overwritten' = overwritten
<1>1. /\ ring \in RB!RingType(Nat) /\ RB!WellFormed(ring) /\ ring.count \in 1 .. RingLen
  BY RingLenAssumption DEF IInv, TypeOK, NumbersOK, WindowInv, RB!RingType, RB!IsEmpty
<1>2. /\ ring' = RB!PopOne(ring) /\ out' = RB!Oldest(ring) /\ consumed' = consumed + 1
      /\ accepted' = accepted /\ overwritten' = overwritten
  BY DEF PopTake
<1>3. ring'.count = ring.count - 1 /\ out' = ring.buf[RB!SlotOf(ring, 0)]
  BY <1>1, <1>2, PopShifts
<1>4. ring.buf[RB!SlotOf(ring, 0)] = accepted - ring.count + 0 + 1
  BY <1>1, RingLenAssumption DEF IInv, WindowInv
<1>5. accepted \in Nat
  BY DEF IInv, TypeOK, NumbersOK
<1> QED BY <1>1, <1>2, <1>3, <1>4, <1>5

\* Only a successful pop changes what fusion holds.
LEMMA OutChangesInTake ==
    ASSUME [Next]_vars, out' # out PROVE PopTake /\ ~RB!IsEmpty(ring)
  BY DEF Next, Reader, Fusion, Main, ReaderExit, ReaderBurst, PushLock, PushStep,
         PushUnlock, PushSignal, ReaderCount, FusionTop, PopLock, PopCheck, PopWait,
         PopTimeout, PopTake, SpuriousWakeup, DeadlinePasses, StopSet, StopBroadcast,
         Terminated, fusionVars, vars

\* Fusion sees samples in the order the driver returned them, and every sample
\* it did not see was counted as overwritten before the next one arrived.
THEOREM RingOrdered == Spec => DeliveredInOrder
<1>1. ASSUME IInv, [Next]_vars, out' # out
      PROVE  out' > out /\ out' - consumed' = overwritten
  <2>1. PopTake /\ ~RB!IsEmpty(ring)
    BY <1>1, OutChangesInTake
  <2>2. out' = accepted - ring.count + 1 /\ consumed' = consumed + 1
    BY <1>1, <2>1, TakeDeliversOldest
  <2>3. /\ out \in Nat /\ accepted \in Nat /\ consumed \in Nat /\ overwritten \in Nat
        /\ ring.count \in Int
    BY <1>1, RingLenAssumption DEF IInv, TypeOK, NumbersOK, RB!RingType
  <2> QED BY <1>1, <2>2, <2>3 DEF IInv, SeenIsGone, LossAccounted
<1>2. IInv /\ [Next]_vars
        => [out' # out => out' > out /\ out' - consumed' = overwritten]_vars
  BY <1>1
<1> QED BY <1>2, InitIInv, StepIInv, PTL DEF Spec, DeliveredInOrder

\* The abstract value of the ring, without slots: the n newest of a samples.
Window(a, n) == [k \in 1 .. n |-> a - n + k]

LEMMA ContentsIsWindow ==
    ASSUME NEW r \in RB!RingType(Nat), NEW a \in Nat,
           \A k \in 0 .. (RingLen - 1) :
              k < r.count => r.buf[RB!SlotOf(r, k)] = a - r.count + k + 1
    PROVE  RB!Contents(r) = Window(a, r.count)
<1>1. r.count \in 0 .. RingLen
  BY DEF RB!RingType
<1>2. ASSUME NEW k \in 1 .. r.count
      PROVE  r.buf[RB!SlotOf(r, k - 1)] = a - r.count + k
  <2>1. k \in Int /\ k - 1 \in 0 .. (RingLen - 1) /\ k - 1 < r.count
    BY <1>1, RingLenAssumption
  <2>2. r.buf[RB!SlotOf(r, k - 1)] = a - r.count + (k - 1) + 1
    BY <2>1
  <2> QED BY <1>1, <2>1, <2>2, RingLenAssumption
<1> QED BY <1>2 DEF RB!Contents, Window

LEMMA WindowIsSeq ==
    ASSUME NEW a \in Nat, NEW n \in Nat
    PROVE  /\ Window(a, n) \in Seq(Int) /\ Len(Window(a, n)) = n
           /\ \A k \in 1 .. n : Window(a, n)[k] = a - n + k
  BY DEF Window

LEMMA WindowAppend ==
    ASSUME NEW a \in Nat, NEW n \in Nat
    PROVE  Append(Window(a, n), a + 1) = Window(a + 1, n + 1)
<1> DEFINE s == Append(Window(a, n), a + 1)
           t == Window(a + 1, n + 1)
<1>1. /\ s \in Seq(Int) /\ Len(s) = n + 1
      /\ \A k \in 1 .. n : s[k] = a - n + k
      /\ s[n + 1] = a + 1
  <2>1. /\ Window(a, n) \in Seq(Int) /\ Len(Window(a, n)) = n /\ a + 1 \in Int
        /\ \A k \in 1 .. n : Window(a, n)[k] = a - n + k
    BY WindowIsSeq
  <2> HIDE DEF s
  <2>2. /\ s \in Seq(Int) /\ Len(s) = n + 1
        /\ \A k \in 1 .. n : s[k] = Window(a, n)[k]
        /\ s[n + 1] = a + 1
    BY <2>1, AppendProperties DEF s
  <2> QED BY <2>1, <2>2
<1>2. /\ t \in Seq(Int) /\ Len(t) = n + 1
      /\ \A k \in 1 .. (n + 1) : t[k] = (a + 1) - (n + 1) + k
  BY WindowIsSeq
<1>3. ASSUME NEW k \in 1 .. (n + 1) PROVE s[k] = t[k]
  <2>1. CASE k = n + 1
    BY <1>1, <1>2, <2>1
  <2>2. CASE k # n + 1
    BY <1>1, <1>2, <2>2
  <2> QED BY <2>1, <2>2
<1> HIDE DEF s, t
<1> QED BY <1>1, <1>2, <1>3, SeqEqual DEF s, t

LEMMA WindowTail ==
    ASSUME NEW a \in Nat, NEW n \in Nat, n > 0
    PROVE  /\ Window(a, n) # << >>
           /\ Head(Window(a, n)) = a - n + 1
           /\ Tail(Window(a, n)) = Window(a, n - 1)
<1> DEFINE s == Window(a, n)
           t == Window(a, n - 1)
<1>1. /\ s \in Seq(Int) /\ Len(s) = n
      /\ \A k \in 1 .. n : s[k] = a - n + k
  BY WindowIsSeq
<1>2. /\ t \in Seq(Int) /\ Len(t) = n - 1
      /\ \A k \in 1 .. (n - 1) : t[k] = a - (n - 1) + k
  BY WindowIsSeq
<1> HIDE DEF s, t
<1>3. s # << >> /\ Head(s) = s[1]
  BY <1>1
<1>4. /\ Tail(s) \in Seq(Int) /\ Len(Tail(s)) = n - 1
      /\ \A k \in 1 .. (n - 1) : Tail(s)[k] = s[k + 1]
  BY <1>1, <1>3, HeadTailProperties
<1>5. ASSUME NEW k \in 1 .. (n - 1) PROVE Tail(s)[k] = t[k]
  BY <1>1, <1>2, <1>4
<1>6. Tail(s) = t
  BY <1>2, <1>4, <1>5, SeqEqual
<1> QED BY <1>1, <1>3, <1>6 DEF s, t

\* The reader and fusion threads, with their lock, slots and wakeups, implement
\* the lossy queue: a push is an Accept, a successful pop a Deliver, and every
\* other step leaves the queue alone.
THEOREM RingImplementsQueue == Spec => ImplementsQueue
<1>1. Init => LQ!Init
  <2> SUFFICES ASSUME Init PROVE LQ!Init
    OBVIOUS
  <2>1. RB!Contents(ring) = << >>
    BY DEF Init, RB!EmptyRing, RB!Contents
  <2> QED BY <2>1 DEF Init, LQ!Init
<1>2. IInv /\ IInv' /\ [Next]_vars => [LQ!Next]_LQ!absVars
  <2> SUFFICES ASSUME IInv, IInv', [Next]_vars PROVE [LQ!Next]_LQ!absVars
    OBVIOUS
  <2> DEFINE n == ring.count
  <2>1. accepted \in Nat /\ n \in 0 .. RingLen /\ n \in Nat /\ ring \in RB!RingType(Nat)
    BY RingLenAssumption DEF IInv, TypeOK, NumbersOK, RB!RingType
  <2>2. RB!Contents(ring) = Window(accepted, n)
    BY <2>1, ContentsIsWindow DEF IInv, WindowInv
  <2>3. RB!Contents(ring') = Window(accepted', ring'.count)
    <3>1. accepted' \in Nat /\ ring' \in RB!RingType(Nat)
      BY DEF IInv, TypeOK, NumbersOK
    <3>2. \A k \in 0 .. (RingLen - 1) :
             k < ring'.count => ring'.buf[RB!SlotOf(ring', k)] = accepted' - ring'.count + k + 1
      BY DEF IInv, WindowInv, RB!SlotOf
    <3> QED BY <3>1, <3>2, ContentsIsWindow
  <2>4. RB!Contents(ring)' = RB!Contents(ring')
    BY DEF RB!Contents, RB!SlotOf
  <2>5. Len(RB!Contents(ring)) = n
    BY <2>1, <2>2, WindowIsSeq
  <2> HIDE DEF n
  <2>6. CASE PushStep
    <3>1. accepted' = accepted + 1 /\ out' = out
      BY <2>6 DEF PushStep, fusionVars
    <3>2. CASE RB!IsFull(ring)
      <4>1. n = RingLen /\ n > 0 /\ n - 1 \in Nat /\ overwritten' = overwritten + 1
        BY <2>1, <2>6, <3>2, RingLenAssumption DEF PushStep, RB!IsFull, n
      <4>2. ring'.count = n
        BY <2>6, <3>2 DEF PushStep, RB!PushOne, n
      <4>3. Append(Tail(Window(accepted, n)), accepted + 1) = Window(accepted + 1, n)
        <5>1. Tail(Window(accepted, n)) = Window(accepted, n - 1)
          BY <2>1, <4>1, WindowTail
        <5>2. Append(Window(accepted, n - 1), accepted + 1) = Window(accepted + 1, n - 1 + 1)
          BY <2>1, <4>1, WindowAppend
        <5>3. n - 1 + 1 = n
          BY <2>1
        <5> QED BY <5>1, <5>2, <5>3
      <4> QED BY <2>2, <2>3, <2>4, <2>5, <3>1, <4>1, <4>2, <4>3 DEF LQ!Next, LQ!Accept
    <3>3. CASE ~RB!IsFull(ring)
      <4>1. n < RingLen /\ overwritten' = overwritten
        BY <2>1, <2>6, <3>3, RingLenAssumption DEF PushStep, RB!IsFull, n
      <4>2. ring'.count = n + 1
        BY <2>6, <3>3 DEF PushStep, RB!PushOne, n
      <4>3. Append(Window(accepted, n), accepted + 1) = Window(accepted + 1, n + 1)
        BY <2>1, WindowAppend
      <4> QED BY <2>2, <2>3, <2>4, <2>5, <3>1, <4>1, <4>2, <4>3 DEF LQ!Next, LQ!Accept
    <3> QED BY <3>2, <3>3
  <2>7. CASE PopTake /\ ~RB!IsEmpty(ring)
    <3>1. /\ out' = accepted - n + 1 /\ ring'.count = n - 1 /\ n > 0
          /\ accepted' = accepted /\ overwritten' = overwritten
      BY <2>7, TakeDeliversOldest, RingLenAssumption DEF n
    <3>2. /\ Window(accepted, n) # << >> /\ Head(Window(accepted, n)) = accepted - n + 1
          /\ Tail(Window(accepted, n)) = Window(accepted, n - 1)
      BY <2>1, <3>1, WindowTail
    <3> QED BY <2>2, <2>3, <2>4, <3>1, <3>2 DEF LQ!Next, LQ!Deliver
  <2>8. CASE ~PushStep /\ ~(PopTake /\ ~RB!IsEmpty(ring))
    <3>1. UNCHANGED <<ring, accepted, overwritten, out>>
      BY <2>8 DEF Next, Reader, Fusion, Main, ReaderExit, ReaderBurst, PushLock, PushUnlock,
         PushSignal, ReaderCount, FusionTop, PopLock, PopCheck, PopWait, PopTimeout, PopTake,
         SpuriousWakeup, DeadlinePasses, StopSet, StopBroadcast, Terminated,
         ringVars, fusionVars, vars
    <3> QED BY <2>4, <3>1 DEF LQ!absVars
  <2> QED BY <2>6, <2>7, <2>8
<1> QED BY <1>1, <1>2, InitIInv, StepIInv, PTL DEF Spec, ImplementsQueue, LQ!Spec
=============================================================================
