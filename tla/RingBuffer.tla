----------------------------- MODULE RingBuffer -----------------------------
(***************************************************************************)
(* The circular buffer of src/src/ring.c, without its lock: a ring is a    *)
(* record with the fields of imu_ring_t and mag_ring_t.  Head is the next  *)
(* slot to write, tail the oldest sample, count how many samples are held. *)
(* A push into a full ring overwrites the oldest sample.  Both rings of    *)
(* the daemon (256 inertial samples, 32 field samples) use these.          *)
(***************************************************************************)
EXTENDS Integers, Sequences

\* IMU_RING_LEN or MAG_RING_LEN.  The code masks with LEN - 1, which is the
\* remainder for a power of two; nothing below needs more than Size > 0, which
\* the modules that use this one assume of their own constant.
CONSTANT Size

Slots == 0 .. (Size - 1)

Wrap(i)    == i % Size
Advance(i) == Wrap(i + 1)

RingType(S) == [buf : [Slots -> S], head : Slots, tail : Slots, count : 0 .. Size]

EmptyRing(zero) == [buf |-> [i \in Slots |-> zero], head |-> 0, tail |-> 0, count |-> 0]

\* A bug the checks must notice: a full ring that refuses the new sample.
PushDropsNewest(r, s) ==
    IF r.count = Size THEN r
    ELSE [r EXCEPT !.buf[r.head] = s, !.head = Advance(@), !.count = @ + 1]

IsFull(r)  == r.count = Size
IsEmpty(r) == r.count = 0

\* One iteration of the push loop.
PushOne(r, s) ==
    [ buf   |-> [r.buf EXCEPT ![r.head] = s],
      head  |-> Advance(r.head),
      tail  |-> IF IsFull(r) THEN Advance(r.tail) ELSE r.tail,
      count |-> IF IsFull(r) THEN r.count ELSE r.count + 1 ]

Oldest(r) == r.buf[r.tail]

\* What a pop leaves behind; the slot keeps its old bytes.
PopOne(r) ==
    [buf |-> r.buf, head |-> r.head, tail |-> Advance(r.tail), count |-> r.count - 1]

\* The slot of the k-th oldest sample, k from 0, and the samples held, oldest
\* first: the abstract value of the ring.
SlotOf(r, k)  == Wrap(r.tail + k)
Contents(r)   == [k \in 1 .. r.count |-> r.buf[SlotOf(r, k - 1)]]

\* Head is where tail and count say it is.
WellFormed(r) == r.head = SlotOf(r, r.count)
=============================================================================
