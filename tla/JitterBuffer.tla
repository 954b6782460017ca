---------------------------- MODULE JitterBuffer ----------------------------
(***************************************************************************)
(* The reorder queue of one received stream (SphereJamClient, jitter.rs).  *)
(*                                                                         *)
(* The network delivers packets of a publisher in any order, several times *)
(* or never (Push with any sequence number), and the publisher may replace *)
(* its connection, which starts a new generation with new numbers.  The    *)
(* buffer is modelled as the public operations of its type, in any order;  *)
(* the receive thread itself (media.rs) pops after every push, so that the *)
(* ceilings are met only by a caller that lets the queue grow.             *)
(*                                                                         *)
(* A packet is its sequence number and its payload size.  Packets in the   *)
(* queue are always of the buffer's own generation.  The pool of recycled  *)
(* buffers is left out, and so is saturation at 2^64.                      *)
(***************************************************************************)
EXTENDS Integers, Sequences

CONSTANTS
  SeqNumbers,   \* sequence numbers the publisher may use
  Generations,  \* connection generations of the publisher
  Sizes,        \* payload sizes
  MaxQueued,    \* MAX_QUEUED_PACKETS
  MaxBytes,     \* MAX_QUEUED_BYTES
  MaxPushes     \* bound on the packets that arrive in a behaviour

NoSeq == -1     \* None

ASSUME JitterAssumption ==
  /\ SeqNumbers \subseteq Nat
  /\ Generations \subseteq Nat
  /\ Sizes \subseteq Nat
  /\ MaxQueued \in Nat \ {0}
  /\ MaxBytes \in Nat
  /\ \A size \in Sizes : size <= MaxBytes
  /\ MaxPushes \in Nat

VARIABLES
  queue,       \* held packets, [seq, size]
  next,        \* next_sequence
  generation,  \* generation
  target,      \* target_packets
  bytes,       \* queued_bytes
  stats,       \* JitterStats, without depth and reordered
  released,    \* history: <<generation, seq>> of the latest packet released
  discarded,   \* history: packets dropped with their generation
  slots        \* history: slots of this generation passed, see SlotsCounted

jitterVars ==
  <<queue, next, generation, target, bytes, stats, released, discarded, slots>>

Packets == [seq : SeqNumbers, size : Sizes]
Counters == {"received", "released", "late", "duplicates", "lost", "overflowed"}

\* The slots a generation has passed: the first one, how many were released,
\* how many were counted as lost, and whether some were passed in a way that
\* pop does not see (shed by push, or drained).
NoSlots == [first |-> NoSeq, out |-> 0, lost |-> 0, unseen |-> FALSE]

JitterInit ==
  /\ queue = <<>>
  /\ next = NoSeq
  /\ generation = 0
  /\ target \in 1..MaxQueued
  /\ bytes = 0
  /\ stats = [c \in Counters |-> 0]
  /\ released = <<0, NoSeq>>
  /\ discarded = 0
  /\ slots = NoSlots

-----------------------------------------------------------------------------
(* push                                                                    *)

Count(counters) ==
  [c \in Counters |-> IF c \in counters THEN stats[c] + 1 ELSE stats[c]]

\* A packet of a connection that was replaced.
PushStale(gen) ==
  /\ gen < generation
  /\ stats' = Count({"received", "late"})
  /\ UNCHANGED <<queue, next, generation, bytes, discarded, slots>>

\* Mutant of Late: a packet is late only when its slot is long gone.
LateByTwo(seq, expected) == expected # NoSeq /\ seq + 1 < expected

\* The slot of the packet was already released.
Late(seq, expected) == expected # NoSeq /\ seq < expected

Held(seq, held) == \E i \in 1..Len(held) : held[i].seq = seq

\* Mutant of OverCeiling: one packet too many.
OverCeilingLate(held, heldBytes, size) ==
  Len(held) > MaxQueued \/ heldBytes + size > MaxBytes

OverCeiling(held, heldBytes, size) ==
  Len(held) >= MaxQueued \/ heldBytes + size > MaxBytes

\* After the last held packet with a smaller sequence number.
Insert(held, packet) ==
  LET smaller == {i \in 1..Len(held) : held[i].seq < packet.seq}
      position == IF smaller = {} THEN 0
                  ELSE CHOOSE i \in smaller : \A j \in smaller : j <= i
  IN  [i \in 1..(Len(held) + 1) |->
         IF i <= position THEN held[i]
         ELSE IF i = position + 1 THEN packet
         ELSE held[i - 1]]

\* Mutant of ShedCounters: the packet shed from the queue is not counted.
ShedUncounted == {"received"}

ShedCounters == {"received", "overflowed"}

\* A packet of this generation or a newer one; a newer one first empties the
\* buffer (reset_to_generation).
PushCurrent(packet, gen) ==
  LET renewed  == gen > generation
      held     == IF renewed THEN <<>> ELSE queue
      expected == IF renewed THEN NoSeq ELSE next
      total    == IF renewed THEN 0 ELSE bytes
      passed   == IF renewed THEN NoSlots ELSE slots
  IN
  /\ gen >= generation
  /\ generation' = gen
  /\ discarded' = IF renewed THEN discarded + Len(queue) ELSE discarded
  /\ \/ /\ Late(packet.seq, expected)
        /\ stats' = Count({"received", "late"})
        /\ queue' = held /\ next' = expected /\ bytes' = total /\ slots' = passed
     \/ /\ ~Late(packet.seq, expected)
        /\ Held(packet.seq, held)
        /\ stats' = Count({"received", "duplicates"})
        /\ queue' = held /\ next' = expected /\ bytes' = total /\ slots' = passed
     \/ /\ ~Late(packet.seq, expected)
        /\ ~Held(packet.seq, held)
        /\ ~OverCeiling(held, total, packet.size)
        /\ stats' = Count({"received"})
        /\ queue' = Insert(held, packet)
        /\ bytes' = total + packet.size
        /\ next' = expected /\ slots' = passed
     \/ /\ ~Late(packet.seq, expected)
        /\ ~Held(packet.seq, held)
        /\ OverCeiling(held, total, packet.size)
        /\ held # <<>>                       \* by the assumption on Sizes
        /\ stats' = Count(ShedCounters)
        /\ queue' = Insert(Tail(held), packet)
        /\ bytes' = total - Head(held).size + packet.size
        /\ next' = Head(held).seq + 1
        /\ slots' = [passed EXCEPT !.unseen = TRUE]

Push(packet, gen) ==
  /\ stats["received"] < MaxPushes
  /\ PushStale(gen) \/ PushCurrent(packet, gen)
  /\ UNCHANGED <<target, released>>

-----------------------------------------------------------------------------
(* pop and drain                                                           *)

\* Mutant of Gap: the first gap of a burst is forgotten.
GapBeyondOne(seq) == IF next # NoSeq /\ seq > next + 1 THEN seq - next ELSE 0

\* The slots skipped by releasing seq now.
Gap(seq) == IF next # NoSeq /\ seq > next THEN seq - next ELSE 0

\* One packet, once the queue is as deep as the target.
Pop ==
  /\ queue # <<>> /\ Len(queue) >= target
  /\ LET packet == Head(queue) IN
     /\ queue' = Tail(queue)
     /\ bytes' = bytes - packet.size
     /\ next' = packet.seq + 1
     /\ released' = <<generation, packet.seq>>
     /\ stats' = [stats EXCEPT !["released"] = @ + 1,
                               !["lost"] = @ + Gap(packet.seq)]
     /\ slots' = [slots EXCEPT !.first = IF @ = NoSeq THEN packet.seq ELSE @,
                               !.out = @ + 1,
                               !.lost = @ + (stats'["lost"] - stats["lost"])]
  /\ UNCHANGED <<generation, target, discarded>>

\* Everything that is held, whatever the target.
Drain ==
  /\ queue # <<>>
  /\ queue' = <<>>
  /\ bytes' = 0
  /\ next' = queue[Len(queue)].seq + 1
  /\ released' = <<generation, queue[Len(queue)].seq>>
  /\ stats' = [stats EXCEPT !["released"] = @ + Len(queue)]
  /\ slots' = [slots EXCEPT !.unseen = TRUE]
  /\ UNCHANGED <<generation, target, discarded>>

\* set_target_packets clamps to the ceiling.
SetTarget(packets) ==
  /\ target' = IF packets < 1 THEN 1
               ELSE IF packets > MaxQueued THEN MaxQueued ELSE packets
  /\ UNCHANGED <<queue, next, generation, bytes, stats, released, discarded, slots>>

JitterNext ==
  \/ \E packet \in Packets, gen \in Generations : Push(packet, gen)
  \/ Pop
  \/ Drain
  \/ \E packets \in {0, 1, MaxQueued + 1} : SetTarget(packets)

JitterSpec == JitterInit /\ [][JitterNext]_jitterVars

-----------------------------------------------------------------------------
(* Properties.                                                             *)

\* Bytes(held) is the payload held by the first n packets.
HeldBytes ==
  LET upTo[n \in 0..Len(queue)] ==
        IF n = 0 THEN 0 ELSE upTo[n - 1] + queue[n].size
  IN  upTo[Len(queue)]

\* Types; the queue keeps its packet ceiling, and queued_bytes is exact.
JitterTypeOK ==
  /\ queue \in Seq(Packets) /\ Len(queue) <= MaxQueued
  /\ next \in Nat \cup {NoSeq}
  /\ generation \in Nat
  /\ target \in 1..MaxQueued
  /\ bytes = HeldBytes
  /\ stats \in [Counters -> Nat]
  /\ released \in Nat \X (Nat \cup {NoSeq})
  /\ discarded \in Nat
  /\ slots \in [first : Nat \cup {NoSeq}, out : Nat, lost : Nat, unseen : BOOLEAN]

Newer(a, b) == a[1] > b[1] \/ (a[1] = b[1] /\ a[2] > b[2])

\* Audio is handed on in order: whatever the network does, a packet that is
\* released is newer than everything released before it, and none of a
\* replaced connection follows one of its successor.
ReleasedInOrder ==
  [][stats'["released"] # stats["released"] => Newer(released', released)]_jitterVars

\* Every packet that arrived was released, is held, or is counted as late,
\* duplicate or shed, or went with the connection that sent it.
EveryPacketCounted ==
  stats["received"] = stats["released"] + stats["late"] + stats["duplicates"]
                      + stats["overflowed"] + discarded + Len(queue)

\* `lost` is exact: as long as nothing was shed or drained, each slot of the
\* generation before the next one was released or is counted as lost.
SlotsCounted ==
  (next # NoSeq /\ ~slots.unseen) => next = slots.first + slots.out + slots.lost
=============================================================================
